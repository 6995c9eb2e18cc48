------------------------------ MODULE ShellProofs ------------------------------
(***************************************************************************)
(* Theorems about module Shell, for every set of process ids, pipes and    *)
(* command lines.                                                          *)
(***************************************************************************)
EXTENDS Shell, SequenceTheorems, TLAPS

-----------------------------------------------------------------------------
(* Types: commands and frames. *)

Tables == [Pids -> Process]
Frames == [do : {"exit", "run", "crontab"}, cmd : Commands, pipe : Streams]

LEMMA CommandType ==
    ASSUME NEW stages \in Seq(Stages), NEW amp \in BOOLEAN
    PROVE  Command(stages, amp) \in Commands
BY DEF Command, Commands

LEMMA CallType ==
    ASSUME NEW name \in Names
    PROVE  Call(name) \in Stages
BY DEF Call, Stages

LEMMA CallsType ==
    ASSUME NEW name \in Names, NEW name2 \in Names
    PROVE  /\ Command(<<Call(name)>>, FALSE) \in Commands
           /\ Command(<<Call(name), Call(name2)>>, FALSE) \in Commands
<1>1. Call(name) \in Stages /\ Call(name2) \in Stages
  BY CallType
<1> DEFINE a == Call(name)
           b == Call(name2)
<1> HIDE DEF a, b
<1>2. ASSUME a \in Stages, b \in Stages PROVE <<a>> \in Seq(Stages) /\ <<a, b>> \in Seq(Stages)
  BY <1>2
<1>3. <<Call(name)>> \in Seq(Stages) /\ <<Call(name), Call(name2)>> \in Seq(Stages)
  BY <1>1, <1>2 DEF a, b
<1>4. FALSE \in BOOLEAN
  OBVIOUS
<1> QED
  BY <1>3, <1>4, CommandType

LEMMA NoCommandType == NoCommand \in Commands
<1>1. <<>> \in Seq(Stages) /\ FALSE \in BOOLEAN
  OBVIOUS
<1> QED
  BY <1>1, CommandType DEF NoCommand

LEMMA RenamedType ==
    ASSUME NEW cmd \in Commands, NEW name \in Names
    PROVE  Renamed(cmd, name) \in Commands
<1> DEFINE new == [cmd.stages EXCEPT ![1].name = name]
<1>1. Renamed(cmd, name) = [cmd EXCEPT !.stages = new]
  BY DEF Renamed
<1>2. cmd.stages \in Seq(Stages)
  BY DEF Commands
<1>3. new \in Seq(Stages)
  <2>1. CASE 1 \in DOMAIN cmd.stages
    <3>1. cmd.stages[1] \in Stages
      BY <1>2, <2>1
    <3>2. [cmd.stages[1] EXCEPT !.name = name] \in Stages
      BY <3>1 DEF Stages
    <3> QED
      BY <1>2, <2>1, <3>2, ExceptSeq
  <2>2. CASE 1 \notin DOMAIN cmd.stages
    <3>1. cmd.stages = [i \in DOMAIN cmd.stages |-> cmd.stages[i]]
      BY <1>2
    <3>2. new = [i \in DOMAIN cmd.stages |-> cmd.stages[i]]
      BY <2>2
    <3> QED
      BY <1>2, <3>1, <3>2
  <2> QED
    BY <2>1, <2>2
<1> QED
  BY <1>1, <1>3 DEF Commands

LEMMA FrameTypes ==
    /\ ExitFrame \in Frames
    /\ \A cmd \in Commands : RunFrame(cmd) \in Frames
    /\ \A pipe \in Pipes : CrontabFrame(pipe) \in Frames
BY NoCommandType DEF ExitFrame, RunFrame, CrontabFrame, Frame, Frames, Streams

LEMMA NoProcessType == NoProcess \in Process
BY NoCommandType DEF NoProcess, Process, Streams

LEMMA ZombieType ==
    ASSUME NEW dad \in Pids \cup {init}
    PROVE  Zombie(dad) \in Process
BY NoProcessType DEF Zombie, NoProcess, Process

LEMMA InitialTypes == Init => TypeOK
<1> SUFFICES ASSUME Init PROVE TypeOK
  OBVIOUS
<1>1. [NoProcess EXCEPT !.state = "running", !.origin = "root", !.at = "main"] \in Process
  BY NoProcessType DEF NoProcess, Process
<1>2. proc \in Tables
  BY <1>1, NoProcessType DEF Init, Tables
<1>3. tty \in {"cooked", "raw"} /\ shared \in BOOLEAN
  BY DEF Init
<1>4. typed \in 0 .. MaxLines
  BY ShellConstants DEF Init
<1> QED
  BY <1>2, <1>3, <1>4 DEF TypeOK, Tables
-----------------------------------------------------------------------------
(* Types: what the system calls do to a process table. *)

LEMMA FreshIsFree ==
    ASSUME NEW ps \in Tables, Free(ps) # {}
    PROVE  Fresh(ps) \in Pids /\ ps[Fresh(ps)].state = "none"
BY DEF Free, Fresh

LEMMA ChildType ==
    ASSUME NEW r \in Process, NEW p \in Pids,
           NEW origin \in {"none", "root", "foreground", "background", "stage", "helper", "alarm"},
           NEW place \in {"nowhere", "main", "prompt", "command", "wait", "any", "helper",
                          "alarm", "child", "exec", "program"}
    PROVE  [r EXCEPT !.parent = p, !.origin = origin, !.at = place, !.job = init,
                     !.late = FALSE] \in Process
BY Zenon DEF Process

LEMMA ForkedType ==
    ASSUME NEW ps \in Tables, NEW p \in Pids, NEW q \in Pids,
           NEW origin \in {"foreground", "background", "stage", "helper", "alarm"},
           NEW place \in {"helper", "alarm", "child", "exec", "program"}
    PROVE  Forked(ps, p, q, origin, place) \in Tables
<1> DEFINE child == [ps[p] EXCEPT !.parent = p, !.origin = origin, !.at = place, !.job = init,
                                  !.late = FALSE]
<1>1. ps[p] \in Process
  BY DEF Tables
<1>2. child \in Process
  BY <1>1, ChildType
<1> QED
  BY <1>2 DEF Forked, Tables

LEMMA DetachedType ==
    ASSUME NEW r \in Process
    PROVE  /\ Detached(r) \in Process
           /\ Detached(r) = [r EXCEPT !.origin = Detached(r).origin]
           /\ Detached(r).origin = IF r.origin = "foreground" THEN "background" ELSE r.origin
BY DEF Detached, Process

LEMMA ExitedType ==
    ASSUME NEW ps \in Tables, NEW p \in Pids
    PROVE  Exited(ps, p) \in Tables
<1>1. ASSUME NEW q \in Pids PROVE Exited(ps, p)[q] \in Process
  <2>1. ps[q] \in Process /\ ps[p] \in Process
    BY DEF Tables
  <2>2. [Detached(ps[q]) EXCEPT !.parent = init] \in Process
    <3>1. Detached(ps[q]) \in Process
      BY <2>1, DetachedType
    <3> QED
      BY <3>1 DEF Process
  <2>3. ps[p].parent \in Pids \cup {init}
    BY <2>1 DEF Process
  <2>4. Exited(ps, p)[q] \in {NoProcess, Zombie(ps[p].parent),
                             [Detached(ps[q]) EXCEPT !.parent = init], ps[q]}
    BY Zenon DEF Exited
  <2> QED
    BY <2>1, <2>2, <2>3, <2>4, NoProcessType, ZombieType
<1>2. Exited(ps, p) = [q \in Pids |-> Exited(ps, p)[q]]
  BY DEF Exited
<1> QED
  BY <1>1, <1>2 DEF Tables

LEMMA StoppedType ==
    ASSUME NEW ps \in Tables, NEW t \in Pids
    PROVE  Stopped(ps, t) \in Tables
<1>1. ps[t] \in Process
  BY DEF Tables
<1>2. [ps[t] EXCEPT !.state = "stopped", !.unreported = TRUE] \in Process
  BY <1>1 DEF Process
<1> QED
  BY <1>2 DEF Stopped, Tables

LEMMA ContinuedType ==
    ASSUME NEW ps \in Tables, NEW t \in Pids
    PROVE  Continued(ps, t) \in Tables
<1>1. ps[t] \in Process
  BY DEF Tables
<1>2. [ps[t] EXCEPT !.state = "running", !.unreported = FALSE] \in Process
  BY <1>1 DEF Process
<1> QED
  BY <1>2 DEF Continued, Tables

LEMMA ReleasedType ==
    ASSUME NEW ps \in Tables, NEW t, NEW by
    PROVE  Released(ps, t, by) \in Tables
<1>1. ASSUME NEW p \in Pids PROVE Released(ps, t, by)[p] \in Process
  <2>1. ps[p] \in Process
    BY DEF Tables
  <2>2. [ps[p] EXCEPT !.job = init] \in Process
    BY <2>1 DEF Process
  <2> QED
    BY <2>1, <2>2 DEF Released
<1> QED
  BY <1>1 DEF Released, Tables

LEMMA ExecedType ==
    ASSUME NEW ps \in Tables, NEW p \in Pids
    PROVE  Execed(ps, p) \in Tables
<1>1. ps[p] \in Process
  BY DEF Tables
<1>2. <<>> \in Seq(Frames)
  OBVIOUS
<1>3. [ps[p] EXCEPT !.at = "program", !.stack = <<>>, !.target = init] \in Process
  BY <1>1, <1>2 DEF Process, Frames
<1> QED
  BY <1>3 DEF Execed, Tables

\* Returned is one of four, as its stack says.
LEMMA ReturnedIs ==
    ASSUME NEW ps \in Tables, NEW p \in Pids
    PROVE  LET top == Head(ps[p].stack)
           IN  \/ /\ ps[p].stack = <<>>
                  /\ Returned(ps, p) =
                        [ps EXCEPT ![p].at = "main", ![p].cmd = NoCommand, ![p].target = init]
               \/ /\ ps[p].stack # <<>> /\ top \in Frames /\ top.do = "exit"
                  /\ Returned(ps, p) = Exited(ps, p)
               \/ /\ ps[p].stack # <<>> /\ top \in Frames /\ top.do = "crontab"
                  /\ Returned(ps, p) =
                        Execed([ps EXCEPT ![p].holds = @ \ {<<top.pipe, "w">>},
                                          ![p].in = top.pipe], p)
               \/ /\ ps[p].stack # <<>> /\ top \in Frames /\ top.do = "run"
                  /\ Returned(ps, p) =
                        [ps EXCEPT ![p].at = "command", ![p].cmd = top.cmd, ![p].target = init,
                                   ![p].stack = Tail(@)]
<1>1. ps[p] \in Process
  BY DEF Tables
<1>2. ps[p].stack \in Seq(Frames)
  BY <1>1 DEF Process, Frames
<1>3. ps[p].stack # <<>> => Head(ps[p].stack) \in Frames
  BY <1>2
<1>4. ps[p].stack # <<>> => Head(ps[p].stack).do \in {"exit", "run", "crontab"}
  BY <1>3 DEF Frames
<1> QED
  BY <1>3, <1>4, Zenon DEF Returned

LEMMA ReturnedType ==
    ASSUME NEW ps \in Tables, NEW p \in Pids
    PROVE  Returned(ps, p) \in Tables
<1> DEFINE top == Head(ps[p].stack)
<1>0. ps[p] \in Process
  BY DEF Tables
<1>1. CASE Returned(ps, p) =
             [ps EXCEPT ![p].at = "main", ![p].cmd = NoCommand, ![p].target = init]
  <2>1. [ps[p] EXCEPT !.at = "main", !.cmd = NoCommand, !.target = init] \in Process
    BY <1>0, NoCommandType DEF Process
  <2> QED
    BY <1>1, <2>1 DEF Tables
<1>2. CASE Returned(ps, p) = Exited(ps, p)
  BY <1>2, ExitedType
<1>3. CASE /\ top \in Frames
           /\ Returned(ps, p) = Execed([ps EXCEPT ![p].holds = @ \ {<<top.pipe, "w">>},
                                                   ![p].in = top.pipe], p)
  <2>1. [ps[p] EXCEPT !.holds = @ \ {<<top.pipe, "w">>}, !.in = top.pipe] \in Process
    BY <1>0, <1>3 DEF Process, Frames
  <2>2. [ps EXCEPT ![p].holds = @ \ {<<top.pipe, "w">>}, ![p].in = top.pipe] \in Tables
    BY <2>1 DEF Tables
  <2> QED
    BY <1>3, <2>2, ExecedType
<1>4. CASE /\ ps[p].stack # <<>> /\ top \in Frames
           /\ Returned(ps, p) =
                 [ps EXCEPT ![p].at = "command", ![p].cmd = top.cmd, ![p].target = init,
                            ![p].stack = Tail(@)]
  <2>1. ps[p].stack \in Seq(Frames) /\ top.cmd \in Commands
    BY <1>0, <1>4 DEF Process, Frames
  <2>2. Tail(ps[p].stack) \in Seq(Frames)
    BY <1>4, <2>1, HeadTailProperties
  <2>3. [ps[p] EXCEPT !.at = "command", !.cmd = top.cmd, !.target = init,
                      !.stack = Tail(@)] \in Process
    BY <1>0, <2>1, <2>2 DEF Process, Frames
  <2> QED
    BY <1>4, <2>3 DEF Tables
<1> QED
  BY <1>1, <1>2, <1>3, <1>4, ReturnedIs, Zenon
-----------------------------------------------------------------------------
(* The invariant of the process table. *)

\* process_command does not return to main: on the way out there is an exit or crontab.
Leaves(stack) == \E i \in DOMAIN stack : stack[i].do \in {"exit", "crontab"}

\* What holds of every process by itself.  Helpers and the alarm's child do
\* nothing else; who reads a pipe does not get back to main.
EntryOK(r) ==
    /\ r.at = "nowhere" <=> r.state \in {"none", "zombie"}
    /\ r.at = "nowhere" <=> r.origin = "none"
    /\ r.origin = "root" => r.parent = init
    /\ r.at = "nowhere" => r.in = "tty" /\ r.job = init
    /\ r.origin = "helper" <=> r.at = "helper"
    /\ r.origin = "alarm" /\ r.at \notin {"alarm", "program"} =>
          r.at = "any" /\ r.stack # <<>> /\ Head(r.stack).do = "crontab"
    /\ r.at = "alarm" => r.origin = "alarm"
    /\ r.in \in Pipes /\ r.at \notin {"program", "helper"} => Leaves(r.stack)
    /\ r.at \in {"main", "prompt"} => r.stack = <<>>
    /\ r.at \in {"wait", "helper"} => r.target \in Pids

\* A child in the foreground that has not become a program is the one its parent waits for.
HeldOK(ps, x) ==
    ps[x].origin = "foreground" /\ ps[x].at # "program" =>
        /\ ps[x].parent \in Pids
        /\ ps[ps[x].parent].at = "wait" /\ ps[ps[x].parent].target = x

\* The job of x is its child and has ended or is stopped, and nobody is about to continue it.
Settled(ps, x) ==
    /\ ps[x].job \in Pids /\ ps[ps[x].job].parent = x
    /\ ps[ps[x].job].state \in {"stopped", "zombie"}
    /\ \A h \in Pids : ps[h].parent = x => ps[h].at # "helper"

\* Who waits waits for its job; who has waited has a job that is settled, or was too late.
IdleOK(ps, x) ==
    ps[x].job # init => IF ps[x].at = "wait" THEN ps[x].job = ps[x].target
                                             ELSE ps[x].late \/ Settled(ps, x)

Sound(ps) ==
    /\ ps \in Tables
    /\ \A x \in Pids : EntryOK(ps[x])
    /\ \A x \in Pids : HeldOK(ps, x)
    /\ \A x \in Pids : IdleOK(ps, x)

\* No child in the foreground depends on p.
NoHeld(ps, p) ==
    \A x \in Pids : ps[x].origin = "foreground" /\ ps[x].at # "program" => ps[x].parent # p

LEMMA NotWaiting ==
    ASSUME NEW ps, Sound(ps), NEW p \in Pids, ps[p].at # "wait"
    PROVE  NoHeld(ps, p) /\ (ps[p].job # init => ps[p].late \/ Settled(ps, p))
BY DEF Sound, HeldOK, IdleOK, NoHeld

LEMMA InitiallySound == Init => Sound(proc)
<1> SUFFICES ASSUME Init PROVE Sound(proc)
  OBVIOUS
<1>1. proc \in Tables
  BY InitialTypes DEF TypeOK, Tables
<1>2. ASSUME NEW x \in Pids
      PROVE  /\ EntryOK(proc[x]) /\ proc[x].job = init /\ proc[x].origin # "foreground"
  <2>1. CASE x = root
    <3>1. proc[x] = [NoProcess EXCEPT !.state = "running", !.origin = "root", !.at = "main"]
      BY <2>1 DEF Init
    <3> QED
      BY <3>1, ShellConstants DEF NoProcess, EntryOK
  <2>2. CASE x # root
    <3>1. proc[x] = NoProcess
      BY <2>2 DEF Init
    <3> QED
      BY <3>1, ShellConstants DEF NoProcess, EntryOK
  <2> QED
    BY <2>1, <2>2
<1> QED
  BY <1>1, <1>2 DEF Sound, HeldOK, IdleOK

-----------------------------------------------------------------------------
(* The invariant and what the system calls do. *)

LEMMA StoppedSound ==
    ASSUME NEW ps, Sound(ps), NEW t \in Pids
    PROVE  Sound(Stopped(ps, t))
<1> DEFINE qs == Stopped(ps, t)
<1>1. CASE ps[t].state # "running"
  BY <1>1 DEF Stopped
<1>2. CASE ps[t].state = "running"
  <2> DEFINE r == [ps[t] EXCEPT !.state = "stopped", !.unreported = TRUE]
  <2>1. ps \in Tables /\ ps[t] \in Process /\ qs \in Tables
    BY StoppedType DEF Sound, Tables
  <2>2. qs = [ps EXCEPT ![t] = r]
    BY <1>2, <2>1 DEF Stopped, Tables
  <2>3. \A x \in Pids : x # t => qs[x] = ps[x]
    BY <2>1, <2>2 DEF Tables
  <2>4. /\ qs[t].at = ps[t].at /\ qs[t].origin = ps[t].origin /\ qs[t].parent = ps[t].parent
        /\ qs[t].job = ps[t].job /\ qs[t].late = ps[t].late /\ qs[t].target = ps[t].target
        /\ qs[t].in = ps[t].in /\ qs[t].stack = ps[t].stack /\ qs[t].state = "stopped"
    BY <2>1, <2>2 DEF Tables, Process
  <2>5. ps[t].at # "nowhere"
    BY <1>2 DEF Sound, EntryOK
  <2> HIDE DEF qs, r
  <2>6. \A x \in Pids : EntryOK(qs[x])
    BY <2>3, <2>4, <2>5 DEF Sound, EntryOK
  <2>7. \A x \in Pids : HeldOK(qs, x)
    BY <2>3, <2>4, <2>5 DEF Sound, HeldOK
  <2>8. ASSUME NEW x \in Pids PROVE IdleOK(qs, x)
    <3>1. Settled(ps, x) => Settled(qs, x)
      BY <2>3, <2>4 DEF Settled
    <3>2. IdleOK(ps, x)
      BY DEF Sound
    <3> QED
      BY <2>3, <2>4, <3>1, <3>2 DEF IdleOK
  <2>9. Sound(qs)
    BY <2>1, <2>6, <2>7, <2>8 DEF Sound
  <2> QED
    BY <2>9 DEF qs
<1> QED
  BY <1>1, <1>2

LEMMA ResumedSound ==
    ASSUME NEW ps, Sound(ps), NEW t \in Pids, NEW by,
           by \in Pids => \E h \in Pids : ps[h].parent = by /\ ps[h].at = "helper"
    PROVE  Sound(Released(Continued(ps, t), t, by))
<1> DEFINE qs == Released(Continued(ps, t), t, by)
<1>1. ps \in Tables /\ Continued(ps, t) \in Tables /\ qs \in Tables
  BY ContinuedType, ReleasedType DEF Sound
<1>2. ASSUME NEW x \in Pids
      PROVE  LET r == Continued(ps, t)[x]
             IN  /\ r.at = ps[x].at /\ r.origin = ps[x].origin /\ r.parent = ps[x].parent
                 /\ r.job = ps[x].job /\ r.late = ps[x].late /\ r.target = ps[x].target
                 /\ r.in = ps[x].in /\ r.stack = ps[x].stack
                 /\ r.state = ps[x].state \/ (x = t /\ ps[x].state = "stopped" /\ r.state = "running")
  <2>1. ps[x] \in Process
    BY <1>1 DEF Tables
  <2> QED
    BY <1>1, <2>1 DEF Continued, Tables, Process
<1>3. ASSUME NEW x \in Pids
      PROVE  LET c == Continued(ps, t)[x]
                 r == qs[x]
             IN  /\ r.at = c.at /\ r.origin = c.origin /\ r.parent = c.parent
                 /\ r.late = c.late /\ r.target = c.target /\ r.state = c.state
                 /\ r.in = c.in /\ r.stack = c.stack
                 /\ r.job = IF c.job = t /\ x # by THEN init ELSE c.job
  <2>1. Continued(ps, t)[x] \in Process
    BY <1>1 DEF Tables
  <2> QED
    BY <2>1 DEF Released, Process
<1>4. ASSUME NEW x \in Pids
      PROVE  /\ qs[x].at = ps[x].at /\ qs[x].origin = ps[x].origin
             /\ qs[x].parent = ps[x].parent /\ qs[x].late = ps[x].late
             /\ qs[x].target = ps[x].target /\ qs[x].in = ps[x].in
             /\ qs[x].stack = ps[x].stack
             /\ qs[x].job = IF ps[x].job = t /\ x # by THEN init ELSE ps[x].job
             /\ \/ qs[x].state = ps[x].state
                \/ x = t /\ ps[x].state = "stopped" /\ qs[x].state = "running"
  BY <1>2, <1>3
<1> HIDE DEF qs
<1>5. \A x \in Pids : EntryOK(qs[x])
  BY <1>4 DEF Sound, EntryOK
<1>6. \A x \in Pids : HeldOK(qs, x)
  BY <1>4 DEF Sound, HeldOK
<1>7. ASSUME NEW x \in Pids, qs[x].job # init, ps[x].at # "wait", ~ps[x].late
      PROVE  Settled(qs, x)
  <2>1. Settled(ps, x)
    BY <1>4, <1>7 DEF Sound, IdleOK
  <2>2. x # by
    BY <2>1 DEF Settled
  <2>3. qs[x].job = ps[x].job /\ ps[x].job # t
    BY <1>4, <1>7, <2>2
  <2> QED
    BY <1>4, <2>1, <2>3 DEF Settled
<1>8. \A x \in Pids : IdleOK(qs, x)
  BY <1>4, <1>7 DEF Sound, IdleOK
<1>9. Sound(qs)
  BY <1>1, <1>5, <1>6, <1>8 DEF Sound
<1> QED
  BY <1>9 DEF qs

\* What becomes of everybody when p exits.
LEMMA ExitedFields ==
    ASSUME NEW ps \in Tables, NEW p \in Pids, NEW x \in Pids
    PROVE  LET r == Exited(ps, p)[x]
           IN  /\ x = p /\ ps[p].parent = init => r = NoProcess
               /\ x = p /\ ps[p].parent # init => r = Zombie(ps[p].parent)
               /\ x # p /\ ps[x].parent # p => r = ps[x]
               /\ x # p /\ ps[x].parent = p /\ ps[x].state = "zombie" => r = NoProcess
               /\ x # p /\ ps[x].parent = p /\ ps[x].state # "zombie" =>
                     r = [Detached(ps[x]) EXCEPT !.parent = init]
BY DEF Exited, Children

LEMMA Gone ==
    /\ EntryOK(NoProcess) /\ NoProcess.job = init /\ NoProcess.at = "nowhere"
    /\ NoProcess.origin = "none" /\ NoProcess.parent = init /\ NoProcess.state = "none"
    /\ \A dad \in Pids \cup {init} :
          /\ EntryOK(Zombie(dad)) /\ Zombie(dad).job = init /\ Zombie(dad).at = "nowhere"
          /\ Zombie(dad).origin = "none" /\ Zombie(dad).parent = dad
          /\ Zombie(dad).state = "zombie"
<1>1. "tty" \notin Pipes
  BY ShellConstants
<1> QED
  BY <1>1 DEF NoProcess, Zombie, EntryOK

LEMMA ExitedSound ==
    ASSUME NEW ps, Sound(ps), NEW p \in Pids
    PROVE  Sound(Exited(ps, p))
<1> DEFINE qs == Exited(ps, p)
<1>1. ps \in Tables /\ qs \in Tables
  BY ExitedType DEF Sound
<1>2. ASSUME NEW x \in Pids
      PROVE  \/ /\ qs[x] \in {NoProcess, Zombie(ps[x].parent)}
                /\ x = p \/ (ps[x].parent = p /\ ps[x].at = "nowhere")
                /\ x = p /\ ps[p].parent \in Pids => qs[x] = Zombie(ps[x].parent)
             \/ x # p /\ ps[x].parent # p /\ qs[x] = ps[x]
             \/ /\ x # p /\ ps[x].parent = p /\ qs[x].parent = init
                /\ EntryOK(qs[x]) /\ qs[x].at = ps[x].at /\ qs[x].origin # "foreground"
                /\ qs[x].job = ps[x].job /\ qs[x].late = ps[x].late
                /\ qs[x].target = ps[x].target
  <2>1. ps[x] \in Process /\ EntryOK(ps[x])
    BY <1>1 DEF Tables, Sound
  <2>2. CASE x = p
    <3>1. /\ ps[p].parent = init => qs[x] = NoProcess
          /\ ps[p].parent # init => qs[x] = Zombie(ps[p].parent)
      BY <1>1, <2>2, ExitedFields, ZenonT(30)
    <3> HIDE DEF qs
    <3> QED
      BY <2>2, <3>1, ShellConstants
  <2>3. CASE x # p /\ ps[x].parent # p
    BY <1>1, <2>3, ExitedFields
  <2>4. CASE x # p /\ ps[x].parent = p /\ ps[x].state = "zombie"
    <3>1. qs[x] = NoProcess
      BY <1>1, <2>4, ExitedFields, ZenonT(30)
    <3> HIDE DEF qs
    <3> QED
      BY <2>1, <2>4, <3>1 DEF EntryOK
  <2>5. CASE x # p /\ ps[x].parent = p /\ ps[x].state # "zombie"
    <3>1. qs[x] = [Detached(ps[x]) EXCEPT !.parent = init]
      BY <1>1, <2>5, ExitedFields
    <3> HIDE DEF qs
    <3> QED
      BY <2>1, <2>5, <3>1 DEF Detached, Process, EntryOK
  <2> QED
    BY <2>2, <2>3, <2>4, <2>5
<1>3. \A x \in Pids : ps[x].parent \in Pids \cup {init}
  BY <1>1 DEF Tables, Process
<1> HIDE DEF qs
<1>4. \A x \in Pids : EntryOK(qs[x])
  BY <1>2, <1>3, Gone DEF Sound
<1>5. \A x \in Pids : HeldOK(qs, x)
  BY <1>2, <1>3, Gone, ShellConstants DEF Sound, HeldOK, EntryOK
<1>6. ASSUME NEW x \in Pids, qs[x].job # init, ps[x].at # "wait", ~ps[x].late
      PROVE  Settled(qs, x)
  <2> DEFINE job == ps[x].job
  <2>1. x # p /\ qs[x].job = job /\ job # init
    BY <1>2, <1>3, <1>6, Gone DEF Sound, EntryOK
  <2>2. Settled(ps, x)
    BY <1>6, <2>1 DEF Sound, IdleOK
  <2>3. job \in Pids /\ ps[job].parent = x /\ ps[job].state \in {"stopped", "zombie"}
    BY <2>2 DEF Settled
  <2>4. qs[job].parent = x /\ qs[job].state \in {"stopped", "zombie"}
    BY <1>2, <2>1, <2>3, Gone
  <2>5. ASSUME NEW h \in Pids, qs[h].parent = x PROVE qs[h].at # "helper"
    <3>1. ps[h].parent = x \/ qs[h].at = "nowhere"
      BY <1>2, <1>3, <2>5, Gone, ShellConstants
    <3>2. qs[h].at \in {"nowhere", ps[h].at}
      BY <1>2, <1>3, Gone
    <3> QED
      BY <2>2, <3>1, <3>2 DEF Settled
  <2> QED
    BY <2>1, <2>3, <2>4, <2>5 DEF Settled
<1>7. \A x \in Pids : IdleOK(qs, x)
  BY <1>2, <1>3, <1>6, Gone DEF Sound, IdleOK
<1>8. Sound(qs)
  BY <1>1, <1>4, <1>5, <1>7 DEF Sound
<1> QED
  BY <1>8 DEF qs

\* p goes on, and its entry becomes r.
LEMMA UpdatedSound ==
    ASSUME NEW ps, Sound(ps), NEW p \in Pids, NoHeld(ps, p), NEW r \in Process, EntryOK(r),
           ps[p].state = "running", r.state = "running", ps[p].at # "program",
           r.parent = ps[p].parent, r.origin = ps[p].origin,
           r.at # "wait", r.at = "helper" => ps[p].at = "helper",
           r.job \in {init, ps[p].job},
           r.job # init => r.late \/ Settled(ps, p)
    PROVE  Sound([ps EXCEPT ![p] = r])
<1> DEFINE qs == [ps EXCEPT ![p] = r]
<1>1. ps \in Tables /\ qs \in Tables
  BY DEF Sound, Tables
<1>2. qs[p] = r /\ \A x \in Pids : x # p => qs[x] = ps[x]
  BY <1>1 DEF Tables
<1> HIDE DEF qs
<1>3. \A x \in Pids : EntryOK(qs[x])
  BY <1>2 DEF Sound
<1>4. \A x \in Pids : HeldOK(qs, x)
  BY <1>2 DEF Sound, HeldOK, NoHeld, EntryOK
<1>5. ASSUME NEW x \in Pids, qs[x].job = ps[x].job, Settled(ps, x)
      PROVE  Settled(qs, x)
  BY <1>2, <1>5 DEF Settled
<1>6. \A x \in Pids : IdleOK(qs, x)
  BY <1>2, <1>5 DEF Sound, IdleOK
<1>7. Sound(qs)
  BY <1>1, <1>3, <1>4, <1>6 DEF Sound
<1> QED
  BY <1>7 DEF qs

\* p has a child c at the free entry w, and its own entry becomes r.
LEMMA ForkedSound ==
    ASSUME NEW ps, Sound(ps), NEW p \in Pids, NEW w \in Pids,
           ps[p].state = "running", ps[p].at \notin {"wait", "helper", "program"}, ps[w].state = "none",
           NEW r \in Process, EntryOK(r), r.state = "running",
           r.parent = ps[p].parent, r.origin = ps[p].origin,
           r.at = "wait" => r.job = r.target,
           r.at # "wait" => r.job = ps[p].job /\ r.late = ps[p].late,
           NEW c \in Process, EntryOK(c), c.parent = p, c.job = init,
           c.origin = "foreground" => r.at = "wait" /\ r.target = w,
           c.at = "helper" => r.at = "wait"
    PROVE  Sound([ps EXCEPT ![p] = r, ![w] = c])
<1> DEFINE qs == [ps EXCEPT ![p] = r, ![w] = c]
<1>1. ps \in Tables /\ qs \in Tables
  BY DEF Sound, Tables
<1>2. qs[p] = r /\ qs[w] = c /\ \A x \in Pids : x # p /\ x # w => qs[x] = ps[x]
  BY <1>1 DEF Tables
<1>3. ps[w].at = "nowhere" /\ ps[w].origin = "none" /\ ps[w].job = init
  BY DEF Sound, EntryOK
<1>4. NoHeld(ps, p) /\ (ps[p].job # init => ps[p].late \/ Settled(ps, p))
  BY NotWaiting
<1> HIDE DEF qs
<1>5. \A x \in Pids : EntryOK(qs[x])
  BY <1>2 DEF Sound
<1>6. \A x \in Pids : HeldOK(qs, x)
  BY <1>2, <1>3, <1>4 DEF Sound, HeldOK, NoHeld, EntryOK
<1>7. ASSUME NEW x \in Pids, x # w, qs[x].job = ps[x].job, Settled(ps, x),
             x = p => r.at # "wait"
      PROVE  Settled(qs, x)
  <2>1. ps[x].job # w /\ ps[x].job # p
    BY <1>3, <1>7 DEF Settled
  <2>2. \A h \in Pids : qs[h].parent = x => qs[h].at # "helper"
    BY <1>2, <1>7 DEF Sound, Settled, EntryOK
  <2> QED
    BY <1>2, <1>7, <2>1, <2>2 DEF Settled
<1>8. \A x \in Pids : IdleOK(qs, x)
  BY <1>2, <1>4, <1>7 DEF Sound, IdleOK
<1>9. Sound(qs)
  BY <1>1, <1>5, <1>6, <1>8 DEF Sound
<1> QED
  BY <1>9 DEF qs

\* Children of p that have ended are collected.
LEMMA CollectedSound ==
    ASSUME NEW ps, Sound(ps), NEW z \in Pids, ps[z].state = "zombie"
    PROVE  Sound(Released([ps EXCEPT ![z] = NoProcess], z, init))
<1> DEFINE mid == [ps EXCEPT ![z] = NoProcess]
           qs == Released(mid, z, init)
<1>1. ps \in Tables /\ mid \in Tables /\ qs \in Tables
  <2>1. ps \in Tables
    BY DEF Sound
  <2>2. mid \in Tables
    BY <2>1, NoProcessType DEF Tables
  <2> QED
    BY <2>1, <2>2, ReleasedType
<1>2. mid[z] = NoProcess /\ \A x \in Pids : x # z => mid[x] = ps[x]
  BY <1>1 DEF Tables
<1> HIDE DEF mid
<1>3. ASSUME NEW x \in Pids
      PROVE  LET c == mid[x]
                 r == qs[x]
             IN  /\ r.at = c.at /\ r.origin = c.origin /\ r.parent = c.parent
                 /\ r.late = c.late /\ r.target = c.target /\ r.state = c.state
                 /\ r.in = c.in /\ r.stack = c.stack
                 /\ r.job = IF c.job = z /\ x # init THEN init ELSE c.job
  <2>1. mid[x] \in Process
    BY <1>1 DEF Tables
  <2> QED
    BY <2>1 DEF Released, Process
<1> HIDE DEF qs
<1>4. ps[z].at = "nowhere" /\ ps[z].origin = "none" /\ ps[z].job = init
  BY DEF Sound, EntryOK
<1>5. \A x \in Pids : EntryOK(qs[x])
  <2>1. \A x \in Pids : EntryOK(mid[x])
    BY <1>2, Gone DEF Sound
  <2> QED
    BY <1>3, <2>1 DEF EntryOK
<1>6. \A x \in Pids : HeldOK(qs, x)
  BY <1>2, <1>3, <1>4, Gone DEF Sound, HeldOK
<1>7. ASSUME NEW x \in Pids, qs[x].job # init, ps[x].at # "wait", ~ps[x].late
      PROVE  Settled(qs, x)
  <2>1. x # z /\ qs[x].job = ps[x].job /\ ps[x].job # z /\ ps[x].job # init
    BY <1>2, <1>3, <1>7, Gone, ShellConstants
  <2>2. Settled(ps, x)
    BY <1>7, <2>1 DEF Sound, IdleOK
  <2>3. \A h \in Pids : qs[h].parent = x => qs[h].at # "helper"
    BY <1>2, <1>3, <2>2, Gone, ShellConstants DEF Settled
  <2> QED
    BY <1>2, <1>3, <2>1, <2>2, <2>3 DEF Settled
<1>8. \A x \in Pids : IdleOK(qs, x)
  BY <1>2, <1>3, <1>4, <1>7, Gone DEF Sound, IdleOK
<1>9. Sound(qs)
  BY <1>1, <1>5, <1>6, <1>8 DEF Sound
<1> QED
  BY <1>9 DEF qs, mid

LEMMA LeavesTail ==
    ASSUME NEW stack \in Seq(Frames), stack # <<>>, Leaves(stack), Head(stack).do = "run"
    PROVE  Leaves(Tail(stack))
<1>1. PICK i \in DOMAIN stack : stack[i].do \in {"exit", "crontab"}
  BY DEF Leaves
<1>2. i # 1 /\ i \in 1 .. Len(stack)
  BY <1>1
<1>3. i - 1 \in DOMAIN Tail(stack) /\ Tail(stack)[i - 1] = stack[i]
  BY <1>2
<1> QED
  BY <1>1, <1>3 DEF Leaves

LEMMA ReturnedSound ==
    ASSUME NEW ps, Sound(ps), NEW p \in Pids, NoHeld(ps, p),
           ps[p].state = "running", ps[p].at \notin {"helper", "program", "alarm"},
           ps[p].job # init => ps[p].late \/ Settled(ps, p)
    PROVE  Sound(Returned(ps, p))
<1> DEFINE top == Head(ps[p].stack)
<1>1. ps \in Tables /\ ps[p] \in Process /\ EntryOK(ps[p])
  BY DEF Sound, Tables
<1>2. ps[p].stack \in Seq(Frames)
  BY <1>1 DEF Process, Frames
<1>3. CASE /\ ps[p].stack = <<>>
           /\ Returned(ps, p) =
                 [ps EXCEPT ![p].at = "main", ![p].cmd = NoCommand, ![p].target = init]
  <2> DEFINE r == [ps[p] EXCEPT !.at = "main", !.cmd = NoCommand, !.target = init]
  <2>1. r \in Process
    BY <1>1, NoCommandType DEF Process
  <2>2. /\ r.at = "main" /\ r.state = ps[p].state /\ r.parent = ps[p].parent
        /\ r.origin = ps[p].origin /\ r.job = ps[p].job /\ r.late = ps[p].late
        /\ r.in = ps[p].in /\ r.stack = ps[p].stack
    BY <1>1 DEF Process
  <2>3. Returned(ps, p) = [ps EXCEPT ![p] = r]
    BY <1>1, <1>3 DEF Tables
  <2> HIDE DEF r
  <2>4. ~Leaves(ps[p].stack)
    BY <1>3 DEF Leaves
  <2>5. EntryOK(r)
    BY <1>1, <1>3, <2>2, <2>4 DEF EntryOK
  <2>6. r.job # init => r.late \/ Settled(ps, p)
    BY <2>2
  <2>7. Sound([ps EXCEPT ![p] = r])
    BY <2>1, <2>2, <2>5, <2>6, UpdatedSound
  <2> QED
    BY <2>3, <2>7
<1>4. CASE Returned(ps, p) = Exited(ps, p)
  BY <1>4, ExitedSound
<1>5. CASE /\ ps[p].stack # <<>> /\ top \in Frames /\ top.do = "crontab"
           /\ Returned(ps, p) = Execed([ps EXCEPT ![p].holds = @ \ {<<top.pipe, "w">>},
                                                   ![p].in = top.pipe], p)
  <2> DEFINE r == [ps[p] EXCEPT !.holds = @ \ {<<top.pipe, "w">>}, !.in = top.pipe,
                                !.at = "program", !.stack = <<>>, !.target = init]
  <2>1. top.pipe \in Streams /\ <<>> \in Seq(Frames)
    BY <1>5 DEF Frames
  <2>2. r \in Process
    BY <1>1, <2>1, ZenonT(30) DEF Process, Frames
  <2>3. /\ r.at = "program" /\ r.state = ps[p].state /\ r.parent = ps[p].parent
        /\ r.origin = ps[p].origin /\ r.job = ps[p].job /\ r.late = ps[p].late
    BY <1>1 DEF Process
  <2>4. Returned(ps, p) = [ps EXCEPT ![p] = r]
    BY <1>1, <1>5 DEF Execed, Tables
  <2> HIDE DEF r
  <2>5. EntryOK(r)
    BY <1>1, <2>3 DEF EntryOK
  <2> QED
    BY <2>2, <2>3, <2>4, <2>5, UpdatedSound
<1>6. CASE /\ ps[p].stack # <<>> /\ top \in Frames /\ top.do = "run"
           /\ Returned(ps, p) =
                 [ps EXCEPT ![p].at = "command", ![p].cmd = top.cmd, ![p].target = init,
                            ![p].stack = Tail(@)]
  <2> DEFINE r == [ps[p] EXCEPT !.at = "command", !.cmd = top.cmd, !.target = init,
                                !.stack = Tail(@)]
  <2>1. top.cmd \in Commands /\ Tail(ps[p].stack) \in Seq(Frames)
    BY <1>2, <1>6, HeadTailProperties DEF Frames
  <2>2. r \in Process
    BY <1>1, <2>1 DEF Process, Frames
  <2>3. /\ r.at = "command" /\ r.state = ps[p].state /\ r.parent = ps[p].parent
        /\ r.origin = ps[p].origin /\ r.job = ps[p].job /\ r.late = ps[p].late
        /\ r.in = ps[p].in /\ r.stack = Tail(ps[p].stack)
    BY <1>1 DEF Process
  <2>4. Returned(ps, p) = [ps EXCEPT ![p] = r]
    BY <1>1, <1>6 DEF Tables
  <2> HIDE DEF r
  <2>5. Leaves(ps[p].stack) => Leaves(r.stack)
    BY <1>2, <1>6, <2>3, LeavesTail
  <2>6. EntryOK(r)
    BY <1>1, <1>6, <2>3, <2>5 DEF EntryOK
  <2>7. r.job # init => r.late \/ Settled(ps, p)
    BY <2>3
  <2>8. Sound([ps EXCEPT ![p] = r])
    BY <2>2, <2>3, <2>6, <2>7, UpdatedSound
  <2> QED
    BY <2>4, <2>8
<1> QED
  BY <1>1, <1>3, <1>4, <1>5, <1>6, ReturnedIs, Zenon

-----------------------------------------------------------------------------
(* The invariant and what the actions do: main and its commands. *)

LEMMA At ==
    ASSUME Sound(proc), NEW p \in Pids
    PROVE  proc \in Tables /\ proc[p] \in Process /\ EntryOK(proc[p])
BY DEF Sound, Tables

\* p is not waiting, goes on, and its entry becomes r.
LEMMA GoesOnSound ==
    ASSUME Sound(proc), NEW p \in Pids,
           proc[p].state = "running", proc[p].at \notin {"wait", "helper", "program"},
           NEW r \in Process, EntryOK(r), r.state = "running",
           r.parent = proc[p].parent, r.origin = proc[p].origin, r.at \notin {"wait", "helper"},
           r.job = init \/ (r.job = proc[p].job /\ r.late = proc[p].late)
    PROVE  Sound([proc EXCEPT ![p] = r])
<1>1. NoHeld(proc, p) /\ (proc[p].job # init => proc[p].late \/ Settled(proc, p))
  BY NotWaiting
<1>2. r.job \in {init, proc[p].job} /\ (r.job # init => r.late \/ Settled(proc, p))
  BY <1>1
<1> QED
  BY <1>1, <1>2, UpdatedSound

LEMMA ShowPromptSound ==
    ASSUME TypeOK, Sound(proc), NEW p \in Pids, ShowPrompt(p)
    PROVE  Sound(proc')
<1>1. proc \in Tables /\ proc[p] \in Process /\ EntryOK(proc[p])
  BY At
<1>2. proc[p].at = "main" /\ proc[p].state = "running"
  BY DEF ShowPrompt, Running
<1>3. PICK mode \in {"cooked", "raw"} :
           proc' = [proc EXCEPT ![p].at = "prompt", ![p].backup = mode]
  <2>1. CASE proc' = [proc EXCEPT ![p].at = "prompt", ![p].backup = tty]
    BY <2>1 DEF TypeOK
  <2>2. CASE proc' = [proc EXCEPT ![p].at = "prompt"]
    <3>1. [proc[p] EXCEPT !.at = "prompt"] =
            [proc[p] EXCEPT !.at = "prompt", !.backup = proc[p].backup]
      BY <1>1 DEF Process
    <3>2. proc' = [proc EXCEPT ![p].at = "prompt", ![p].backup = proc[p].backup]
      BY <1>1, <2>2, <3>1 DEF Tables
    <3>3. proc[p].backup \in {"cooked", "raw"}
      BY <1>1 DEF Process
    <3> QED
      BY <3>2, <3>3
  <2> QED
    BY <2>1, <2>2 DEF ShowPrompt
<1> DEFINE r == [proc[p] EXCEPT !.at = "prompt", !.backup = mode]
<1>4. proc' = [proc EXCEPT ![p] = r]
  BY <1>1, <1>3 DEF Tables
<1>5. r \in Process
  BY <1>1 DEF Process
<1>6. /\ r.at = "prompt" /\ r.state = "running" /\ r.parent = proc[p].parent
      /\ r.origin = proc[p].origin /\ r.job = proc[p].job /\ r.late = proc[p].late
      /\ r.in = proc[p].in /\ r.stack = proc[p].stack
  BY <1>1, <1>2 DEF Process
<1> HIDE DEF r
<1>7. EntryOK(r)
  BY <1>1, <1>2, <1>6 DEF EntryOK
<1> QED
  BY <1>2, <1>4, <1>5, <1>6, <1>7, GoesOnSound

LEMMA ReadsSound ==
    ASSUME Sound(proc), NEW p \in Pids, Running(p, "prompt"),
           NEW line \in Commands, Reads(p, line)
    PROVE  Sound(proc')
<1>1. proc \in Tables /\ proc[p] \in Process /\ EntryOK(proc[p])
  BY At
<1>2. proc[p].at = "prompt" /\ proc[p].state = "running"
  BY DEF Running
<1> DEFINE r == [proc[p] EXCEPT !.at = "command", !.cmd = line, !.job = init, !.late = FALSE]
<1>3. proc' = [proc EXCEPT ![p] = r]
  BY <1>1 DEF Reads, Tables
<1>4. r \in Process
  BY <1>1 DEF Process
<1>5. /\ r.at = "command" /\ r.state = "running" /\ r.parent = proc[p].parent
      /\ r.origin = proc[p].origin /\ r.job = init
      /\ r.in = proc[p].in /\ r.stack = proc[p].stack
  BY <1>1, <1>2 DEF Process
<1> HIDE DEF r
<1>6. EntryOK(r)
  BY <1>1, <1>2, <1>5 DEF EntryOK
<1> QED
  BY <1>2, <1>3, <1>4, <1>5, <1>6, GoesOnSound

LEMMA ReadSound ==
    ASSUME Sound(proc), NEW p \in Pids, ReadLine(p) \/ ReadNothing(p)
    PROVE  Sound(proc')
<1>1. Running(p, "prompt")
  BY DEF ReadLine, ReadNothing
<1>2. ASSUME NEW line \in Lines, Reads(p, line) PROVE Sound(proc')
  BY <1>1, <1>2, ReadsSound, ShellConstants
<1>3. CASE ReadNothing(p)
  <2>1. "overlong" \in Names
    BY DEF Names
  <2>2. Command(<<Call("overlong")>>, FALSE) \in Commands
    BY <2>1, CallsType
  <2> QED
    BY <1>1, <1>3, <2>2, ReadsSound DEF ReadNothing
<1> QED
  BY <1>2, <1>3 DEF ReadLine

LEMMA EndsSound ==
    ASSUME Sound(proc), NEW p \in Pids, EndOfInput(p) \/ CrashingLine(p) \/ Exit(p)
    PROVE  Sound(proc')
BY ExitedSound DEF EndOfInput, CrashingLine, Exit

\* A command that is through returns.
LEMMA CommandReturns ==
    ASSUME NEW ps, Sound(ps), NEW p \in Pids, ps[p].state = "running",
           ps[p].at \notin {"wait", "helper", "program", "alarm"}
    PROVE  Sound(Returned(ps, p))
<1>1. NoHeld(ps, p) /\ (ps[p].job # init => ps[p].late \/ Settled(ps, p))
  BY NotWaiting
<1> QED
  BY <1>1, ReturnedSound

LEMMA PauseSound ==
    ASSUME Sound(proc), NEW p \in Pids, Pause(p)
    PROVE  Sound(proc')
<1>1. /\ proc[p].at = "command" /\ proc[p].state = "running" /\ proc \in Tables
      /\ proc[p] \in Process /\ EntryOK(proc[p])
  BY At DEF Pause, Called, Running
<1>2. CASE \E t \in Pids \ {p} : proc' = Returned(Stopped(proc, t), p)
  <2>1. PICK t \in Pids \ {p} : proc' = Returned(Stopped(proc, t), p)
    BY <1>2
  <2>2. Stopped(proc, t)[p] = proc[p]
    BY <1>1, <2>1 DEF Stopped, Tables
  <2> QED
    BY <1>1, <2>1, <2>2, StoppedSound, CommandReturns
<1>3. CASE proc' = [Stopped(proc, p) EXCEPT ![p].at = "kill"]
  <2> DEFINE r == [proc[p] EXCEPT !.at = "kill"]
             ps == [proc EXCEPT ![p] = r]
  <2>1. r \in Process
    BY <1>1 DEF Process
  <2>2. /\ r.at = "kill" /\ r.state = "running" /\ r.parent = proc[p].parent
        /\ r.origin = proc[p].origin /\ r.job = proc[p].job /\ r.late = proc[p].late
        /\ r.in = proc[p].in /\ r.stack = proc[p].stack
    BY <1>1 DEF Process
  <2>3. proc' = Stopped(ps, p)
    <3>1. ps[p] = r /\ ps \in Tables
      BY <1>1, <2>1 DEF Tables
    <3>2. [[proc[p] EXCEPT !.state = "stopped", !.unreported = TRUE] EXCEPT !.at = "kill"] =
            [r EXCEPT !.state = "stopped", !.unreported = TRUE]
      BY <1>1 DEF Process
    <3> QED
      BY <1>1, <1>3, <2>2, <3>1, <3>2 DEF Stopped, Tables
  <2> HIDE DEF r
  <2>4. EntryOK(r)
    BY <1>1, <2>2 DEF EntryOK
  <2>5. Sound(ps)
    BY <1>1, <2>1, <2>2, <2>4, GoesOnSound
  <2> QED
    BY <2>3, <2>5, StoppedSound
<1> QED
  BY <1>2, <1>3 DEF Pause

LEMMA ResumeSound ==
    ASSUME Sound(proc), NEW p \in Pids, Resume(p)
    PROVE  Sound(proc')
BY CommandReturns DEF Resume, Running

\* What SIGCONT for t leaves of another process, or of one that runs.
LEMMA ContinuedEntry ==
    ASSUME NEW ps \in Tables, NEW t \in Pids, NEW by, NEW p \in Pids
    PROVE  LET r == Released(Continued(ps, t), t, by)[p]
           IN  r.at = ps[p].at /\ (ps[p].state = "running" => r.state = "running")
<1>1. ps[p] \in Process
  BY DEF Tables
<1>2. /\ Continued(ps, t)[p] \in Process /\ Continued(ps, t)[p].at = ps[p].at
      /\ ps[p].state = "running" => Continued(ps, t)[p].state = "running"
  <2>1. CASE p = t /\ ps[t].state = "stopped"
    <3> DEFINE r == [ps[t] EXCEPT !.state = "running", !.unreported = FALSE]
    <3>1. Continued(ps, t)[p] = r
      BY <2>1 DEF Continued, Tables
    <3>2. r \in Process /\ r.at = ps[t].at /\ r.state = "running"
      BY <1>1, <2>1 DEF Process
    <3> QED
      BY <2>1, <3>1, <3>2
  <2>2. CASE p # t \/ ps[t].state # "stopped"
    <3>1. Continued(ps, t)[p] = ps[p]
      BY <2>2 DEF Continued, Tables
    <3> QED
      BY <1>1, <3>1
  <2> QED
    BY <2>1, <2>2
<1> QED
  BY <1>2 DEF Released, Process

LEMMA MyBgSound ==
    ASSUME Sound(proc), NEW p \in Pids, MyBg(p)
    PROVE  Sound(proc')
<1>1. proc[p].at = "command" /\ proc[p].state = "running" /\ proc \in Tables
  BY At DEF MyBg, Called, Running
<1>2. PICK t \in Pids : proc' = Returned(Released(Continued(proc, t), t, init), p)
  BY DEF MyBg
<1> DEFINE ps == Released(Continued(proc, t), t, init)
<1>3. Sound(ps)
  BY ResumedSound, ShellConstants
<1>4. ps[p].at = "command" /\ ps[p].state = "running"
  BY <1>1, ContinuedEntry
<1> HIDE DEF ps
<1> QED
  BY <1>2, <1>3, <1>4, CommandReturns DEF ps

LEMMA HelperSound ==
    ASSUME Sound(proc), NEW q \in Pids, Helper(q)
    PROVE  Sound(proc')
<1> DEFINE t == proc[q].target
           qs == Released(Continued(proc, t), t, proc[q].parent)
<1>1. proc[q].at = "helper" /\ proc' = Exited(qs, q)
  BY DEF Helper, Running
<1>2. t \in Pids
  BY <1>1, At DEF EntryOK
<1>3. Sound(qs)
  BY <1>1, <1>2, ResumedSound
<1> HIDE DEF qs
<1> QED
  BY <1>1, <1>3, ExitedSound

\* The types of an entry that gets a new frame and a command to go on with.
LEMMA PushedType ==
    ASSUME NEW r \in Process, NEW cmd \in Commands, NEW frame \in Frames
    PROVE  [r EXCEPT !.cmd = cmd, !.stack = <<frame>> \o @] \in Process
<1>1. <<frame>> \o r.stack \in Seq(Frames)
  BY DEF Process, Frames
<1> QED
  BY <1>1, Zenon DEF Process, Frames

LEMMA LeavesPushed ==
    ASSUME NEW stack \in Seq(Frames), NEW frame \in Frames
    PROVE  /\ Leaves(stack) => Leaves(<<frame>> \o stack)
           /\ frame.do \in {"exit", "crontab"} => Leaves(<<frame>> \o stack)
           /\ <<frame>> \o stack # <<>> /\ Head(<<frame>> \o stack) = frame
<1> DEFINE new == <<frame>> \o stack
<1>1. /\ new \in Seq(Frames) /\ Len(new) = Len(stack) + 1 /\ new[1] = frame
      /\ \A i \in 1 .. Len(stack) : new[i + 1] = stack[i]
  OBVIOUS
<1> HIDE DEF new
<1>2. ASSUME Leaves(stack) PROVE Leaves(new)
  <2>1. PICK i \in 1 .. Len(stack) : stack[i].do \in {"exit", "crontab"}
    BY <1>2 DEF Leaves
  <2>2. i + 1 \in DOMAIN new
    BY <1>1
  <2> QED
    BY <1>1, <2>1, <2>2 DEF Leaves
<1>3. ASSUME frame.do \in {"exit", "crontab"} PROVE Leaves(new)
  <2>1. 1 \in DOMAIN new
    BY <1>1
  <2> QED
    BY <1>1, <1>3, <2>1 DEF Leaves
<1>4. new # <<>> /\ Head(new) = frame
  BY <1>1
<1> QED
  BY <1>2, <1>3, <1>4 DEF new

\* A script: the command goes on as another, behind which a frame is left on the stack.
LEMMA PushedSound ==
    ASSUME Sound(proc), NEW p \in Pids, Running(p, "command"),
           NEW cmd \in Commands, NEW frame \in Frames,
           proc' = [proc EXCEPT ![p].cmd = cmd, ![p].stack = <<frame>> \o @]
    PROVE  Sound(proc')
<1>1. proc \in Tables /\ proc[p] \in Process /\ EntryOK(proc[p])
  BY At
<1>2. proc[p].at = "command" /\ proc[p].state = "running"
  BY DEF Running
<1> DEFINE r == [proc[p] EXCEPT !.cmd = cmd, !.stack = <<frame>> \o @]
<1>3. proc' = [proc EXCEPT ![p] = r]
  BY <1>1 DEF Tables
<1>4. r \in Process
  BY <1>1, PushedType
<1>5. /\ r.at = "command" /\ r.state = "running" /\ r.parent = proc[p].parent
      /\ r.origin = proc[p].origin /\ r.job = proc[p].job /\ r.late = proc[p].late
      /\ r.in = proc[p].in /\ r.stack = <<frame>> \o proc[p].stack
  BY <1>1, <1>2 DEF Process
<1>6. Leaves(proc[p].stack) => Leaves(r.stack)
  <2>1. proc[p].stack \in Seq(Frames)
    BY <1>1 DEF Process, Frames
  <2> QED
    BY <1>5, <2>1, LeavesPushed
<1> HIDE DEF r
<1>7. EntryOK(r)
  BY <1>1, <1>2, <1>5, <1>6 DEF EntryOK
<1> QED
  BY <1>2, <1>3, <1>4, <1>5, <1>7, GoesOnSound

LEMMA ScriptSound ==
    ASSUME Sound(proc), NEW p \in Pids,
           GitUserCheck(p) \/ Bbc(p) \/ Psvis(p) \/ Psvis2(p)
    PROVE  Sound(proc')
<1>1. Running(p, "command")
  BY DEF GitUserCheck, Bbc, Psvis, Psvis2, Called
<1>2. {"prog", "missing"} \subseteq Names
  BY DEF Names
<1>3. proc[p].cmd \in Commands
  BY At DEF Process
<1>4. Renamed(proc[p].cmd, "prog") \in Commands
  BY <1>2, <1>3, RenamedType
<1>5. CASE GitUserCheck(p)
  <2>1. proc' = [proc EXCEPT ![p].cmd = Renamed(proc[p].cmd, "prog"),
                             ![p].stack = <<ExitFrame>> \o @]
    BY <1>5, At DEF GitUserCheck, Tables, Process
  <2> QED
    BY <1>1, <1>4, <2>1, FrameTypes, PushedSound
<1>6. CASE Bbc(p)
  <2>1. proc' = [proc EXCEPT ![p].cmd = Renamed(proc[p].cmd, "prog"),
                             ![p].stack = <<RunFrame(Renamed(proc[p].cmd, "prog"))>> \o @]
    BY <1>6 DEF Bbc
  <2> QED
    BY <1>1, <1>4, <2>1, FrameTypes, PushedSound
<1>7. CASE Psvis(p)
  <2>1. PICK name \in {"prog", "missing"} :
             proc' = [proc EXCEPT ![p].cmd = Command(<<Call(name)>>, FALSE),
                        ![p].stack = <<RunFrame(Command(<<Call("prog")>>, FALSE))>> \o @]
    BY <1>7 DEF Psvis
  <2>2. /\ Command(<<Call(name)>>, FALSE) \in Commands
        /\ RunFrame(Command(<<Call("prog")>>, FALSE)) \in Frames
    BY <1>2, CallsType, FrameTypes
  <2> QED
    BY <1>1, <2>1, <2>2, PushedSound
<1>8. CASE Psvis2(p)
  <2>1. PICK name \in {"prog", "missing"} :
             proc' = [proc EXCEPT ![p].cmd = Command(<<Call("prog")>>, FALSE),
                        ![p].stack =
                          <<RunFrame(Command(<<Call(name), Call("prog")>>, FALSE))>> \o @]
    BY <1>8 DEF Psvis2
  <2>2. /\ Command(<<Call("prog")>>, FALSE) \in Commands
        /\ RunFrame(Command(<<Call(name), Call("prog")>>, FALSE)) \in Frames
    BY <1>2, CallsType, FrameTypes
  <2> QED
    BY <1>1, <2>1, <2>2, PushedSound
<1> QED
  BY <1>5, <1>6, <1>7, <1>8

-----------------------------------------------------------------------------
(* The invariant and what the actions do: fork. *)

LEMMA WaitType ==
    ASSUME NEW r \in Process, NEW t \in Pids \cup {init}
    PROVE  [r EXCEPT !.at = "wait", !.target = t, !.job = t, !.cmd = NoCommand] \in Process
BY NoCommandType DEF Process

\* What becomes of the entry r of a shell that waits for t, which is its job from now on, and
\* of the copy of r that its child starts with.
WaiterOf(r, t) == [r EXCEPT !.at = "wait", !.target = t, !.job = t, !.cmd = NoCommand]
ChildOf(r, p, origin) ==
    [r EXCEPT !.parent = p, !.origin = origin, !.at = "child", !.job = init, !.late = FALSE]
HelperOf(r, p, t) ==
    [r EXCEPT !.parent = p, !.origin = "helper", !.at = "helper", !.job = init, !.late = FALSE,
              !.target = t, !.cmd = NoCommand, !.stack = <<>>]
AlarmOf(r, p) ==
    [r EXCEPT !.parent = p, !.origin = "alarm", !.at = "alarm", !.job = init, !.late = FALSE,
              !.cmd = NoCommand]

\* A shell forks; the child is c, and the shell waits for t.
LEMMA ForksAndWaits ==
    ASSUME Sound(proc), NEW p \in Pids, Running(p, "command"),
           NEW w \in Pids, proc[w].state = "none", NEW t \in Pids,
           NEW c \in Process, EntryOK(c), c.parent = p, c.job = init,
           c.origin = "foreground" => t = w,
           proc' = [proc EXCEPT ![p] = WaiterOf(proc[p], t), ![w] = c]
    PROVE  Sound(proc')
<1>1. proc \in Tables /\ proc[p] \in Process /\ EntryOK(proc[p])
  BY At
<1>2. proc[p].at = "command" /\ proc[p].state = "running"
  BY DEF Running
<1> DEFINE r == WaiterOf(proc[p], t)
<1>3. r \in Process
  BY <1>1, WaitType DEF WaiterOf
<1>4. /\ r.at = "wait" /\ r.state = "running" /\ r.parent = proc[p].parent
      /\ r.origin = proc[p].origin /\ r.job = t /\ r.target = t
      /\ r.in = proc[p].in /\ r.stack = proc[p].stack
  BY <1>1, <1>2 DEF Process, WaiterOf
<1>5. proc' = [proc EXCEPT ![p] = r, ![w] = c]
  OBVIOUS
<1> HIDE DEF r
<1>6. EntryOK(r)
  BY <1>1, <1>2, <1>4 DEF EntryOK
<1>7. Sound([proc EXCEPT ![p] = r, ![w] = c])
  BY <1>2, <1>3, <1>4, <1>6, ForkedSound
<1> QED
  BY <1>5, <1>7

\* myfg: without a process for the child the shell ends.
LEMMA MyFgIs ==
    ASSUME Sound(proc), NEW p \in Pids, MyFg(p)
    PROVE  \/ proc' = Exited(proc, p)
           \/ \E q \in Pids, t \in Pids :
                 /\ proc[q].state = "none" /\ q # p
                 /\ proc' = [proc EXCEPT ![p] = WaiterOf(proc[p], t),
                                         ![q] = HelperOf(proc[p], p, t)]
<1>1. proc \in Tables /\ proc[p] \in Process
  BY At
<1>2. proc[p].at = "command" /\ proc[p].state = "running"
  BY DEF MyFg, Called, Running
<1>3. CASE Free(proc) = {}
  BY <1>3 DEF MyFg
<1>4. CASE Free(proc) # {}
  <2> DEFINE q == Fresh(proc)
  <2>1. q \in Pids /\ proc[q].state = "none" /\ q # p
    BY <1>1, <1>2, <1>4, FreshIsFree
  <2>2. PICK t \in Pids :
             proc' = [Forked(proc, p, q, "helper", "helper") EXCEPT
                        ![q].target = t, ![q].cmd = NoCommand, ![q].stack = <<>>,
                        ![p].at = "wait", ![p].target = t, ![p].job = t, ![p].cmd = NoCommand]
    BY <1>4 DEF MyFg
  <2>3. t \in Pids
    OBVIOUS
  <2> HIDE DEF q
  <2> DEFINE ps == Forked(proc, p, q, "helper", "helper")
  <2>4. ps \in Tables
    BY <1>1, <2>1, ForkedType
  <2>5. /\ ps[q] = [proc[p] EXCEPT !.parent = p, !.origin = "helper", !.at = "helper",
                                   !.job = init, !.late = FALSE]
        /\ \A x \in Pids : x # q => ps[x] = proc[x]
    BY <1>1, <2>1 DEF Forked, Tables
  <2> HIDE DEF ps
  <2>6. proc' = [ps EXCEPT
                   ![q] = [ps[q] EXCEPT !.target = t, !.cmd = NoCommand, !.stack = <<>>],
                   ![p] = [ps[p] EXCEPT !.at = "wait", !.target = t, !.job = t,
                                        !.cmd = NoCommand]]
    BY <2>1, <2>2, <2>4 DEF ps, Tables
  <2>7. proc' = [proc EXCEPT
                   ![p] = [proc[p] EXCEPT !.at = "wait", !.target = t, !.job = t,
                                          !.cmd = NoCommand],
                   ![q] = [proc[p] EXCEPT !.parent = p, !.origin = "helper", !.at = "helper",
                                          !.job = init, !.late = FALSE, !.target = t,
                                          !.cmd = NoCommand, !.stack = <<>>]]
    BY <1>1, <2>1, <2>4, <2>5, <2>6 DEF Tables
  <2> QED
    BY <2>1, <2>3, <2>7 DEF WaiterOf, HelperOf
<1> QED
  BY <1>3, <1>4

LEMMA MyFgSound ==
    ASSUME Sound(proc), NEW p \in Pids, MyFg(p)
    PROVE  Sound(proc')
<1>1. proc \in Tables /\ proc[p] \in Process
  BY At
<1>2. Running(p, "command") /\ proc[p].at = "command" /\ proc[p].state = "running"
  BY DEF MyFg, Called, Running
<1>3. CASE proc' = Exited(proc, p)
  BY <1>2, <1>3, NotWaiting, ExitedSound
<1>4. ASSUME NEW q \in Pids, NEW t \in Pids, proc[q].state = "none",
             proc' = [proc EXCEPT ![p] = WaiterOf(proc[p], t), ![q] = HelperOf(proc[p], p, t)]
      PROVE  Sound(proc')
  <2> DEFINE c == HelperOf(proc[p], p, t)
  <2>1. c \in Process
    <3>1. <<>> \in Seq(Frames)
      OBVIOUS
    <3> QED
      BY <1>1, <3>1, NoCommandType, ZenonT(30) DEF HelperOf, Process, Frames
  <2>2. /\ c.at = "helper" /\ c.state = "running" /\ c.parent = p /\ c.origin = "helper"
        /\ c.job = init /\ c.target = t /\ c.in = proc[p].in
    BY <1>1, <1>2 DEF HelperOf, Process
  <2>3. proc[q].state = "none" /\ proc' = [proc EXCEPT ![p] = WaiterOf(proc[p], t), ![q] = c]
    BY <1>4
  <2> HIDE DEF c
  <2>4. EntryOK(c)
    BY <2>2 DEF EntryOK
  <2> QED
    BY <1>2, <2>1, <2>2, <2>3, <2>4, ForksAndWaits
<1> QED
  BY <1>3, <1>4, MyFgIs

\* The alarm: without a process for the child the shell ends.
LEMMA PlayAlarmIs ==
    ASSUME Sound(proc), NEW p \in Pids, PlayAlarm(p)
    PROVE  \/ proc' = Exited(proc, p)
           \/ \E q \in Pids :
                 /\ proc[q].state = "none" /\ q # p
                 /\ proc' = [proc EXCEPT ![p] = [proc[p] EXCEPT !.at = "any", !.cmd = NoCommand],
                                         ![q] = AlarmOf(proc[p], p)]
<1>1. proc \in Tables /\ proc[p] \in Process
  BY At
<1>2. proc[p].at = "command" /\ proc[p].state = "running"
  BY DEF PlayAlarm, Called, Running
<1>3. CASE Free(proc) = {}
  BY <1>3 DEF PlayAlarm
<1>4. CASE Free(proc) # {}
  <2> DEFINE q == Fresh(proc)
             ps == Forked(proc, p, q, "alarm", "alarm")
  <2>1. q \in Pids /\ proc[q].state = "none" /\ q # p
    BY <1>1, <1>2, <1>4, FreshIsFree
  <2>2. proc' = [ps EXCEPT ![q].cmd = NoCommand, ![p].at = "any", ![p].cmd = NoCommand]
    BY <1>4 DEF PlayAlarm
  <2> HIDE DEF q
  <2>3. ps \in Tables
    BY <1>1, <2>1, ForkedType
  <2>4. /\ ps[q] = [proc[p] EXCEPT !.parent = p, !.origin = "alarm", !.at = "alarm",
                                   !.job = init, !.late = FALSE]
        /\ \A x \in Pids : x # q => ps[x] = proc[x]
    BY <1>1, <2>1 DEF Forked, Tables
  <2> HIDE DEF ps
  <2>5. proc' = [ps EXCEPT ![q] = [ps[q] EXCEPT !.cmd = NoCommand],
                           ![p] = [ps[p] EXCEPT !.at = "any", !.cmd = NoCommand]]
    BY <2>1, <2>2, <2>3 DEF ps, Tables
  <2>6. proc' = [proc EXCEPT
                   ![p] = [proc[p] EXCEPT !.at = "any", !.cmd = NoCommand],
                   ![q] = [proc[p] EXCEPT !.parent = p, !.origin = "alarm", !.at = "alarm",
                                          !.job = init, !.late = FALSE, !.cmd = NoCommand]]
    BY <1>1, <2>1, <2>3, <2>4, <2>5 DEF Tables
  <2> QED
    BY <2>1, <2>6 DEF AlarmOf
<1> QED
  BY <1>3, <1>4

LEMMA PlayAlarmSound ==
    ASSUME Sound(proc), NEW p \in Pids, PlayAlarm(p)
    PROVE  Sound(proc')
<1>1. proc \in Tables /\ proc[p] \in Process /\ EntryOK(proc[p])
  BY At
<1>2. Running(p, "command") /\ proc[p].at = "command" /\ proc[p].state = "running"
  BY DEF PlayAlarm, Called, Running
<1>3. CASE proc' = Exited(proc, p)
  BY <1>2, <1>3, NotWaiting, ExitedSound
<1>4. ASSUME NEW q \in Pids, proc[q].state = "none", q # p,
             proc' = [proc EXCEPT ![p] = [proc[p] EXCEPT !.at = "any", !.cmd = NoCommand],
                                  ![q] = AlarmOf(proc[p], p)]
      PROVE  Sound(proc')
  <2> DEFINE r == [proc[p] EXCEPT !.at = "any", !.cmd = NoCommand]
             c == AlarmOf(proc[p], p)
  <2>1. r \in Process
    BY <1>1, NoCommandType DEF Process
  <2>2. c \in Process
    <3> DEFINE child == [proc[p] EXCEPT !.parent = p, !.origin = "alarm", !.at = "alarm",
                                        !.job = init, !.late = FALSE]
    <3>1. child \in Process
      BY <1>1, ChildType
    <3>2. [child EXCEPT !.cmd = NoCommand] \in Process
      BY <3>1, NoCommandType DEF Process
    <3> QED
      BY <3>2 DEF AlarmOf
  <2>3. /\ r.at = "any" /\ r.state = "running" /\ r.parent = proc[p].parent
        /\ r.origin = proc[p].origin /\ r.job = proc[p].job /\ r.late = proc[p].late
        /\ r.in = proc[p].in /\ r.stack = proc[p].stack
    BY <1>1, <1>2 DEF Process
  <2>4. /\ c.at = "alarm" /\ c.state = "running" /\ c.parent = p /\ c.origin = "alarm"
        /\ c.job = init /\ c.in = proc[p].in /\ c.stack = proc[p].stack
    BY <1>1, <1>2 DEF AlarmOf, Process
  <2> HIDE DEF c, r
  <2>5. EntryOK(c) /\ EntryOK(r)
    BY <1>1, <1>2, <2>3, <2>4 DEF EntryOK
  <2>6. Sound([proc EXCEPT ![p] = r, ![q] = c])
    BY <1>2, <1>4, <2>1, <2>2, <2>3, <2>4, <2>5, ForkedSound
  <2> QED
    BY <1>4, <2>6 DEF r, c
<1> QED
  BY <1>3, <1>4, PlayAlarmIs

\* A child nobody will wait for has ended.
LEMMA PopenSound ==
    ASSUME NEW ps, Sound(ps), NEW w \in Pids, ps[w].state = "none", NEW p \in Pids
    PROVE  Sound([ps EXCEPT ![w] = Zombie(p)])
<1> DEFINE qs == [ps EXCEPT ![w] = Zombie(p)]
<1>1. ps \in Tables /\ qs \in Tables
  BY ZombieType DEF Sound, Tables
<1>2. qs[w] = Zombie(p) /\ \A x \in Pids : x # w => qs[x] = ps[x]
  BY <1>1 DEF Tables
<1>3. ps[w].at = "nowhere" /\ ps[w].job = init
  BY DEF Sound, EntryOK
<1> HIDE DEF qs
<1>4. \A x \in Pids : EntryOK(qs[x])
  BY <1>2, Gone DEF Sound
<1>5. \A x \in Pids : HeldOK(qs, x)
  BY <1>2, <1>3, Gone DEF Sound, HeldOK
<1>6. ASSUME NEW x \in Pids, x # w, Settled(ps, x)
      PROVE  Settled(qs, x)
  BY <1>2, <1>3, <1>6, Gone DEF Settled
<1>7. \A x \in Pids : IdleOK(qs, x)
  BY <1>2, <1>3, <1>6, Gone DEF Sound, IdleOK
<1>8. Sound(qs)
  BY <1>1, <1>4, <1>5, <1>7 DEF Sound
<1> QED
  BY <1>8 DEF qs

LEMMA CompleteSound ==
    ASSUME Sound(proc), NEW p \in Pids, Complete(p)
    PROVE  Sound(proc')
<1>1. proc \in Tables /\ proc[p] \in Process
  BY At
<1>2. Running(p, "command") /\ proc[p].at = "command" /\ proc[p].state = "running"
  BY DEF Complete, Called, Running
<1>3. CASE proc' = Returned(proc, p)
  BY <1>2, <1>3, CommandReturns
<1>4. CASE proc' = Exited(proc, p)
  BY <1>2, <1>4, NotWaiting, ExitedSound
<1>5. CASE Free(proc) # {}
  <2> DEFINE q == Fresh(proc)
             ps == [proc EXCEPT ![q] = Zombie(p)]
  <2>1. q \in Pids /\ proc[q].state = "none" /\ q # p
    BY <1>1, <1>2, <1>5, FreshIsFree
  <2> HIDE DEF q
  <2>2. ps \in Tables /\ ps[p] = proc[p] /\ Sound(ps)
    BY <1>1, <2>1, PopenSound DEF Sound, Tables
  <2>3. CASE proc' = Returned(ps, p)
    BY <1>2, <2>2, <2>3, CommandReturns
  <2>4. CASE proc' = [ps EXCEPT ![p].cmd = Command(<<Call("prog")>>, FALSE)]
    <3> DEFINE r == [ps[p] EXCEPT !.cmd = Command(<<Call("prog")>>, FALSE)]
    <3> HIDE DEF ps
    <3>1. "prog" \in Names
      BY DEF Names
    <3>2. r \in Process
      BY <1>1, <2>2, <3>1, CallsType DEF Process
    <3>3. /\ r.at = "command" /\ r.state = "running" /\ r.parent = ps[p].parent
          /\ r.origin = ps[p].origin /\ r.job = ps[p].job /\ r.late = ps[p].late
          /\ r.in = ps[p].in /\ r.stack = ps[p].stack
      BY <1>1, <1>2, <2>2 DEF Process
    <3>4. proc' = [ps EXCEPT ![p] = r]
      BY <2>2, <2>4 DEF Tables
    <3> HIDE DEF r
    <3>5. EntryOK(r)
      BY <1>2, <2>2, <3>3 DEF Sound, EntryOK
    <3>6. NoHeld(ps, p) /\ (ps[p].job # init => ps[p].late \/ Settled(ps, p))
      BY <1>2, <2>2, NotWaiting
    <3>7. r.job # init => r.late \/ Settled(ps, p)
      BY <3>3, <3>6
    <3>8. Sound([ps EXCEPT ![p] = r])
      BY <1>2, <2>2, <3>2, <3>3, <3>5, <3>6, <3>7, UpdatedSound
    <3> QED
      BY <3>4, <3>8
  <2> QED
    BY <1>3, <1>4, <2>3, <2>4 DEF Complete, q
<1> QED
  BY <1>3, <1>4, <1>5 DEF Complete

LEMMA UnusedPipe ==
    ASSUME Unused # {}
    PROVE  (CHOOSE u \in Unused : TRUE) \in Pipes
BY DEF Unused

\* The alarm's child with a pipe, and echo, which writes into it.
PipedOf(r, pipe) ==
    [r EXCEPT !.holds = @ \cup {<<pipe, "r">>, <<pipe, "w">>}, !.at = "any",
              !.stack = <<CrontabFrame(pipe)>> \o @]
EchoOf(r, q, pipe) ==
    [r EXCEPT !.parent = q, !.origin = "alarm", !.at = "program", !.job = init, !.late = FALSE,
              !.holds = @ \ {<<pipe, "r">>}, !.out = pipe, !.stack = <<>>]

LEMMA PipedOfIs ==
    ASSUME NEW r \in Process, NEW pipe \in Pipes
    PROVE  LET s == PipedOf(r, pipe)
           IN  /\ s \in Process /\ s.at = "any" /\ s.state = r.state /\ s.parent = r.parent
               /\ s.origin = r.origin /\ s.job = r.job /\ s.late = r.late /\ s.in = r.in
               /\ s.stack # <<>> /\ Head(s.stack).do = "crontab" /\ Leaves(s.stack)
<1> DEFINE s == PipedOf(r, pipe)
<1>1. r.stack \in Seq(Frames) /\ CrontabFrame(pipe) \in Frames
      /\ CrontabFrame(pipe).do = "crontab"
  BY FrameTypes DEF Process, Frames, CrontabFrame, Frame
<1>2. s \in Process
  <2>1. <<CrontabFrame(pipe)>> \o r.stack \in Seq(Frames)
    BY <1>1
  <2>2. r.holds \cup {<<pipe, "r">>, <<pipe, "w">>} \in SUBSET (Pipes \X {"r", "w"})
    BY DEF Process
  <2> QED
    BY <2>1, <2>2, ZenonT(30) DEF PipedOf, Process, Frames
<1>3. /\ s.at = "any" /\ s.state = r.state /\ s.parent = r.parent
      /\ s.origin = r.origin /\ s.job = r.job /\ s.late = r.late /\ s.in = r.in
      /\ s.stack = <<CrontabFrame(pipe)>> \o r.stack
  BY DEF PipedOf, Process
<1> HIDE DEF s
<1>4. s.stack # <<>> /\ Head(s.stack).do = "crontab" /\ Leaves(s.stack)
  BY <1>1, <1>3, LeavesPushed
<1> QED
  BY <1>2, <1>3, <1>4 DEF s

LEMMA EchoOfIs ==
    ASSUME NEW r \in Process, NEW q \in Pids, NEW pipe \in Pipes
    PROVE  LET c == EchoOf(r, q, pipe)
           IN  /\ c \in Process /\ c.at = "program" /\ c.state = r.state /\ c.parent = q
               /\ c.origin = "alarm" /\ c.job = init
<1> DEFINE child == [r EXCEPT !.parent = q, !.origin = "alarm", !.at = "program",
                              !.job = init, !.late = FALSE]
           c == EchoOf(r, q, pipe)
<1>1. child \in Process
  BY ChildType
<1>2. pipe \in Streams /\ <<>> \in Seq(Frames)
  BY DEF Streams
<1>3. ASSUME NEW x \in Process
      PROVE  [x EXCEPT !.holds = @ \ {<<pipe, "r">>}, !.out = pipe, !.stack = <<>>] \in Process
  BY <1>2 DEF Process, Frames
<1>4. c = [child EXCEPT !.holds = @ \ {<<pipe, "r">>}, !.out = pipe, !.stack = <<>>]
  BY DEF EchoOf
<1>5. /\ c.at = "program" /\ c.state = r.state /\ c.parent = q /\ c.origin = "alarm"
      /\ c.job = init
  BY DEF EchoOf, Process
<1> HIDE DEF c, child
<1>6. c \in Process
  BY <1>1, <1>3, <1>4
<1> QED
  BY <1>5, <1>6 DEF c

\* Without a pipe the alarm's child ends; without a process there is no echo.
LEMMA EchoLineIs ==
    ASSUME Sound(proc), NEW q \in Pids, EchoLine(q)
    PROVE  \/ proc' = Exited(proc, q)
           \/ \E pipe \in Unused :
                 LET r == PipedOf(proc[q], pipe)
                 IN  \/ proc' = [proc EXCEPT ![q] = r]
                     \/ \E e \in Pids :
                           /\ proc[e].state = "none" /\ e # q
                           /\ proc' = [proc EXCEPT ![q] = r, ![e] = EchoOf(r, q, pipe)]
<1>1. proc \in Tables /\ proc[q] \in Process
  BY At
<1>2. proc[q].at = "alarm" /\ proc[q].state = "running"
  BY DEF EchoLine, Running
<1>3. CASE Unused = {}
  BY <1>3 DEF EchoLine
<1>4. CASE Unused # {}
  <2> DEFINE pipe == CHOOSE u \in Unused : TRUE
  <2>1. pipe \in Unused /\ pipe \in Pipes
    BY <1>4, UnusedPipe
  <2> DEFINE r == PipedOf(proc[q], pipe)
             both == [proc EXCEPT ![q].holds = @ \cup {<<pipe, "r">>, <<pipe, "w">>},
                                  ![q].at = "any", ![q].stack = <<CrontabFrame(pipe)>> \o @]
             e == Fresh(proc)
             ps == Forked(both, q, e, "alarm", "program")
  <2>2. \/ Free(proc) = {} /\ proc' = both
        \/ /\ Free(proc) # {}
           /\ proc' = [ps EXCEPT ![e].holds = @ \ {<<pipe, "r">>},
                                 ![e].out = pipe, ![e].stack = <<>>]
    BY <1>4 DEF EchoLine
  <2> HIDE DEF pipe, e
  <2>3. r \in Process
    BY <1>1, <2>1, PipedOfIs
  <2>4. both = [proc EXCEPT ![q] = r]
    BY <1>1 DEF Tables, PipedOf
  <2>5. CASE proc' = both
    BY <2>1, <2>4, <2>5
  <2>6. CASE /\ Free(proc) # {}
             /\ proc' = [ps EXCEPT ![e].holds = @ \ {<<pipe, "r">>},
                                   ![e].out = pipe, ![e].stack = <<>>]
    <3> HIDE DEF r
    <3>1. e \in Pids /\ proc[e].state = "none" /\ e # q
      BY <1>1, <1>2, <2>6, FreshIsFree DEF e
    <3>2. both \in Tables /\ both[q] = r /\ \A x \in Pids : x # q => both[x] = proc[x]
      BY <1>1, <2>3, <2>4 DEF Tables
    <3> HIDE DEF both
    <3>3. ps \in Tables
      BY <3>1, <3>2, ForkedType
    <3>4. /\ ps[e] = [r EXCEPT !.parent = q, !.origin = "alarm", !.at = "program",
                               !.job = init, !.late = FALSE]
          /\ \A x \in Pids : x # e => ps[x] = both[x]
      BY <3>1, <3>2 DEF Forked, Tables
    <3> HIDE DEF ps
    <3>5. proc' = [ps EXCEPT ![e] = [ps[e] EXCEPT !.holds = @ \ {<<pipe, "r">>},
                                                  !.out = pipe, !.stack = <<>>]]
      BY <2>6, <3>3 DEF ps, Tables
    <3>6. proc' = [ps EXCEPT ![e] = EchoOf(r, q, pipe)]
      BY <2>3, <3>4, <3>5 DEF Process, EchoOf
    <3>7. proc' = [proc EXCEPT ![q] = r, ![e] = EchoOf(r, q, pipe)]
      BY <1>1, <3>1, <3>2, <3>3, <3>4, <3>6 DEF Tables
    <3> QED
      BY <2>1, <3>1, <3>7 DEF r
  <2> QED
    BY <2>2, <2>5, <2>6
<1> QED
  BY <1>3, <1>4

LEMMA EchoLineSound ==
    ASSUME Sound(proc), NEW q \in Pids, EchoLine(q)
    PROVE  Sound(proc')
<1>1. proc \in Tables /\ proc[q] \in Process /\ EntryOK(proc[q])
  BY At
<1>2. proc[q].at = "alarm" /\ proc[q].state = "running" /\ proc[q].origin = "alarm"
  BY At DEF EchoLine, Running, EntryOK
<1>3. CASE proc' = Exited(proc, q)
  BY <1>2, <1>3, NotWaiting, ExitedSound
<1>4. ASSUME NEW pipe \in Pipes
      PROVE  LET r == PipedOf(proc[q], pipe)
             IN  /\ r \in Process /\ EntryOK(r) /\ r.state = "running" /\ r.at = "any"
                 /\ r.parent = proc[q].parent /\ r.origin = proc[q].origin
                 /\ r.job = proc[q].job /\ r.late = proc[q].late
  <2> DEFINE r == PipedOf(proc[q], pipe)
  <2>1. /\ r \in Process /\ r.at = "any" /\ r.state = "running" /\ r.parent = proc[q].parent
        /\ r.origin = "alarm" /\ r.job = proc[q].job /\ r.late = proc[q].late
        /\ r.in = proc[q].in
        /\ r.stack # <<>> /\ Head(r.stack).do = "crontab" /\ Leaves(r.stack)
    BY <1>1, <1>2, PipedOfIs
  <2> HIDE DEF r
  <2>2. EntryOK(r)
    BY <2>1 DEF EntryOK
  <2> QED
    BY <1>2, <2>1, <2>2 DEF r
<1>5. ASSUME NEW pipe \in Pipes, proc' = [proc EXCEPT ![q] = PipedOf(proc[q], pipe)]
      PROVE  Sound(proc')
  <2> DEFINE r == PipedOf(proc[q], pipe)
  <2>1. /\ r \in Process /\ EntryOK(r) /\ r.state = "running" /\ r.at = "any"
        /\ r.parent = proc[q].parent /\ r.origin = proc[q].origin
        /\ r.job = proc[q].job /\ r.late = proc[q].late
    BY <1>4
  <2> HIDE DEF r
  <2>2. Sound([proc EXCEPT ![q] = r])
    BY <1>2, <2>1, GoesOnSound
  <2> QED
    BY <1>5, <2>2 DEF r
<1>6. ASSUME NEW pipe \in Pipes, NEW e \in Pids, proc[e].state = "none", e # q,
             proc' = [proc EXCEPT ![q] = PipedOf(proc[q], pipe),
                                  ![e] = EchoOf(PipedOf(proc[q], pipe), q, pipe)]
      PROVE  Sound(proc')
  <2> DEFINE r == PipedOf(proc[q], pipe)
             c == EchoOf(r, q, pipe)
  <2>1. /\ r \in Process /\ EntryOK(r) /\ r.state = "running" /\ r.at = "any"
        /\ r.parent = proc[q].parent /\ r.origin = proc[q].origin
        /\ r.job = proc[q].job /\ r.late = proc[q].late
    BY <1>4
  <2> HIDE DEF r
  <2>2. /\ c \in Process /\ c.at = "program" /\ c.state = "running" /\ c.parent = q
        /\ c.origin = "alarm" /\ c.job = init
    BY <2>1, EchoOfIs
  <2> HIDE DEF c
  <2>3. EntryOK(c)
    BY <2>2 DEF EntryOK
  <2>4. Sound([proc EXCEPT ![q] = r, ![e] = c])
    BY <1>2, <1>6, <2>1, <2>2, <2>3, ForkedSound
  <2> QED
    BY <1>6, <2>4 DEF r, c
<1> QED
  BY <1>3, <1>5, <1>6, EchoLineIs DEF Unused

\* A line that is not in the background makes the shell wait for its child.
LEMMA RunProgramIs ==
    ASSUME Sound(proc), NEW p \in Pids, RunProgram(p)
    PROVE  \/ proc' = Returned(proc, p)
           \/ \E q \in Pids :
                 /\ proc[q].state = "none" /\ q # p
                 /\ \/ /\ proc[p].cmd.background
                       /\ proc' = Returned([proc EXCEPT ![p] = proc[p],
                                               ![q] = ChildOf(proc[p], p, "background")], p)
                    \/ /\ ~proc[p].cmd.background
                       /\ proc' = [proc EXCEPT ![p] = WaiterOf(proc[p], q),
                                               ![q] = ChildOf(proc[p], p, "foreground")]
<1>1. proc \in Tables /\ proc[p] \in Process
  BY At
<1>2. proc[p].at = "command" /\ proc[p].state = "running"
  BY DEF RunProgram, Called, Running
<1>3. CASE Free(proc) = {}
  BY <1>3 DEF RunProgram
<1>4. CASE Free(proc) # {}
  <2> DEFINE q == Fresh(proc)
             back == proc[p].cmd.background
             origin == IF back THEN "background" ELSE "foreground"
             ps == Forked(proc, p, q, origin, "child")
             c == ChildOf(proc[p], p, origin)
  <2>1. q \in Pids /\ proc[q].state = "none" /\ q # p
    BY <1>1, <1>2, <1>4, FreshIsFree
  <2>2. proc' = IF back THEN Returned(ps, p)
                ELSE [ps EXCEPT ![p].at = "wait", ![p].target = q, ![p].job = q,
                                ![p].cmd = NoCommand]
    BY <1>4 DEF RunProgram
  <2>3. ps = [proc EXCEPT ![q] = c]
    BY Zenon DEF Forked, ChildOf
  <2>4. origin \in {"background", "foreground"}
    OBVIOUS
  <2> HIDE DEF q
  <2>5. c \in Process
    BY <1>1, <2>1, <2>4, ChildType DEF ChildOf
  <2> HIDE DEF c, ps
  <2>6. CASE back
    <3>1. ps = [proc EXCEPT ![p] = proc[p], ![q] = c]
      BY <1>1, <2>1, <2>3 DEF Tables
    <3>2. c = ChildOf(proc[p], p, "background")
      BY <2>6 DEF c
    <3> QED
      BY <2>1, <2>2, <2>6, <3>1, <3>2
  <2>7. CASE ~back
    <3>1. ps \in Tables /\ ps[p] = proc[p]
      BY <1>1, <2>1, <2>3, <2>5 DEF Tables
    <3>2. proc' = [ps EXCEPT ![p] = WaiterOf(proc[p], q)]
      BY <2>2, <2>7, <3>1 DEF Tables, WaiterOf
    <3>3. proc' = [proc EXCEPT ![p] = WaiterOf(proc[p], q), ![q] = c]
      BY <1>1, <2>1, <2>3, <3>1, <3>2 DEF Tables
    <3>4. c = ChildOf(proc[p], p, "foreground")
      BY <2>7 DEF c
    <3> QED
      BY <2>1, <2>7, <3>3, <3>4
  <2> QED
    BY <2>6, <2>7
<1> QED
  BY <1>3, <1>4

LEMMA ChildOfIs ==
    ASSUME NEW r \in Process, EntryOK(r), r.at = "command", r.state = "running", NEW p \in Pids,
           NEW origin \in {"background", "foreground"}
    PROVE  LET c == ChildOf(r, p, origin)
           IN  /\ c \in Process /\ EntryOK(c)
               /\ c.at = "child" /\ c.state = "running" /\ c.parent = p /\ c.origin = origin
               /\ c.job = init /\ c.in = r.in /\ c.stack = r.stack /\ c.cmd = r.cmd
<1> DEFINE c == ChildOf(r, p, origin)
<1>1. c \in Process
  BY ChildType DEF ChildOf
<1>2. /\ c.at = "child" /\ c.state = "running" /\ c.parent = p /\ c.origin = origin
      /\ c.job = init /\ c.in = r.in /\ c.stack = r.stack /\ c.cmd = r.cmd
  BY DEF ChildOf, Process
<1> HIDE DEF c
<1>3. EntryOK(c)
  BY <1>2 DEF EntryOK
<1> QED
  BY <1>1, <1>2, <1>3 DEF c

LEMMA BackgroundSound ==
    ASSUME Sound(proc), NEW p \in Pids, Running(p, "command"),
           NEW q \in Pids, proc[q].state = "none", q # p
    PROVE  LET ps == [proc EXCEPT ![p] = proc[p], ![q] = ChildOf(proc[p], p, "background")]
           IN  ps \in Tables /\ Sound(ps) /\ ps[p] = proc[p]
<1>1. proc \in Tables /\ proc[p] \in Process /\ EntryOK(proc[p])
  BY At
<1>2. proc[p].at = "command" /\ proc[p].state = "running"
  BY DEF Running
<1> DEFINE c == ChildOf(proc[p], p, "background")
           ps == [proc EXCEPT ![p] = proc[p], ![q] = c]
<1>3. c \in Process /\ EntryOK(c) /\ c.parent = p /\ c.job = init /\ c.origin = "background"
      /\ c.at = "child"
  BY <1>1, <1>2, ChildOfIs
<1> HIDE DEF c
<1>4. Sound(ps)
  BY <1>1, <1>2, <1>3, ForkedSound
<1>5. ps \in Tables /\ ps[p] = proc[p]
  BY <1>1, <1>3 DEF Tables
<1> QED
  BY <1>4, <1>5 DEF c

LEMMA RunProgramSound ==
    ASSUME Sound(proc), NEW p \in Pids, RunProgram(p)
    PROVE  Sound(proc')
<1>1. proc \in Tables /\ proc[p] \in Process /\ EntryOK(proc[p])
  BY At
<1>2. Running(p, "command") /\ proc[p].at = "command" /\ proc[p].state = "running"
  BY DEF RunProgram, Called, Running
<1>3. CASE proc' = Returned(proc, p)
  BY <1>2, <1>3, CommandReturns
<1>4. ASSUME NEW q \in Pids, proc[q].state = "none", q # p,
             proc' = Returned([proc EXCEPT ![p] = proc[p],
                                           ![q] = ChildOf(proc[p], p, "background")], p)
      PROVE  Sound(proc')
  <2> DEFINE ps == [proc EXCEPT ![p] = proc[p], ![q] = ChildOf(proc[p], p, "background")]
  <2>1. Sound(ps) /\ ps[p] = proc[p]
    BY <1>2, <1>4, BackgroundSound
  <2> HIDE DEF ps
  <2> QED
    BY <1>2, <1>4, <2>1, CommandReturns DEF ps
<1>5. ASSUME NEW q \in Pids, proc[q].state = "none", q # p,
             proc' = [proc EXCEPT ![p] = WaiterOf(proc[p], q),
                                  ![q] = ChildOf(proc[p], p, "foreground")]
      PROVE  Sound(proc')
  <2> DEFINE c == ChildOf(proc[p], p, "foreground")
  <2>1. c \in Process /\ EntryOK(c) /\ c.parent = p /\ c.job = init
    BY <1>1, <1>2, ChildOfIs
  <2> HIDE DEF c
  <2> QED
    BY <1>2, <1>5, <2>1, ForksAndWaits DEF c
<1> QED
  BY <1>3, <1>4, <1>5, RunProgramIs

\* What the redirections make of the entry of q.
LEMMA RedirectedEntry ==
    ASSUME Sound(proc), NEW q \in Pids, Running(q, "child")
    PROVE  LET x == Redirected(proc, q)[q]
           IN  /\ x \in Process /\ EntryOK(x)
               /\ Redirected(proc, q) = [proc EXCEPT ![q] = x]
               /\ x.at = "child" /\ x.state = "running" /\ x.parent = proc[q].parent
               /\ x.origin = proc[q].origin /\ x.job = proc[q].job /\ x.late = proc[q].late
               /\ x.stack = proc[q].stack /\ x.cmd = proc[q].cmd /\ x.holds = proc[q].holds
               /\ x.in \in {proc[q].in, "file"} /\ x.out \in {proc[q].out, "file"}
<1>1. proc \in Tables /\ proc[q] \in Process /\ EntryOK(proc[q])
  BY At
<1>2. proc[q].at = "child" /\ proc[q].state = "running"
  BY DEF Running
<1> DEFINE first == Head(proc[q].cmd.stages)
           in == IF first.from = "file" THEN "file" ELSE proc[q].in
           out == IF first.to = "file" THEN "file" ELSE proc[q].out
           x == [proc[q] EXCEPT !.in = in, !.out = out]
<1>3. Redirected(proc, q) = [proc EXCEPT ![q] = x]
  BY <1>1 DEF Redirected, Tables
<1>4. in \in {proc[q].in, "file"} /\ out \in {proc[q].out, "file"} /\ "file" \notin Pipes
  BY ShellConstants
<1> HIDE DEF in, out
<1>5. x \in Process
  BY <1>1, <1>4 DEF Process, Streams
<1>6. /\ x.at = "child" /\ x.state = "running" /\ x.parent = proc[q].parent
      /\ x.origin = proc[q].origin /\ x.job = proc[q].job /\ x.late = proc[q].late
      /\ x.stack = proc[q].stack /\ x.cmd = proc[q].cmd /\ x.holds = proc[q].holds
      /\ x.in = in /\ x.out = out
  BY <1>1, <1>2 DEF Process
<1> HIDE DEF x
<1>7. EntryOK(x)
  BY <1>1, <1>2, <1>4, <1>6 DEF EntryOK
<1>8. Redirected(proc, q)[q] = x
  BY <1>1, <1>3 DEF Tables
<1> QED
  BY <1>3, <1>4, <1>5, <1>6, <1>7, <1>8

\* The types of the two entries a pipeline goes on with.
LEMMA StageType ==
    ASSUME NEW x \in Process, NEW q \in Pids, NEW pipe \in Pipes
    PROVE  [x EXCEPT !.parent = q, !.origin = "stage", !.at = "exec", !.job = init,
                     !.late = FALSE, !.holds = @ \cup {<<pipe, "w">>}, !.out = pipe] \in Process
<1> DEFINE child == [x EXCEPT !.parent = q, !.origin = "stage", !.at = "exec", !.job = init,
                              !.late = FALSE]
<1>1. child \in Process
  BY ChildType
<1>2. ASSUME NEW y \in Process
      PROVE  [y EXCEPT !.holds = @ \cup {<<pipe, "w">>}, !.out = pipe] \in Process
  <2>1. y.holds \cup {<<pipe, "w">>} \in SUBSET (Pipes \X {"r", "w"})
    BY DEF Process
  <2> QED
    BY <2>1 DEF Process, Streams
<1>3. [x EXCEPT !.parent = q, !.origin = "stage", !.at = "exec", !.job = init,
                !.late = FALSE, !.holds = @ \cup {<<pipe, "w">>}, !.out = pipe]
        = [child EXCEPT !.holds = @ \cup {<<pipe, "w">>}, !.out = pipe]
  OBVIOUS
<1> HIDE DEF child
<1> QED
  BY <1>1, <1>2, <1>3

LEMMA ReaderType ==
    ASSUME NEW x \in Process, NEW next \in Commands, NEW pipe \in Pipes
    PROVE  [x EXCEPT !.holds = @ \cup {<<pipe, "r">>}, !.in = pipe, !.at = "command",
                     !.cmd = next, !.stack = <<ExitFrame>> \o @] \in Process
<1> DEFINE reader == [x EXCEPT !.holds = @ \cup {<<pipe, "r">>}, !.in = pipe, !.at = "command"]
<1>1. reader \in Process
  <2>1. x.holds \cup {<<pipe, "r">>} \in SUBSET (Pipes \X {"r", "w"})
    BY DEF Process
  <2> QED
    BY <2>1 DEF Process, Streams
<1>2. [x EXCEPT !.holds = @ \cup {<<pipe, "r">>}, !.in = pipe, !.at = "command",
                !.cmd = next, !.stack = <<ExitFrame>> \o @]
        = [reader EXCEPT !.cmd = next, !.stack = <<ExitFrame>> \o @]
  BY DEF Process
<1> HIDE DEF reader
<1> QED
  BY <1>1, <1>2, FrameTypes, PushedType

\* The entries of the child and of its own child once they share a pipe.
ReaderOf(x, pipe, next) ==
    [x EXCEPT !.holds = @ \cup {<<pipe, "r">>}, !.in = pipe, !.at = "command",
              !.cmd = next, !.stack = <<ExitFrame>> \o @]
WriterOf(x, q, pipe) ==
    [x EXCEPT !.parent = q, !.origin = "stage", !.at = "exec", !.job = init, !.late = FALSE,
              !.holds = @ \cup {<<pipe, "w">>}, !.out = pipe]

LEMMA ChildIs ==
    ASSUME Sound(proc), NEW q \in Pids, Child(q)
    PROVE  LET x == Redirected(proc, q)[q]
           IN  \/ /\ Len(proc[q].cmd.stages) = 1
                  /\ proc' = [proc EXCEPT ![q] = [x EXCEPT !.at = "exec"]]
               \/ proc' = Exited(Redirected(proc, q), q)
               \/ \E w \in Pids, pipe \in Unused, next \in Commands :
                     /\ proc[w].state = "none" /\ w # q
                     /\ Len(proc[q].cmd.stages) > 1
                     /\ next.stages = Tail(proc[q].cmd.stages)
                     /\ proc' = [proc EXCEPT ![q] = ReaderOf(x, pipe, next),
                                             ![w] = WriterOf(x, q, pipe)]
<1> DEFINE x == Redirected(proc, q)[q]
           ps == Redirected(proc, q)
<1>1. proc \in Tables /\ proc[q] \in Process /\ Running(q, "child")
  BY At DEF Child
<1>2. proc[q].at = "child" /\ proc[q].state = "running" /\ x \in Process
  BY <1>1, RedirectedEntry DEF Running
<1>3. ps = [proc EXCEPT ![q] = x]
  BY <1>1, RedirectedEntry
<1>4. ps \in Tables /\ ps[q] = x /\ \A y \in Pids : y # q => ps[y] = proc[y]
  BY <1>1, <1>2, <1>3 DEF Tables
<1>5. CASE Len(proc[q].cmd.stages) = 1 /\ proc' = [ps EXCEPT ![q].at = "exec"]
  <2>1. proc' = [ps EXCEPT ![q] = [ps[q] EXCEPT !.at = "exec"]]
    BY <1>4, <1>5 DEF Tables
  <2> HIDE DEF x, ps
  <2>2. proc' = [proc EXCEPT ![q] = [x EXCEPT !.at = "exec"]]
    BY <1>1, <1>3, <1>4, <2>1 DEF Tables
  <2> QED
    BY <1>5, <2>2 DEF x, ps
<1>6. CASE /\ Len(proc[q].cmd.stages) > 1 /\ Free(proc) # {} /\ Unused # {}
           /\ \E g \in Garbage :
                 LET cmd == proc[q].cmd
                     w == Fresh(proc)
                     pipe == CHOOSE u \in Unused : TRUE
                     next == [stages |-> Tail(cmd.stages), background |-> cmd.amp \/ g,
                              amp |-> cmd.amp]
                     both == Writing(Forked(ps, q, w, "stage", "exec"), w, pipe)
                 IN  proc' = [Reading(both, q, pipe) EXCEPT
                        ![q].at = "command", ![q].cmd = next,
                        ![q].stack = <<ExitFrame>> \o @]
  <2> DEFINE cmd == proc[q].cmd
             w == Fresh(proc)
             pipe == CHOOSE u \in Unused : TRUE
             nextOf(g) == [stages |-> Tail(cmd.stages), background |-> cmd.amp \/ g,
                           amp |-> cmd.amp]
             forked == Forked(ps, q, w, "stage", "exec")
             both == Writing(forked, w, pipe)
  <2>1. w \in Pids /\ proc[w].state = "none" /\ w # q
    BY <1>1, <1>2, <1>6, FreshIsFree
  <2>2. pipe \in Unused /\ pipe \in Pipes
    BY <1>6, UnusedPipe
  <2>3. PICK g \in Garbage :
             proc' = [Reading(both, q, pipe) EXCEPT
                        ![q].at = "command", ![q].cmd = nextOf(g),
                        ![q].stack = <<ExitFrame>> \o @]
    BY <1>6, Zenon
  <2> DEFINE next == nextOf(g)
  <2>4. next \in Commands /\ next.stages = Tail(cmd.stages)
    <3>1. cmd \in Commands
      BY <1>1 DEF Process
    <3>2. cmd.stages \in Seq(Stages) /\ cmd.amp \in BOOLEAN
      BY <3>1 DEF Commands
    <3>3. Tail(cmd.stages) \in Seq(Stages)
      <4>1. Len(cmd.stages) > 1
        BY <1>6
      <4>2. cmd.stages # <<>>
        BY <3>2, <4>1
      <4> QED
        BY <3>2, <4>2, HeadTailProperties
    <3>4. g \in BOOLEAN
      BY ShellConstants
    <3>5. (cmd.amp \/ g) \in BOOLEAN
      BY <3>2, <3>4
    <3> QED
      BY <3>2, <3>3, <3>5, Zenon DEF Commands
  <2> HIDE DEF cmd, w, pipe, next, ps, x
  <2>5. /\ forked \in Tables /\ forked[q] = x
        /\ \A y \in Pids : y # q /\ y # w => forked[y] = proc[y]
        /\ forked[w] = [x EXCEPT !.parent = q, !.origin = "stage", !.at = "exec",
                                 !.job = init, !.late = FALSE]
    <3>1. forked \in Tables
      BY <1>4, <2>1, ForkedType
    <3>2. /\ forked[w] = [ps[q] EXCEPT !.parent = q, !.origin = "stage", !.at = "exec",
                                       !.job = init, !.late = FALSE]
          /\ \A y \in Pids : y # w => forked[y] = ps[y]
      BY <1>4, <2>1 DEF Forked, Tables
    <3> QED
      BY <1>4, <2>1, <3>1, <3>2
  <2> HIDE DEF forked
  <2>6. both = [forked EXCEPT ![w] = [forked[w] EXCEPT !.holds = @ \cup {<<pipe, "w">>},
                                                       !.out = pipe]]
    BY <2>1, <2>5 DEF Writing, Tables
  <2>7. both = [forked EXCEPT ![w] = WriterOf(x, q, pipe)]
    BY <1>2, <2>5, <2>6 DEF WriterOf, Process
  <2>8. WriterOf(x, q, pipe) \in Process
    BY <1>2, <2>2, StageType DEF WriterOf, x
  <2>9. /\ both \in Tables /\ both[q] = x /\ both[w] = WriterOf(x, q, pipe)
        /\ \A y \in Pids : y # q /\ y # w => both[y] = proc[y]
    BY <2>1, <2>5, <2>7, <2>8 DEF Tables
  <2> HIDE DEF both
  <2>10. proc' = [both EXCEPT ![q] =
                    [both[q] EXCEPT !.holds = @ \cup {<<pipe, "r">>}, !.in = pipe,
                                    !.at = "command", !.cmd = next,
                                    !.stack = <<ExitFrame>> \o @]]
    <3> DEFINE read == Reading(both, q, pipe)
               entry == [both[q] EXCEPT !.holds = @ \cup {<<pipe, "r">>}, !.in = pipe]
    <3>1. read = [both EXCEPT ![q] = entry]
      BY <2>9 DEF Reading, Tables
    <3>2. DOMAIN read = Pids /\ read[q] = entry
      BY <2>9, <3>1 DEF Tables
    <3>3. proc' = [read EXCEPT ![q] = [read[q] EXCEPT !.at = "command", !.cmd = next,
                                                      !.stack = <<ExitFrame>> \o @]]
      <4> HIDE DEF read
      <4> QED
        BY <2>3, <3>2 DEF read, next
    <3> HIDE DEF read
    <3>4. proc' = [both EXCEPT ![q] = [entry EXCEPT !.at = "command", !.cmd = next,
                                                    !.stack = <<ExitFrame>> \o @]]
      <4> HIDE DEF entry
      <4> QED
        BY <2>9, <3>1, <3>2, <3>3 DEF Tables
    <3>5. entry.stack = both[q].stack
      BY <1>2, <2>9 DEF Process, x
    <3> QED
      BY <1>2, <2>9, <3>4, <3>5 DEF Process
  <2>11. proc' = [both EXCEPT ![q] = ReaderOf(x, pipe, next)]
    BY <2>9, <2>10 DEF ReaderOf
  <2>12. proc' = [proc EXCEPT ![q] = ReaderOf(x, pipe, next), ![w] = WriterOf(x, q, pipe)]
    BY <1>1, <2>1, <2>9, <2>11 DEF Tables
  <2> QED
    BY <1>6, <2>1, <2>2, <2>4, <2>12 DEF x, ps, cmd
<1> QED
  BY <1>5, <1>6 DEF Child

LEMMA ChildSound ==
    ASSUME Sound(proc), NEW q \in Pids, Child(q)
    PROVE  Sound(proc')
<1> DEFINE x == Redirected(proc, q)[q]
<1>1. proc \in Tables /\ proc[q] \in Process /\ Running(q, "child")
  BY At DEF Child
<1>2. /\ proc[q].at = "child" /\ proc[q].state = "running"
      /\ x \in Process /\ EntryOK(x) /\ Redirected(proc, q) = [proc EXCEPT ![q] = x]
      /\ x.at = "child" /\ x.state = "running" /\ x.parent = proc[q].parent
      /\ x.origin = proc[q].origin /\ x.job = proc[q].job /\ x.late = proc[q].late
  BY <1>1, RedirectedEntry DEF Running
<1> HIDE DEF x
<1>3. CASE proc' = [proc EXCEPT ![q] = [x EXCEPT !.at = "exec"]]
  <2> DEFINE r == [x EXCEPT !.at = "exec"]
  <2>1. r \in Process
    BY <1>2 DEF Process
  <2>2. /\ r.at = "exec" /\ r.state = "running" /\ r.parent = proc[q].parent
        /\ r.origin = proc[q].origin /\ r.job = proc[q].job /\ r.late = proc[q].late
        /\ r.in = x.in /\ r.stack = x.stack
    BY <1>2 DEF Process
  <2>3. proc' = [proc EXCEPT ![q] = r]
    BY <1>3
  <2> HIDE DEF r
  <2>4. EntryOK(r)
    BY <1>2, <2>2 DEF EntryOK
  <2> QED
    BY <1>2, <2>1, <2>2, <2>3, <2>4, GoesOnSound
<1>4. CASE proc' = Exited(Redirected(proc, q), q)
  <2>1. Redirected(proc, q)[q] = x
    BY <1>1, <1>2 DEF Tables
  <2>2. Sound(Redirected(proc, q))
    BY <1>2, GoesOnSound
  <2> QED
    BY <1>2, <1>4, <2>1, <2>2, NotWaiting, ExitedSound
<1>5. ASSUME NEW w \in Pids, NEW pipe \in Unused, NEW next \in Commands,
             proc[w].state = "none",
             proc' = [proc EXCEPT ![q] = ReaderOf(x, pipe, next), ![w] = WriterOf(x, q, pipe)]
      PROVE  Sound(proc')
  <2> DEFINE r == ReaderOf(x, pipe, next)
             c == WriterOf(x, q, pipe)
  <2>1. r \in Process /\ c \in Process
    BY <1>2, ReaderType, StageType DEF Unused, ReaderOf, WriterOf
  <2>2. /\ r.at = "command" /\ r.state = "running" /\ r.parent = proc[q].parent
        /\ r.origin = proc[q].origin /\ r.job = proc[q].job /\ r.late = proc[q].late
        /\ r.stack = <<ExitFrame>> \o x.stack
    BY <1>2 DEF ReaderOf, Process
  <2>3. /\ c.at = "exec" /\ c.state = "running" /\ c.parent = q /\ c.origin = "stage"
        /\ c.job = init /\ c.in = x.in /\ c.stack = x.stack
    BY <1>2 DEF WriterOf, Process
  <2>4. Leaves(r.stack)
    <3>1. x.stack \in Seq(Frames) /\ ExitFrame \in Frames /\ ExitFrame.do = "exit"
      BY <1>2, FrameTypes DEF Process, Frames, ExitFrame, Frame
    <3> QED
      BY <2>2, <3>1, LeavesPushed
  <2> HIDE DEF r, c
  <2>5. EntryOK(r) /\ EntryOK(c)
    BY <1>2, <2>2, <2>3, <2>4 DEF EntryOK
  <2>6. Sound([proc EXCEPT ![q] = r, ![w] = c])
    BY <1>2, <1>5, <2>1, <2>2, <2>3, <2>5, ForkedSound
  <2> QED
    BY <1>5, <2>6 DEF r, c
<1> QED
  BY <1>3, <1>4, <1>5, ChildIs DEF x

LEMMA ExecuteSound ==
    ASSUME Sound(proc), NEW q \in Pids, Execute(q)
    PROVE  Sound(proc')
<1>1. proc \in Tables /\ proc[q] \in Process /\ EntryOK(proc[q])
  BY At
<1>2. proc[q].at = "exec" /\ proc[q].state = "running"
  BY DEF Execute, Running
<1>3. CASE proc' = Execed(proc, q)
  <2> DEFINE r == [proc[q] EXCEPT !.at = "program", !.stack = <<>>, !.target = init]
  <2>1. r \in Process
    <3>1. <<>> \in Seq(Frames)
      OBVIOUS
    <3> QED
      BY <1>1, <3>1 DEF Process, Frames
  <2>2. proc' = [proc EXCEPT ![q] = r]
    BY <1>1, <1>3 DEF Execed, Tables
  <2>3. /\ r.at = "program" /\ r.state = "running" /\ r.parent = proc[q].parent
        /\ r.origin = proc[q].origin /\ r.job = proc[q].job /\ r.late = proc[q].late
    BY <1>1, <1>2 DEF Process
  <2> HIDE DEF r
  <2>4. EntryOK(r)
    BY <1>1, <1>2, <2>3 DEF EntryOK
  <2> QED
    BY <1>2, <2>1, <2>2, <2>3, <2>4, GoesOnSound
<1>4. CASE proc' = Exited(proc, q)
  BY <1>2, <1>4, NotWaiting, ExitedSound
<1>5. CASE proc' = Returned(proc, q)
  BY <1>2, <1>5, CommandReturns
<1> QED
  BY <1>3, <1>4, <1>5 DEF Execute

-----------------------------------------------------------------------------
(* The invariant and what the actions do: waiting. *)

\* A process that leaves waitid, of which the shells see what it learns of its child.
Early(p) == proc[proc[p].target].parent # p \/ \E h \in Children(proc, p) : proc[h].at = "helper"
WaitedTable(p) == [Told(p, proc[p].target) EXCEPT ![p].late = Early(p)]

LEMMA WaitidIs ==
    ASSUME Sound(proc), NEW p \in Pids, Waitid(p)
    PROVE  LET ps == WaitedTable(p)
               t == proc[p].target
           IN  /\ proc' = Returned(ps, p) /\ t \in Pids /\ ps \in Tables
               /\ Reported(t) \/ Fails(p, t)
               /\ \A y \in Pids :
                     /\ ps[y] \in Process
                     /\ ps[y].at = proc[y].at /\ ps[y].state = proc[y].state
                     /\ ps[y].parent = proc[y].parent
                     /\ ps[y].job = proc[y].job /\ ps[y].target = proc[y].target
                     /\ ps[y].in = proc[y].in /\ ps[y].stack = proc[y].stack
                     /\ ps[y].cmd = proc[y].cmd /\ ps[y].backup = proc[y].backup
                     /\ ps[y].holds = proc[y].holds /\ ps[y].out = proc[y].out
                     /\ ps[y].late = IF y = p THEN Early(p) ELSE proc[y].late
                     /\ ps[y].origin = IF y = t /\ proc[t].parent = p
                                       THEN Detached(proc[t]).origin ELSE proc[y].origin
<1> DEFINE t == proc[p].target
           mid == Told(p, t)
           ps == [mid EXCEPT ![p].late = Early(p)]
<1>1. proc \in Tables /\ proc[p] \in Process /\ EntryOK(proc[p])
  BY At
<1>2. proc[p].at = "wait" /\ proc[p].state = "running"
  BY DEF Waitid, Running
<1>3. t \in Pids /\ proc[t] \in Process
  BY <1>1, <1>2 DEF EntryOK, Tables
<1>4. (Reported(t) \/ Fails(p, t)) /\ proc' = Returned(ps, p) /\ Early(p) \in BOOLEAN
  BY DEF Waitid, Early
<1> HIDE DEF t
<1>5. /\ mid \in Tables
      /\ \A y \in Pids :
            /\ mid[y] \in Process
            /\ mid[y].at = proc[y].at /\ mid[y].state = proc[y].state
            /\ mid[y].parent = proc[y].parent
            /\ mid[y].job = proc[y].job /\ mid[y].target = proc[y].target
            /\ mid[y].in = proc[y].in /\ mid[y].stack = proc[y].stack
            /\ mid[y].cmd = proc[y].cmd /\ mid[y].backup = proc[y].backup
            /\ mid[y].holds = proc[y].holds /\ mid[y].out = proc[y].out
            /\ mid[y].late = proc[y].late
            /\ mid[y].origin = IF y = t /\ proc[t].parent = p
                               THEN Detached(proc[t]).origin ELSE proc[y].origin
  <2>1. CASE proc[t].parent # p
    <3>1. mid = proc
      BY <2>1 DEF Told
    <3> HIDE DEF mid
    <3> QED
      BY <1>1, <2>1, <3>1 DEF Tables
  <2>2. CASE proc[t].parent = p
    <3> DEFINE new == [Detached(proc[t]) EXCEPT !.unreported = FALSE]
    <3>1. mid = [proc EXCEPT ![t] = new]
      BY <1>1, <1>3, <2>2 DEF Told, Tables
    <3>2. Detached(proc[t]) \in Process
      BY <1>3, DetachedType
    <3>3. Detached(proc[t]) = [proc[t] EXCEPT !.origin = Detached(proc[t]).origin]
      BY <1>3, DetachedType
    <3>4. /\ new \in Process
          /\ new.at = proc[t].at /\ new.state = proc[t].state
          /\ new.parent = proc[t].parent
          /\ new.job = proc[t].job /\ new.target = proc[t].target
          /\ new.in = proc[t].in /\ new.stack = proc[t].stack
          /\ new.cmd = proc[t].cmd /\ new.backup = proc[t].backup
          /\ new.holds = proc[t].holds /\ new.out = proc[t].out
          /\ new.late = proc[t].late
          /\ new.origin = Detached(proc[t]).origin
      <4> DEFINE d == Detached(proc[t])
      <4>1. /\ d.at = proc[t].at /\ d.state = proc[t].state
            /\ d.parent = proc[t].parent
            /\ d.job = proc[t].job /\ d.target = proc[t].target
            /\ d.in = proc[t].in /\ d.stack = proc[t].stack
            /\ d.cmd = proc[t].cmd /\ d.backup = proc[t].backup
            /\ d.holds = proc[t].holds /\ d.out = proc[t].out
            /\ d.late = proc[t].late
        BY <1>3, <3>3 DEF Process
      <4> HIDE DEF d
      <4>2. [d EXCEPT !.unreported = FALSE] \in Process
        BY <3>2 DEF d, Process
      <4> DEFINE e == [d EXCEPT !.unreported = FALSE]
      <4>3. /\ e.at = d.at /\ e.state = d.state /\ e.parent = d.parent
            /\ e.job = d.job /\ e.target = d.target /\ e.in = d.in /\ e.stack = d.stack
            /\ e.cmd = d.cmd /\ e.backup = d.backup /\ e.holds = d.holds /\ e.out = d.out
            /\ e.late = d.late /\ e.origin = d.origin
        <5>1. d \in Process
          BY <3>2 DEF d
        <5> QED
          BY <5>1 DEF Process
      <4>4. new = e
        BY DEF d
      <4> HIDE DEF e
      <4> QED
        BY <4>1, <4>2, <4>3, <4>4 DEF d, e
    <3> HIDE DEF mid, new
    <3> QED
      BY <1>1, <1>3, <2>2, <3>1, <3>4 DEF Tables
  <2> QED
    BY <2>1, <2>2
<1> HIDE DEF mid
<1>6. /\ ps \in Tables /\ ps[p] = [mid[p] EXCEPT !.late = Early(p)]
      /\ \A y \in Pids : y # p => ps[y] = mid[y]
  <2>1. [mid[p] EXCEPT !.late = Early(p)] \in Process
    <3>1. mid[p] \in Process /\ Early(p) \in BOOLEAN
      BY <1>4, <1>5
    <3> QED
      BY <3>1 DEF Process
  <2> QED
    BY <1>5, <2>1 DEF Tables
<1> HIDE DEF ps
<1>7. ASSUME NEW y \in Pids
      PROVE  /\ ps[y] \in Process
             /\ ps[y].at = mid[y].at /\ ps[y].state = mid[y].state
             /\ ps[y].parent = mid[y].parent /\ ps[y].origin = mid[y].origin
             /\ ps[y].job = mid[y].job /\ ps[y].target = mid[y].target
             /\ ps[y].in = mid[y].in /\ ps[y].stack = mid[y].stack
             /\ ps[y].cmd = mid[y].cmd /\ ps[y].backup = mid[y].backup
             /\ ps[y].holds = mid[y].holds /\ ps[y].out = mid[y].out
             /\ ps[y].late = IF y = p THEN Early(p) ELSE mid[y].late
  <2>1. mid[y] \in Process /\ ps[y] \in Process
    BY <1>5, <1>6 DEF Tables
  <2> QED
    BY <1>6, <2>1 DEF Process
<1>8. WaitedTable(p) = ps
  BY DEF WaitedTable, ps, mid, t
<1> QED
  BY <1>3, <1>4, <1>5, <1>6, <1>7, <1>8 DEF t

LEMMA WaitedSound ==
    ASSUME Sound(proc), NEW p \in Pids, Waitid(p)
    PROVE  /\ Sound(WaitedTable(p))
           /\ NoHeld(WaitedTable(p), p)
           /\ \A y \in Pids : Settled(proc, y) => Settled(WaitedTable(p), y)
<1> DEFINE ps == WaitedTable(p)
           t == proc[p].target
<1>1. proc[p].at = "wait"
  BY DEF Waitid, Running
<1>2. ps \in Tables /\ t \in Pids
  BY WaitidIs
<1>3. ASSUME NEW y \in Pids
      PROVE  /\ ps[y].at = proc[y].at /\ ps[y].state = proc[y].state
             /\ ps[y].parent = proc[y].parent
             /\ ps[y].job = proc[y].job /\ ps[y].target = proc[y].target
             /\ ps[y].in = proc[y].in /\ ps[y].stack = proc[y].stack
             /\ ps[y].late = IF y = p THEN Early(p) ELSE proc[y].late
             /\ \/ ps[y].origin = proc[y].origin
                \/ proc[y].origin = "foreground" /\ ps[y].origin = "background"
             /\ ps[y].origin = "foreground" => proc[y].origin = "foreground"
             /\ y = t /\ proc[t].parent = p => ps[y].origin # "foreground"
  <2>1. proc[t] \in Process
    BY <1>2, At
  <2>2. /\ Detached(proc[t]).origin = IF proc[t].origin = "foreground"
                                      THEN "background" ELSE proc[t].origin
    BY <2>1, DetachedType
  <2>3. /\ ps[y].at = proc[y].at /\ ps[y].state = proc[y].state
        /\ ps[y].parent = proc[y].parent
        /\ ps[y].job = proc[y].job /\ ps[y].target = proc[y].target
        /\ ps[y].in = proc[y].in /\ ps[y].stack = proc[y].stack
        /\ ps[y].late = IF y = p THEN Early(p) ELSE proc[y].late
        /\ ps[y].origin = IF y = t /\ proc[t].parent = p
                          THEN Detached(proc[t]).origin ELSE proc[y].origin
    BY WaitidIs
  <2> HIDE DEF ps, t
  <2> QED
    BY <2>2, <2>3
<1> HIDE DEF ps
<1>4. \A y \in Pids : EntryOK(ps[y])
  BY <1>3 DEF Sound, EntryOK
<1>5. \A y \in Pids : HeldOK(ps, y)
  BY <1>3 DEF Sound, HeldOK
<1>6. \A y \in Pids : Settled(proc, y) => Settled(ps, y)
  BY <1>3 DEF Settled
<1>7. \A y \in Pids : IdleOK(ps, y)
  BY <1>1, <1>3, <1>6 DEF Sound, IdleOK
<1>8. Sound(ps)
  BY <1>2, <1>4, <1>5, <1>7 DEF Sound
<1>9. NoHeld(ps, p)
  BY <1>3 DEF Sound, HeldOK, NoHeld
<1> QED
  BY <1>6, <1>8, <1>9 DEF ps

\* What a process that leaves waitid has waited for is not held by it any more, and it is
\* settled unless a SIGCONT is still to come.
LEMMA WaitidSound ==
    ASSUME Sound(proc), NEW p \in Pids, Waitid(p)
    PROVE  Sound(proc')
<1> DEFINE t == proc[p].target
           ps == WaitedTable(p)
<1>1. proc \in Tables /\ proc[p] \in Process /\ EntryOK(proc[p])
  BY At
<1>2. proc[p].at = "wait" /\ proc[p].state = "running"
  BY DEF Waitid, Running
<1>3. t \in Pids /\ proc[t] \in Process
  BY <1>1, <1>2 DEF EntryOK, Tables
<1>4. Reported(t) \/ Fails(p, t)
  BY WaitidIs
<1>5. proc' = Returned(ps, p)
  BY WaitidIs
<1>6. ASSUME NEW y \in Pids
      PROVE  /\ ps[y].at = proc[y].at /\ ps[y].state = proc[y].state
             /\ ps[y].job = proc[y].job
             /\ y = p => ps[y].late = Early(p)
  BY WaitidIs
<1> HIDE DEF t
<1> HIDE DEF ps
<1>7. /\ Sound(ps) /\ NoHeld(ps, p)
      /\ \A y \in Pids : Settled(proc, y) => Settled(ps, y)
  BY WaitedSound DEF ps
<1>9. ps[p].job # init => ps[p].late \/ Settled(ps, p)
  <2> SUFFICES ASSUME proc[p].job # init, ~Early(p) PROVE Settled(ps, p)
    BY <1>6
  <2>1. proc[p].job = t
    BY <1>2 DEF Sound, IdleOK, t
  <2>2. proc[t].parent = p /\ \A h \in Pids : proc[h].parent = p => proc[h].at # "helper"
    BY DEF Early, Children, t
  <2>3. proc[t].state \in {"stopped", "zombie"}
    BY <1>4, <2>2 DEF Reported, Fails
  <2>4. Settled(proc, p)
    BY <1>3, <2>1, <2>2, <2>3 DEF Settled
  <2> QED
    BY <1>7, <2>4
<1>10. Sound(Returned(ps, p))
  BY <1>2, <1>6, <1>7, <1>9, ReturnedSound
<1> QED
  BY <1>5, <1>10

LEMMA WaitAnySound ==
    ASSUME Sound(proc), NEW p \in Pids, WaitAny(p)
    PROVE  Sound(proc')
<1>1. proc \in Tables /\ proc[p].at = "any" /\ proc[p].state = "running"
  BY At DEF WaitAny, Running
<1>2. CASE proc' = Returned(proc, p)
  BY <1>1, <1>2, CommandReturns
<1>3. ASSUME NEW z \in Pids, proc[z].state = "zombie",
             proc' = Returned(Released([proc EXCEPT ![z] = NoProcess], z, init), p)
      PROVE  Sound(proc')
  <2> DEFINE mid == [proc EXCEPT ![z] = NoProcess]
             ps == Released(mid, z, init)
  <2>1. Sound(ps)
    BY <1>3, CollectedSound
  <2>2. ps[p].at = "any" /\ ps[p].state = "running"
    <3>1. mid[p] = proc[p] /\ mid[p] \in Process
      BY <1>1, <1>3 DEF Tables
    <3> HIDE DEF mid
    <3> QED
      BY <1>1, <3>1 DEF Released, Process
  <2> HIDE DEF ps
  <2> QED
    BY <1>3, <2>1, <2>2, CommandReturns DEF ps
<1> QED
  BY <1>2, <1>3 DEF WaitAny, Children

LEMMA WorldSound ==
    ASSUME Sound(proc), NEW p \in Pids,
           Ends(p) \/ StoppedFromOutside(p) \/ ContinuedFromOutside(p)
    PROVE  Sound(proc')
<1>1. CASE Ends(p)
  BY <1>1, ExitedSound DEF Ends
<1>2. CASE StoppedFromOutside(p)
  BY <1>2, StoppedSound DEF StoppedFromOutside
<1>3. CASE ContinuedFromOutside(p)
  BY <1>3, ResumedSound, ShellConstants DEF ContinuedFromOutside
<1> QED
  BY <1>1, <1>2, <1>3

LEMMA ShellSignalledSound ==
    ASSUME Sound(proc), NEW p \in Pids, ShellStopped(p) \/ ShellKilled(p)
    PROVE  Sound(proc')
BY StoppedSound, ExitedSound DEF ShellStopped, ShellKilled

-----------------------------------------------------------------------------
(* The invariant of the specification. *)

LEMMA CodeSound ==
    ASSUME Sound(proc), NEW p \in Pids, Code(p) \/ World(p)
    PROVE  Sound(proc')
BY EndsSound, PauseSound, ResumeSound, MyBgSound, MyFgSound, HelperSound, ScriptSound,
   CompleteSound, PlayAlarmSound, EchoLineSound, RunProgramSound, ChildSound, ExecuteSound,
   WaitAnySound, WorldSound DEF Code, World

SoundTables == TypeOK /\ Sound(proc)

LEMMA StepSound == SoundTables /\ [Next]_vars => SoundTables'
<1> SUFFICES ASSUME TypeOK, Sound(proc), [Next]_vars PROVE TypeOK' /\ Sound(proc')
  BY DEF SoundTables
<1>1. /\ tty \in {"cooked", "raw"} /\ shared \in BOOLEAN /\ typed \in 0 .. MaxLines
      /\ MaxLines \in Nat
  BY ShellConstants DEF TypeOK
<1>2. ASSUME NEW p \in Pids, ShowPrompt(p)
      PROVE  Sound(proc') /\ tty' \in {"cooked", "raw"} /\ shared' \in BOOLEAN
             /\ typed' = typed
  BY <1>1, <1>2, ShowPromptSound DEF ShowPrompt
<1>3. ASSUME NEW p \in Pids, ReadLine(p)
      PROVE  /\ Sound(proc') /\ tty' \in {"cooked", "raw"} /\ shared' = shared
             /\ typed' \in 0 .. MaxLines
  <2>1. proc[p].backup \in {"cooked", "raw"}
    BY At DEF Process
  <2> QED
    BY <1>1, <1>3, <2>1, ReadSound DEF ReadLine
<1>4. ASSUME NEW p \in Pids, ReadNothing(p) \/ EndOfInput(p)
      PROVE  Sound(proc') /\ tty' = tty /\ shared' \in BOOLEAN /\ typed' = typed
  BY <1>1, <1>4, ReadSound, EndsSound DEF ReadNothing, EndOfInput
<1>5. ASSUME NEW p \in Pids, Code(p) \/ World(p)
      PROVE  Sound(proc') /\ UNCHANGED <<tty, shared, typed>>
  BY <1>5, CodeSound DEF Code, World
<1>6. CASE UNCHANGED vars
  BY <1>6 DEF vars, TypeOK, Sound, HeldOK, IdleOK, Settled
<1>9. ASSUME NEW p \in Pids, CrashingLine(p) \/ ShellStopped(p) \/ ShellKilled(p)
      PROVE  /\ Sound(proc') /\ tty' = tty /\ shared' \in BOOLEAN
             /\ typed' \in 0 .. MaxLines
  <2>1. Sound(proc')
    BY <1>9, EndsSound, ShellSignalledSound
  <2>2. tty' = tty /\ shared' \in BOOLEAN /\ typed' = typed + 1 /\ typed < MaxLines
    BY <1>1, <1>9 DEF CrashingLine, ShellStopped, ShellKilled
  <2> QED
    BY <1>1, <2>1, <2>2
<1>10. ASSUME NEW p \in Pids, Waitid(p)
       PROVE  Sound(proc') /\ tty' = tty /\ shared' \in BOOLEAN /\ typed' = typed
  BY <1>1, <1>10, WaitidSound DEF Waitid
<1>7. /\ Sound(proc') /\ tty' \in {"cooked", "raw"} /\ shared' \in BOOLEAN
      /\ typed' \in 0 .. MaxLines
  BY <1>1, <1>2, <1>3, <1>4, <1>5, <1>6, <1>9, <1>10 DEF Next, vars, TypeOK
<1>8. Sound(proc') => proc' \in [Pids -> Process]
  BY DEF Sound, Tables
<1> QED
  BY <1>7, <1>8 DEF TypeOK

LEMMA SoundAlways == Spec => []SoundTables
<1>1. Init => SoundTables
  BY InitialTypes, InitiallySound DEF SoundTables
<1> QED
  BY <1>1, StepSound, PTL DEF Spec

\* Every variable keeps its type, whatever the user types and whatever ends or is stopped.
THEOREM TypeCorrect == Spec => []TypeOK
<1>1. SoundTables => TypeOK
  BY DEF SoundTables
<1> QED
  BY <1>1, SoundAlways, PTL

\* A shell left behind by an unknown command in the foreground has a parent that waits for
\* it, until that parent is told of its stop or is gone; a process that reads from a pipe
\* never prompts.  For any lines, any signals to any process and any number of nested shells.
THEOREM HeldShellsHold == Spec => []HeldShells
<1>1. SoundTables => HeldShells
  <2> SUFFICES ASSUME Sound(proc), NEW p \in Pids, proc[p].at \in {"main", "prompt"}
               PROVE  /\ proc[p].origin \in {"root", "foreground", "background", "stage"}
                      /\ proc[p].in \notin Pipes
                      /\ proc[p].origin = "foreground" =>
                            proc[proc[p].parent].at = "wait" /\ proc[proc[p].parent].target = p
    BY DEF SoundTables, HeldShells, Shells
  <2>1. proc[p] \in Process /\ EntryOK(proc[p])
    BY At
  <2>2. proc[p].origin \in {"root", "foreground", "background", "stage"}
    BY <2>1 DEF Process, EntryOK
  <2>3. proc[p].in \notin Pipes
    <3>1. ~Leaves(<<>>)
      BY DEF Leaves
    <3> QED
      BY <2>1, <3>1 DEF EntryOK
  <2>4. proc[p].origin = "foreground" =>
           proc[proc[p].parent].at = "wait" /\ proc[proc[p].parent].target = p
    BY DEF Sound, HeldOK
  <2> QED
    BY <2>2, <2>3, <2>4
<1> QED
  BY <1>1, SoundAlways, PTL

\* A shell that prompts has nothing running in the foreground: what it waited for has
\* ended or is stopped, unless the SIGCONT of myfg was still to come.
THEOREM IdleAtPrompt == Spec => []PromptMeansIdle
<1>1. SoundTables => PromptMeansIdle
  BY DEF SoundTables, Sound, IdleOK, Settled, PromptMeansIdle, Shells
<1> QED
  BY <1>1, SoundAlways, PTL
===============================================================================
