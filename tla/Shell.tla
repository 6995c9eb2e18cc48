------------------------------- MODULE Shell -------------------------------
(***************************************************************************)
(* Command execution and job control of the shell,                         *)
(* src/Project1/shellgibi.c.  A process that runs this file is at a place  *)
(* in process_command; what the callers of process_command do when it      *)
(* returns is on its stack, which a forked child has a copy of.  Editing   *)
(* and parsing of a line are left out: a line is what they hand over.      *)
(* An operator introduced as a fault is no part of Next.                   *)
(***************************************************************************)
EXTENDS Naturals, Sequences, FiniteSets

CONSTANTS
    Pids,      \* the process ids there are
    root,      \* the one of the shell the user started
    init,      \* no process of ours: the parent of those whose parent has ended
    Pipes,     \* the pipes there may be at a time
    Lines,     \* the command lines the user types
    Garbage,   \* what command->background may be in memory fresh from malloc
    MaxLines   \* bound: the lines the user types in all, and the signals shells get

Streams == {"tty", "file"} \cup Pipes

\* The commands process_command knows itself, programs that are found, names that are
\* not, and names too long for the buffers they are copied to.
Names == {"prog", "missing", "overlong", "exit", "pause", "mybg", "myfg", "alarm", "gitUserCheck",
          "bbc", "psvis", "psvis2", "complete"}

\* struct command_t: the commands along next, the flag of the first, and whether the line
\* ends with &.
Stages == [name : Names, from : {"none", "file"}, to : {"none", "file"}]
Commands == [stages : Seq(Stages), background : BOOLEAN, amp : BOOLEAN]

ASSUME ShellConstants ==
    /\ root \in Pids /\ init \notin Pids
    /\ Pipes \cap {"tty", "file"} = {}
    /\ \A line \in Lines : line \in Commands /\ line.stages # <<>>
    /\ Garbage \subseteq BOOLEAN /\ MaxLines \in Nat

VARIABLES
    proc,    \* the process table
    tty,     \* the mode of the terminal they share
    shared,  \* history: a shell prompted beside its parent, its parent went on before it, or
             \* it ended where it might have left the terminal in the mode of the prompt
    typed    \* the lines typed, and the signals to shells

vars == <<proc, tty, shared, typed>>

Command(stages, amp) == [stages |-> stages, background |-> amp, amp |-> amp]
Call(name) == [name |-> name, from |-> "none", to |-> "none"]
NoCommand == Command(<<>>, FALSE)
Renamed(cmd, name) == [cmd EXCEPT !.stages[1].name = name]

\* What follows a call of process_command, other than the loop of main.
Frame(do, cmd, pipe) == [do |-> do, cmd |-> cmd, pipe |-> pipe]
ExitFrame == Frame("exit", NoCommand, "tty")
RunFrame(cmd) == Frame("run", cmd, "tty")
CrontabFrame(pipe) == Frame("crontab", NoCommand, pipe)

\* An unused entry.
NoProcess ==
    [state |-> "none", parent |-> init, origin |-> "none", at |-> "nowhere",
     cmd |-> NoCommand, stack |-> <<>>, target |-> init, unreported |-> FALSE,
     holds |-> {}, in |-> "tty", out |-> "tty", backup |-> "cooked",
     job |-> init, late |-> FALSE]

Zombie(dad) == [NoProcess EXCEPT !.state = "zombie", !.parent = dad]

Init ==
    /\ tty = "cooked" /\ shared = FALSE /\ typed = 0
    /\ proc = [p \in Pids |->
              IF p = root THEN [NoProcess EXCEPT !.state = "running", !.origin = "root",
                                                 !.at = "main"]
                          ELSE NoProcess]

Running(p, place) == proc[p].state = "running" /\ proc[p].at = place

-----------------------------------------------------------------------------
(* What the system calls do to a process table ps. *)

Free(ps) == {q \in Pids : ps[q].state = "none"}
Fresh(ps) == CHOOSE q \in Pids : ps[q].state = "none"

Children(ps, p) == {q \in Pids : ps[q].parent = p}

\* fork(): a copy of its parent with these differences.
Forked(ps, p, q, origin, place) ==
    [ps EXCEPT ![q] = [ps[p] EXCEPT !.parent = p, !.origin = origin, !.at = place,
                                    !.job = init, !.late = FALSE]]

\* History: nobody waits for r any longer.
Detached(r) == [r EXCEPT !.origin = IF @ = "foreground" THEN "background" ELSE @]

\* exit(): a zombie until the parent waits for it; its own children go to init, which
\* collects them when they have ended; nobody waits for them.  Every pipe end is closed.
Exited(ps, p) ==
    [q \in Pids |->
        CASE q = p                    -> IF ps[p].parent = init THEN NoProcess
                                         ELSE Zombie(ps[p].parent)
          [] q \in Children(ps, p) \ {p} -> IF ps[q].state = "zombie" THEN NoProcess
                                         ELSE [Detached(ps[q]) EXCEPT !.parent = init]
          [] OTHER                    -> ps[q]]

\* kill(t, SIGSTOP) and kill(t, SIGCONT).  A stop is reported once, to a waiting parent,
\* and no longer after SIGCONT.
Stopped(ps, t) ==
    IF ps[t].state = "running"
    THEN [ps EXCEPT ![t].state = "stopped", ![t].unreported = TRUE] ELSE ps
Continued(ps, t) ==
    IF ps[t].state = "stopped"
    THEN [ps EXCEPT ![t].state = "running", ![t].unreported = FALSE] ELSE ps

\* History: t runs because somebody wants it to; it is the foreground job of by at most.
Released(ps, t, by) ==
    [p \in Pids |-> IF ps[p].job = t /\ p # by THEN [ps[p] EXCEPT !.job = init] ELSE ps[p]]

Writers(pipe) == {p \in Pids : <<pipe, "w">> \in proc[p].holds}
Readers(pipe) == {p \in Pids : <<pipe, "r">> \in proc[p].holds}
Unused == {pipe \in Pipes : Writers(pipe) = {} /\ Readers(pipe) = {}}

\* p becomes another program: what it held of this one is gone, not so its streams.
Execed(ps, p) == [ps EXCEPT ![p].at = "program", ![p].stack = <<>>, ![p].target = init]

\* process_command returns, to main or to the caller on top of the stack.
Returned(ps, p) ==
    LET top == Head(ps[p].stack)
    IN  CASE ps[p].stack = <<>> ->
               [ps EXCEPT ![p].at = "main", ![p].cmd = NoCommand, ![p].target = init]
          [] ps[p].stack # <<>> /\ top.do = "exit" -> Exited(ps, p)
          [] ps[p].stack # <<>> /\ top.do = "crontab" ->
               Execed([ps EXCEPT ![p].holds = @ \ {<<top.pipe, "w">>}, ![p].in = top.pipe], p)
          [] ps[p].stack # <<>> /\ top.do = "run" ->
               [ps EXCEPT ![p].at = "command", ![p].cmd = top.cmd, ![p].target = init,
                          ![p].stack = Tail(@)]

-----------------------------------------------------------------------------
(* main and the commands process_command knows. *)

Called(p, names) == Running(p, "command") /\ Head(proc[p].cmd.stages).name \in names

\* prompt: the terminal, if it is the input, is put into a mode of its own, and back when
\* the line is read.
Reads(p, line) ==
    proc' = [proc EXCEPT ![p].at = "command", ![p].cmd = line, ![p].job = init,
                         ![p].late = FALSE]

ShowPrompt(p) ==
    /\ Running(p, "main")
    /\ \/ /\ proc[p].in = "tty"
          /\ proc' = [proc EXCEPT ![p].at = "prompt", ![p].backup = tty]
          /\ tty' = "raw"
       \/ /\ proc[p].in # "tty"
          /\ proc' = [proc EXCEPT ![p].at = "prompt"]
          /\ UNCHANGED tty
    /\ shared' = (shared \/ proc[p].origin \notin {"root", "foreground"})
    /\ UNCHANGED typed

\* A fault: the mode is put back only before the next prompt.
ReadLineRaw(p) ==
    /\ Running(p, "prompt") /\ proc[p].in = "tty" /\ typed < MaxLines
    /\ typed' = typed + 1
    /\ \E line \in Lines : Reads(p, line)
    /\ UNCHANGED <<tty, shared>>

ReadLine(p) ==
    /\ Running(p, "prompt") /\ proc[p].in = "tty" /\ typed < MaxLines
    /\ typed' = typed + 1
    /\ tty' = proc[p].backup
    /\ \E line \in Lines : Reads(p, line)
    /\ UNCHANGED shared

\* An end of file is no end for getchar's caller: the buffer fills with it.
ReadNothing(p) ==
    /\ Running(p, "prompt") /\ proc[p].in # "tty"
    /\ Reads(p, Command(<<Call("overlong")>>, FALSE))
    /\ UNCHANGED <<tty, shared, typed>>

\* Ctrl+D: prompt returns at once, main ends.
EndOfInput(p) ==
    /\ Running(p, "prompt") /\ proc[p].in = "tty"
    /\ proc' = Exited(proc, p)
    /\ shared' = TRUE
    /\ UNCHANGED <<tty, typed>>

\* parse_command asks for the length of the first word before it knows that there is one,
\* and copies the others to a buffer: a line without a word is the end of the shell, one
\* with a long word may be.  The terminal is not put back.
CrashingLine(p) ==
    /\ Running(p, "prompt") /\ proc[p].in = "tty" /\ typed < MaxLines
    /\ typed' = typed + 1
    /\ proc' = Exited(proc, p)
    /\ shared' = TRUE
    /\ UNCHANGED tty

\* exit; and a job command without an argument, which takes one nobody has set: this may
\* be the end of the shell as well.
Exit(p) == Called(p, {"exit", "pause", "mybg", "myfg"}) /\ proc' = Exited(proc, p)

\* kill takes any id: of a program, another shell, the shell itself, or out of date.  Who
\* stops itself does so in kill and returns from there.
Pause(p) ==
    /\ Called(p, {"pause"})
    /\ \/ \E t \in Pids \ {p} : proc' = Returned(Stopped(proc, t), p)
       \/ proc' = [Stopped(proc, p) EXCEPT ![p].at = "kill"]

Resume(p) == Running(p, "kill") /\ proc' = Returned(proc, p)

MyBg(p) ==
    /\ Called(p, {"mybg"})
    /\ \E t \in Pids : proc' = Returned(Released(Continued(proc, t), t, init), p)

\* A child is to send SIGCONT while the parent already waits; without a child, exit(1).
MyFg(p) ==
    /\ Called(p, {"myfg"})
    /\ IF Free(proc) = {} THEN proc' = Exited(proc, p)
       ELSE \E t \in Pids :
              LET q == Fresh(proc)
                  ps == Forked(proc, p, q, "helper", "helper")
              IN  proc' = [ps EXCEPT ![q].target = t, ![q].cmd = NoCommand, ![q].stack = <<>>,
                                     ![p].at = "wait", ![p].target = t, ![p].job = t,
                                     ![p].cmd = NoCommand]

\* A fault: the child goes on after its signal.
HelperReturning(q) ==
    /\ Running(q, "helper")
    /\ LET t == proc[q].target
       IN  proc' = Returned(Released(Continued(proc, t), t, proc[q].parent), q)

Helper(q) ==
    /\ Running(q, "helper")
    /\ LET t == proc[q].target
       IN  proc' = Exited(Released(Continued(proc, t), t, proc[q].parent), q)

\* The scripts are run as a line of their own: once and then exit, or twice.  python is taken
\* to be installed, as are the crontab, gcc, ls and ps that others run.
GitUserCheck(p) ==
    /\ Called(p, {"gitUserCheck"})
    /\ proc' = [proc EXCEPT ![p].cmd = Renamed(@, "prog"), ![p].stack = <<ExitFrame>> \o @]

Bbc(p) ==
    /\ Called(p, {"bbc"})
    /\ LET python == Renamed(proc[p].cmd, "prog")
       IN  proc' = [proc EXCEPT ![p].cmd = python, ![p].stack = <<RunFrame(python)>> \o @]

\* Two lines each; the buffer one of them is put together in is not cleared before, so
\* its first word may be a name there is no program for.
Psvis(p) ==
    /\ Called(p, {"psvis"})
    /\ \E name \in {"prog", "missing"} :
          proc' = [proc EXCEPT
                     ![p].cmd = Command(<<Call(name)>>, FALSE),
                     ![p].stack = <<RunFrame(Command(<<Call("prog")>>, FALSE))>> \o @]

Psvis2(p) ==
    /\ Called(p, {"psvis2"})
    /\ \E name \in {"prog", "missing"} :
          proc' = [proc EXCEPT
                     ![p].cmd = Command(<<Call("prog")>>, FALSE),
                     ![p].stack = <<RunFrame(Command(<<Call(name), Call("prog")>>, FALSE))>> \o @]

\* auto_complete: the children popen starts, two and more, are never waited for, and popen
\* fails when they fill the process table; a name that is complete runs ls.  A path outside
\* the current directory starts nothing.
Complete(p) ==
    /\ Called(p, {"complete"})
    /\ \/ proc' = Returned(proc, p)
       \/ proc' = Exited(proc, p)
       \/ /\ Free(proc) # {}
          /\ LET ps == [proc EXCEPT ![Fresh(proc)] = Zombie(p)]
             IN  \/ proc' = Returned(ps, p)
                 \/ proc' = [ps EXCEPT ![p].cmd = Command(<<Call("prog")>>, FALSE)]

\* play_alarm: the child that sets the alarm, and the shell that waits for any child.
PlayAlarm(p) ==
    /\ Called(p, {"alarm"})
    /\ IF Free(proc) = {} THEN proc' = Exited(proc, p)
       ELSE LET q == Fresh(proc)
                ps == Forked(proc, p, q, "alarm", "alarm")
            IN  proc' = [ps EXCEPT ![q].cmd = NoCommand, ![p].at = "any", ![p].cmd = NoCommand]

\* The alarm's child: echo writes the line for crontab into a pipe.
EchoLine(q) ==
    /\ Running(q, "alarm")
    /\ IF Unused = {} THEN proc' = Exited(proc, q)
       ELSE LET pipe == CHOOSE u \in Unused : TRUE
                both == [proc EXCEPT ![q].holds = @ \cup {<<pipe, "r">>, <<pipe, "w">>},
                                     ![q].at = "any", ![q].stack = <<CrontabFrame(pipe)>> \o @]
            IN  IF Free(proc) = {} THEN proc' = both
                ELSE LET e == Fresh(proc)
                         ps == Forked(both, q, e, "alarm", "program")
                     IN  proc' = [ps EXCEPT ![e].holds = @ \ {<<pipe, "r">>},
                                            ![e].out = pipe, ![e].stack = <<>>]

-----------------------------------------------------------------------------
(* Programs. *)

\* Every other line is forked; the shell waits unless the line is in the background.
RunProgram(p) ==
    /\ Called(p, {"prog", "missing", "overlong"})
    /\ IF Free(proc) = {} THEN proc' = Returned(proc, p)
       ELSE LET q == Fresh(proc)
                background == proc[p].cmd.background
                ps == Forked(proc, p, q, IF background THEN "background" ELSE "foreground",
                             "child")
            IN  proc' = IF background THEN Returned(ps, p)
                        ELSE [ps EXCEPT ![p].at = "wait", ![p].target = q, ![p].job = q,
                                        ![p].cmd = NoCommand]

\* A fault: a descriptor is replaced whether or not a file was opened.
RedirectedAlways(ps, q) ==
    LET first == Head(ps[q].cmd.stages)
    IN  [ps EXCEPT ![q].in = first.from, ![q].out = first.to]

\* <, > and >>.  What is replaced stays so for the commands behind.
Redirected(ps, q) ==
    LET first == Head(ps[q].cmd.stages)
    IN  [ps EXCEPT ![q].in = IF first.from = "file" THEN "file" ELSE @,
                   ![q].out = IF first.to = "file" THEN "file" ELSE @]

\* Faults: w keeps the reading end as well; w does its own redirection last.
WritingBoth(ps, w, pipe) ==
    [ps EXCEPT ![w].holds = @ \cup {<<pipe, "r">>, <<pipe, "w">>}, ![w].out = pipe]
WritingRedirected(ps, w, pipe) ==
    Redirected([ps EXCEPT ![w].holds = @ \cup {<<pipe, "w">>}, ![w].out = pipe], w)

\* w closes the reading end and writes into the pipe.
Writing(ps, w, pipe) == [ps EXCEPT ![w].holds = @ \cup {<<pipe, "w">>}, ![w].out = pipe]

\* A fault: q keeps the writing end as well.
ReadingBoth(ps, q, pipe) ==
    [ps EXCEPT ![q].holds = @ \cup {<<pipe, "r">>, <<pipe, "w">>}, ![q].in = pipe]

\* q closes the writing end and reads from the pipe.
Reading(ps, q, pipe) == [ps EXCEPT ![q].holds = @ \cup {<<pipe, "r">>}, ![q].in = pipe]

\* The child does the redirections.  With another command behind it, it makes a pipe and
\* forks: the new process is to execute this command into the pipe, the child itself
\* goes on with the line from the pipe, and exits.
Child(q) ==
    /\ Running(q, "child")
    /\ LET cmd == proc[q].cmd
           ps == Redirected(proc, q)
       IN  \/ /\ Len(cmd.stages) = 1
              /\ proc' = [ps EXCEPT ![q].at = "exec"]
           \/ /\ Len(cmd.stages) > 1 /\ (Free(proc) = {} \/ Unused = {})
              /\ proc' = Exited(ps, q)
           \/ /\ Len(cmd.stages) > 1 /\ Free(proc) # {} /\ Unused # {}
              /\ \E g \in Garbage :
                    LET w == Fresh(proc)
                        pipe == CHOOSE u \in Unused : TRUE
                        next == [stages |-> Tail(cmd.stages), background |-> cmd.amp \/ g,
                                 amp |-> cmd.amp]
                        both == Writing(Forked(ps, q, w, "stage", "exec"), w, pipe)
                    IN  proc' = [Reading(both, q, pipe) EXCEPT
                           ![q].at = "command", ![q].cmd = next,
                           ![q].stack = <<ExitFrame>> \o @]

\* execute_command: the program runs, or execv fails and the child exits, or there is no
\* such program and process_command returns in the child as well.  A name that is too
\* long may also be the end of the child.
Execute(q) ==
    /\ Running(q, "exec")
    /\ LET name == Head(proc[q].cmd.stages).name
       IN  \/ name = "prog" /\ proc' = Execed(proc, q)
           \/ name \in {"prog", "overlong"} /\ proc' = Exited(proc, q)
           \/ name \in {"missing", "overlong"} /\ proc' = Returned(proc, q)

\* What waitid with WSTOPPED looks for, and what makes it fail.
Reported(t) == proc[t].state = "stopped" /\ proc[t].unreported

\* Faults: with WNOHANG it would not wait; a process that has ended, which WEXITED would
\* wait for, is taken for one that may still stop.
AlwaysFails(p, t) == TRUE
FailsWithoutChild(p, t) == proc[t].parent # p

Fails(p, t) == proc[t].parent # p \/ proc[t].state = "zombie"

\* History: p goes on before t, which has not become a program.
LetGo(p, t) ==
    /\ proc[t].parent = p /\ proc[t].state = "stopped"
    /\ proc[t].origin = "foreground" /\ proc[t].at # "program"

\* A stop of a child is reported once, and its parent does not wait for it again.
Told(p, t) ==
    IF proc[t].parent = p THEN [proc EXCEPT ![t] = [Detached(@) EXCEPT !.unreported = FALSE]]
                          ELSE proc

\* waitid(P_PID, target, , WSTOPPED): it ends when a stop can be reported, and without
\* anything to report for a process that has exited or is no child.  Nothing is collected.
Waitid(p) ==
    /\ Running(p, "wait")
    /\ LET t == proc[p].target
           early == proc[t].parent # p \/ \E h \in Children(proc, p) : proc[h].at = "helper"
       IN  /\ Reported(t) \/ Fails(p, t)
           /\ proc' = Returned([Told(p, t) EXCEPT ![p].late = early], p)
           /\ shared' = (shared \/ LetGo(p, t))
    /\ UNCHANGED <<tty, typed>>

\* wait(NULL): any child that has ended is collected.
WaitAny(p) ==
    /\ Running(p, "any")
    /\ \/ Children(proc, p) = {} /\ proc' = Returned(proc, p)
       \/ \E z \in Children(proc, p) :
             /\ proc[z].state = "zombie"
             /\ proc' = Returned(Released([proc EXCEPT ![z] = NoProcess], z, init), p)

-----------------------------------------------------------------------------
(* The world outside. *)

\* A program ends, by itself or by a signal.
Ends(p) == Running(p, "program") /\ proc' = Exited(proc, p)

\* Signals from another terminal, to programs and to what still executes this file: SIGSTOP,
\* SIGCONT and those that end a process.  (The Ctrl+Z of the terminal is one for each of the
\* processes, in some order.)
StoppedFromOutside(p) == Running(p, "program") /\ proc' = Stopped(proc, p)
ContinuedFromOutside(p) ==
    proc[p].state = "stopped" /\ proc' = Released(Continued(proc, p), p, init)
ShellStopped(p) ==
    /\ proc[p].state = "running" /\ proc[p].at # "program" /\ typed < MaxLines
    /\ typed' = typed + 1
    /\ proc' = Stopped(proc, p)
    /\ UNCHANGED <<tty, shared>>
ShellKilled(p) ==
    /\ proc[p].state = "running" /\ proc[p].at # "program" /\ typed < MaxLines
    /\ typed' = typed + 1
    /\ proc' = Exited(proc, p)
    /\ shared' = TRUE
    /\ UNCHANGED tty

Code(p) ==
    /\ \/ Exit(p) \/ Pause(p) \/ MyBg(p) \/ MyFg(p) \/ Helper(p) \/ GitUserCheck(p) \/ Bbc(p)
       \/ Psvis(p) \/ Psvis2(p) \/ Complete(p) \/ PlayAlarm(p) \/ EchoLine(p)
       \/ RunProgram(p) \/ Child(p) \/ Execute(p) \/ Resume(p) \/ WaitAny(p)
    /\ UNCHANGED <<tty, shared, typed>>

World(p) ==
    /\ Ends(p) \/ StoppedFromOutside(p) \/ ContinuedFromOutside(p)
    /\ UNCHANGED <<tty, shared, typed>>

Next ==
    \E p \in Pids :
        \/ ShowPrompt(p) \/ ReadLine(p) \/ ReadNothing(p) \/ EndOfInput(p) \/ CrashingLine(p)
        \/ Code(p) \/ Waitid(p) \/ World(p) \/ ShellStopped(p) \/ ShellKilled(p)

Spec == Init /\ [][Next]_vars

\* A program ends whose input has ended or whose output nobody can read.
EndOfFile(p) == proc[p].in \in Pipes /\ Writers(proc[p].in) = {}
BrokenPipe(p) == proc[p].out \in Pipes /\ Readers(proc[p].out) = {}
Starved(p) == (EndOfFile(p) \/ BrokenPipe(p)) /\ Ends(p) /\ UNCHANGED <<tty, shared, typed>>

\* The scheduler runs the code of the shell, but nobody has to type, to stop or to end.
FairSpec ==
    Spec /\ \A p \in Pids : 
        /\ WF_vars(Code(p)) /\ WF_vars(Waitid(p)) /\ WF_vars(ShowPrompt(p))
        /\ WF_vars(Starved(p))

-----------------------------------------------------------------------------
(* Properties. *)

\* What an entry of the process table is made of.
Process ==
    [state : {"none", "running", "stopped", "zombie"}, parent : Pids \cup {init},
     origin : {"none", "root", "foreground", "background", "stage", "helper", "alarm"},
     at : {"nowhere", "main", "prompt", "command", "kill", "wait", "any", "helper", "alarm",
           "child", "exec", "program"},
     cmd : Commands, target : Pids \cup {init}, unreported : BOOLEAN,
     stack : Seq([do : {"exit", "run", "crontab"}, cmd : Commands, pipe : Streams]),
     holds : SUBSET (Pipes \X {"r", "w"}), in : Streams, out : Streams,
     backup : {"cooked", "raw"}, job : Pids \cup {init}, late : BOOLEAN]

\* Every field has its type.
TypeOK ==
    /\ tty \in {"cooked", "raw"} /\ shared \in BOOLEAN /\ typed \in 0 .. MaxLines
    /\ proc \in [Pids -> Process]

Shells == {p \in Pids : proc[p].at \in {"main", "prompt"}}
Programs == {p \in Pids : proc[p].at = "program"}

\* An unknown command leaves its process behind as another shell.  Whoever waits for the
\* command waits for that shell, until it ends itself or learns that the shell has stopped;
\* else only a command in the background or the first one of a pipeline leaves one that reads
\* the terminal beside its parent.  No other process of process_command, least of all one
\* that reads from a pipe, gets back to main.
HeldShells ==
    \A p \in Shells :
        /\ proc[p].origin \in {"root", "foreground", "background", "stage"}
        /\ proc[p].in \notin Pipes
        /\ proc[p].origin = "foreground" =>
              proc[proc[p].parent].at = "wait" /\ proc[proc[p].parent].target = p

\* What the shell ran last in the foreground, or took there, does not run while the shell
\* prompts for the next line.  The exception is a SIGCONT of myfg that came late, or a
\* process that is no child of this shell.
PromptMeansIdle ==
    \A p \in Shells :
        LET job == proc[p].job
        IN  job # init /\ proc[job].state = "running" => proc[p].late

\* The shell the user started and whom it waits for, whom those wait for, and so on: the
\* least set with root that these links do not leave.  Beside it a pipeline in the background
\* may wait as well, for the program that a myfg in it names.
InFront(p) ==
    \A S \in SUBSET Pids :
        root \in S /\ (\A s \in S : proc[s].at = "wait" => proc[s].target \in S) => p \in S

\* A program in the foreground finds the terminal as the user had it, however many shells
\* have prompted in between, one inside the other.
TerminalForPrograms ==
    \A p \in Pids :
        proc[p].at = "wait" /\ proc[p].target \in Programs /\ InFront(p) /\ ~shared
            => tty = "cooked"

\* Two lines have the same commands with the same redirections, whatever the first is called:
\* a script goes on as python.
SameCommands(s, t) ==
    /\ Len(s) = Len(t)
    /\ \A i \in 1 .. Len(t) : /\ i = 1 \/ s[i].name = t[i].name
                              /\ s[i].from = t[i].from /\ s[i].to = t[i].to

\* Every command of a line but the last writes into a pipe, and the program that reads
\* from this pipe executes the line behind it as it was typed.  (Behind a pipe these four
\* read it with every program they start, and psvis2 with a pipeline of its own.)
StartingOthers == {"alarm", "psvis", "psvis2", "complete"}

Plumbed ==
    \A p \in Programs :
        LET stages == proc[p].cmd.stages
        IN  Len(stages) > 1 =>
              /\ proc[p].out \in Pipes
              /\ (\A i \in 2 .. Len(stages) : stages[i].name \notin StartingOthers) =>
                    \A q \in Programs :
                        proc[q].in = proc[p].out => SameCommands(proc[q].cmd.stages, Tail(stages))

\* No processes wait for each other in a circle: for a child to stop or end, or for
\* everybody to close the pipe they read from.  (A shell left behind at the head of a
\* pipeline can make a circle: its user takes the reader of its own output to the front.)
WaitsFor(p) ==
    CASE proc[p].at = "wait" -> {proc[p].target} \cap Children(proc, p)
      [] proc[p].at = "any" -> Children(proc, p)
      [] proc[p].at = "program" /\ proc[p].in \in Pipes -> Writers(proc[p].in)
      [] OTHER -> {}

NoCircularWait == ~shared => \A S \in (SUBSET Pids) \ {{}} : \E p \in S : WaitsFor(p) \cap S = {}

\* If programs that read no pipe end, nothing stays or is stopped for ever and nested shells
\* are left, every shell that waits goes on: no way a pipeline ends leaves one hanging.
PromptReturns ==
    /\ \A p \in Pids : []<>~(Running(p, "program") /\ proc[p].in \notin Pipes)
    /\ \A p \in Pids : <>[](proc[p].state # "stopped")
    /\ \A p \in Pids \ {root} : <>[](p \notin Shells)
    => \A p \in Pids : []<>~(Running(p, "wait") \/ Running(p, "any"))

\* If nested shells are left, a program whose output nobody reads any more ends, even one
\* that would write for ever: nobody keeps the reading end of its pipe.
WritersEnd ==
    /\ \A p \in Pids : <>[](proc[p].state # "stopped")
    /\ \A p \in Pids \ {root} : []<>(proc[p].at \in {"program", "nowhere"})
    => \A pipe \in Pipes :
          <>[](\A p \in Programs : proc[p].in # pipe) => []<>(Writers(pipe) = {})

\* The shell waits until the process it takes to the foreground is stopped or has ended.
ForegroundIsHeld ==
    \A p \in Shells : proc[p].job # init => proc[proc[p].job].state # "running"
=============================================================================
