# COMP 304 projects: TLA+ models and proofs

The repository holds three independent course projects: an airport (`Project2`), a
disk (`Project3`) and a shell (`Project1`). This directory models all three, checks them
with TLC and proves theorems about all three with TLAPS.

## 1. Inventory

| Part | Source | State | Operations | What makes it correct |
|---|---|---|---|---|
| Airport: tower | `Project2/airport.cpp` 208-327 | its place in the `let_` functions | grant, wait 2 s, remove | one plane on the runway, emergencies first, nobody starves |
| Airport: planes | 93-150 | a queue slot, `completed_action` | push, wait for a broadcast, use the runway | no request lost, order of the queue kept |
| Airport: main | 381-464 | clock counters | initialise, create planes, end | a plane each second, an emergency each interval |
| Airport: reporter | 332-376 | last second reported | copy the queues under their mutexes | a report each second, copies taken undisturbed |
| Disk: directory table | `Project3/.../DT.java` | list of entries | add, update, remove, look up | agrees with the disk |
| Disk: contiguous | `ContinousAllocation.java` | disk, table | create, shrink, extend, access, defragment, move | files contiguous and disjoint, first fit, full use of the space |
| Disk: linked | `LinkedAllocation.java`, `FAT.java` | disk, FAT, table | create, shrink, extend, access | chains disjoint, as long as the table says, no block leaked |
| Shell: execution | `Project1/shellgibi.c` 313-771 | child processes, pipes, stopped jobs | fork, pipe, redirect, exec, wait, `pause`, `mybg`, `myfg`, `alarm`, the scripts | the shell waits for what runs in front and only for that; pipelines are connected as typed and end |
| Shell: line editing | `shellgibi.c` 102-311 | one command line, mode of the terminal | read, parse | the terminal is as it was when a program runs; the rest is string handling |
| Shell: psvis, draw | `psvis.c`, `draw.c` | none | print the process tree | output only |
| Shell: Python helpers | `gitUserCheck.py`, `parser.py` | none | fetch and print a page | output only |

*Interaction.* In the airport every thread shares the three queues. Each queue
has a mutex; the runway mutex belongs to the condition variables. The tower
broadcasts to the planes of one kind, sleeps 2 s, and pops the front of that
queue if its plane has completed its action. Planes test the front of their queue
under the runway mutex, not under the queue's. Main creates planes by the clock,
the reporter copies queues by the clock. In the disk simulator everything is
sequential: an input file is a list of operations, each scheme has its own disk,
and both use `DT`. The shell forks one child for a line; a child with another command
behind it makes a pipe and forks again, and goes on with the rest of the line itself.
Shell and children share the terminal; `pause`, `mybg` and `myfg` signal by process id.

*What is hard.* Double unlocks and a size test without the mutex in the tower;
wakeups that come late, early or not at all; emergencies in the middle of a
decision; clocks compared for equality; in the disk simulator, long sequences of
legal operations (moves, defragmentations, reuse of freed blocks) after which
table and disk must still agree; in the shell, children that return into `main` as
another shell, `waitid` that reports stops only, a signal sent by a child while the
parent already waits, pipe ends inherited from process to process, a full process
table. `PROJECT.json` lists these hazards line by line.

## 2. Modules

| Module | Models | Checked by |
|---|---|---|
| `ControlledRunway` | what the airport promises: lines, a permit, a user | refined by `Airport` |
| `Airport` | all threads of `airport.cpp` | 5 runs, `MCAirport` holds the symmetry sets |
| `AirportProofs` | theorems about `Airport` | TLAPS |
| `SimulationClock` | the two loops that read the clock | 1 run |
| `ClockProofs` | theorems about `SimulationClock` | TLAPS |
| `DirectoryTable` | operators of `DT.java` | through the two below |
| `DirectoryProofs` | lemmas about `DirectoryTable`, about least numbers and recursion | TLAPS |
| `ContinousAllocation` | contiguous allocation | 2 runs |
| `ContinousProofs` | theorems about `ContinousAllocation` | TLAPS |
| `BlockStore` | what a block allocator promises | refined by `LinkedAllocation` |
| `LinkedAllocation` | linked allocation with its FAT | 1 run |
| `LinkedProofs` | theorems about `LinkedAllocation`, its refinement of `BlockStore` among them | TLAPS |
| `Shell` | command execution and job control of `shellgibi.c` | 3 runs, `MCShell` holds the command lines |
| `ShellProofs` | theorems about `Shell` | TLAPS |
| `TerminalProofs` | the theorem about the terminal of `Shell` | TLAPS |
| `PipelineProofs` | theorems about the pipes of `Shell` and who waits for whom | TLAPS |

Operators commented as a fault are one plausible mistake in the definition below
them. They are not part of any `Next`; a property that would not notice them would
say nothing about the code.

### Airport

`queue` holds the three `std::queue`s, `tail` the slot a push has written before it
moves the end of the queue, `locked` the lock words that are set. A plane is
`idle`, then `start` (its thread runs), `written` and `pushed` (inside the push),
`ready`, `waiting` (in `pthread_cond_wait`), `woken` (wants the runway mutex back)
and `check` (holds it). `tower` is the function the tower runs, the place in it,
and whom `let_emergencies` returns to; the five functions share the actions
`Enter`, `Release`, `Broadcast`, `WakeUp`, `Remove`, `UnlockRemoved` and `Exit`,
and `Wanted`, `Serves` and `Guards` say how they differ. `passed` is a history
variable: the grants to others that a waiting landing plane or emergency has seen.

*Steps.* A step ends where another thread could see the difference: lock and test
is one step, as are lock, broadcast and unlock of the runway mutex, lock and pop,
and `pthread_mutex_lock` followed by the release inside `pthread_cond_wait`. A push
is two, because a double unlock can let another thread in between them.

*Mutexes.* They are default glibc mutexes: any thread's unlock clears the lock word.
`UnlockRemoved` and `Exit` unlock whether or not the mutex is held. The tower's
thread is created before the mutexes are initialised (428-434); `InitMutex` clears
what the tower may hold by then. The initialisation of the runway mutex and the
condition variables is left out (nobody waits on them yet), and so are the counting
mutexes and `all_planes_mutex`, which only the main thread takes.

*Inputs.* Any plane may be the next (the random draw), within what 438-439 allow. A
plane whose thread has ended stands for a new one later; ids of live planes differ in
the code too. `front()` of an empty queue or of an unset slot ends the process
(`main = "crashed"`). The pointers allocated with too small a size spill into memory
nobody uses; the text of log and reports, ids and times are not modelled.

*Assumptions as constants.* `SpacedArrivals`: a plane has pushed itself before the
next of its kind is created; ordinary planes are created a second apart and a push
takes microseconds. An emergency and an ordinary plane may arrive together, as they
do in the 40th second. The one case left out is that of the two initial planes both
landing (the draw at 439 does that once in a hundred) and pushing at the same
instant. An emergency is over before the next one 40 s later. `PromptWakeups`: no
spurious wakeups, and woken threads have tested the queue when the 2 s are over.
`FreshFlag`: what `completed_action` reads as in memory from `malloc`, taken as
`{FALSE}`. `Reporting`: the run lasts beyond the nth second.

### SimulationClock

`now` is the clock in seconds. `ReadClock` and `Create` are a turn of
`run_simulation`, `AwaitNth` and `Report` turns of `report_planes`. The loops spin
freely; `Tick` requires only that each has read the clock `MainTurns` or
`ReporterTurns` times in the second that ends.

### Directory and allocation

One line of an input file is one action; `operateOnFile` starts the next input file.
`access` changes nothing and is an operator. In `ContinousAllocation`, `defragment` goes
over the table in its order, and `PullFile` pulls a file's blocks one at a time into the
first free cell, exactly as the swaps do (the loops are recursive functions); `GrowByMoving`
is the second half of `extend` with its two defragmentations and the move. `aborted` records
the exception of `countFreeSpace(-1)`, which ends an input file. In `LinkedAllocation`,
`EmptyBoxes` is what repeated calls of `findFirstEmptyBox` find, and `Chain` the blocks a
loop along the FAT visits. Requests that change nothing (unknown ids, too little space) are
no steps. Counters of rejections, times, parsing of lines and `results.txt` are left out.
The inputs count ids, bytes and blocks from 1.

### Shell

`proc` is the process table. A process that runs `shellgibi.c` is `at` a place: `main`,
`prompt`, `command` (in `process_command`), `wait` (in `waitid`), `any` (in `wait`),
`child` and `exec` (the two halves of the child after the fork), `helper` (the child of
`myfg`), `alarm`, or `kill` (it has stopped itself with `pause` and returns from there when it
is continued); any other is a `program`. What callers of `process_command` do when it
returns is the `stack`, which fork copies: `exit` at 741 and 487, the second run of a
script (`run`), `crontab` after 538. With an empty stack it returns to `main`: that is how
the child of an unknown command (769-770) becomes a shell. `holds`, `in` and `out` are the
pipe ends and the streams 0 and 1. `job` (what ran last in the foreground), `late` (the wait
for it ended while a SIGCONT was still to come, or it was no child), `origin` and `shared`
are history. `origin` says what a process was forked for; a child in the foreground counts as
one in the background from the moment its parent has ended or been told of its stop
(`Detached`), because nobody waits for it again. `shared` records that the terminal may have
got out of one shell's hands: a shell prompted beside its parent, a parent went on before a
shell that was stopped (`LetGo`), or a shell ended where it might have left the terminal in
the mode of the prompt.

*The system.* A child that has exited is a zombie until its parent waits for it, and init
collects the children of those who have ended. `waitid(P_PID, pid, , WSTOPPED)` blocks while
the child runs, reports a stop once, and fails with ECHILD when the child has exited or
`pid` is no child; it never collects anything. SIGCONT takes back a stop that was not
reported. A pid may be used again. Programs end, stop and are continued at any time. Signals
from another terminal may stop, continue and end what runs the shell's code as well, at any
place (`ShellStopped`, `ContinuedFromOutside`, `ShellKilled`); Ctrl+Z and SIGINT from the
terminal are such signals to each of the processes in some order. `pause`, `mybg` and `myfg`
take any process id: a program's, another shell's, the shell's own, or one out of date. An
id that names a group (0, a negative one, what `atoi` makes of a word) is a series of
signals from outside. Without an argument they read one nobody has set, which may be the end
of the shell (`Exit`). A write into a pipe without a reader and a read from one without a
writer are not blocked for ever (`Starved`). `execv` may fail; `python`, `crontab`, `gcc`,
`ls` and `ps`, which the built-in commands run, are taken to be installed.

*Lines.* A command line is the list of its commands with their redirections and a flag for
`&`. Programs are `prog`, names nobody knows `missing`; `overlong` is a name longer than
the 500 characters of `exec_path` (459), with which anything may happen to the child. The
`command_t` of a later command is not cleared (153): its flag `background` is any member of
`Garbage`, its other fields are taken as zero. `cd` changes nothing here, `myjobs` runs `ps`.
A line without a word is the end of the shell: `parse_command` takes the length of a null
pointer (121) before it tests for it (122), inside `prompt`, so the terminal stays in the mode
of the prompt; a word longer than `temp_buf` (138) may have the same effect (`CrashingLine`).
The processes that `popen` starts (350-400) are one process that has ended; when one of the
calls fails, the shell ends (`Complete`).

*Input.* With the terminal as input a user types one of `Lines` or Ctrl+D. With a file or a
pipe the prompt reads EOF as a character until its buffer is full (`ReadNothing`).

## 3. Runs

| Run | Shows | Bounds |
|---|---|---|
| `airport_timed` | `OneOnRunway`, and `ControlledSpec`: the airport implements `ControlledRunway` | 1 landing, 2 departing, 1 emergency plane, limit 2, reporter on |
| `airport_untimed` | with late and spurious wakeups: `NoBadFront`, `WaitingIsQueued`, `OnlyFrontCompleted`, `EmergencyOvertakenOnce`, `LandingOvertakenTwice`, `TypeOK` | the same planes, reporter off |
| `airport_live` | `LandingServed`, `GroundRelieved` under fairness | 1 plane of each kind, limit 1 |
| `airport_double_unlock` | finding: `QueueMutexExclusion` fails | 1 plane of each kind, reporter on, mutexes initialised before the tower runs |
| `airport_late_wakeup` | finding: `OneOnRunway` fails when woken threads may be late | 1 plane of each kind |
| `clock_turns` | with two turns of main and one of the reporter in a second nothing is skipped | 9 s, interval 3, n = 3 |
| `contiguous_sound` | first fit, defragmentation, access, bounds, and what can corrupt | 6 blocks of 2 bytes, 4 creations |
| `contiguous_disjoint` | finding: an extension claims the next file's block | the same |
| `linked_sound` | table, disk and FAT agree; `StoreSpec` | 6 blocks of 16 bytes and 2 for the FAT, 4 creations |
| `shell_jobs` | `HeldShells`, `PromptMeansIdle`, `TerminalForPrograms`, `NoCircularWait`, `TypeOK` | 4 processes, 2 pipes, 3 lines out of 20 |
| `shell_pipes` | `Plumbed`, `PromptReturns`, `WritersEnd` under fairness | 6 processes, 2 pipes, 2 lines out of 6 |
| `shell_myfg` | finding: `ForegroundIsHeld` fails | 3 processes, 3 lines out of 3 |

*Why the bounds are enough.* Planes come back, so two departing planes and a limit of 2 give
every branch of the tower: a ground queue that is empty, below and at the limit, each with
and without landing planes and emergencies, and two planes of a kind in one queue. That is
said of the safety runs. In `airport_live` the limit is 1, so the branch of
`let_one_to_take_off` for a ground queue below its limit does not run there: with two
departing planes, a limit of 2 and the emergency TLC does not finish within 5 minutes.
Without the emergency it does, and finds both liveness properties to hold (57,648 states). A
disk of 6 blocks holds two files with a hole before, between and behind them and a third to
be moved; the four creations give every order of the table. `MaxFiles` bounds the ids,
nothing else is bounded. `clock_turns` contains a second in which emergency and plane are
due together and an end in such a second. Four processes are a shell, the child in the
middle, and both ends of a pipeline, and anything beside them meets a full process table;
three lines are a job, what is done to it, and the next line. A pipeline of three commands
needs the six processes of `shell_pipes`. `MaxLines` counts the lines of all shells together
and the signals that shells get from outside; what a shell without a terminal reads is not
counted. Deadlock is checked everywhere except in the clock run, where both loops end, and
in the shell runs, where the shell ends or has no line left to read.

*Fairness.* `FairSpec` asks strong fairness of the tower and of each plane and weak
fairness of the reporter. A thread that waits for a mutex finds it free again and
again but not for ever, hence strong fairness; nobody takes a mutex in a tight loop
(the tower sleeps, a plane locks once or twice, the reporter once a second), so the
scheduler gives it to the waiting thread in the end. Main owes nobody another plane.
Both liveness properties assume that emergencies stop: an endless stream of them
rightly keeps everybody else waiting.

For the shell, `FairSpec` asks weak fairness of its code, of showing the prompt, and of the
end of a program that is `Starved`; nobody has to type, to send signals, and no other
program has to end. A process that is ready is scheduled in the end, and no step of the
shell depends on a lock. `PromptReturns` assumes what the shell cannot help: programs that
read no pipe end, stops cease, and nested shells are left. It says that no combination of
ends, failures and stops in a pipeline, an `alarm` or a `myfg` leaves a shell waiting for
ever; `WritersEnd` that a writer without readers gets its SIGPIPE, as nobody else has kept
the reading end.

*What the safety runs of the shell say.* The shells that exist are the root, those whose
parent waits for them, those whose parent has ended or has learnt of their stop, and those
left behind by a command in the background or at the head of a pipeline (`HeldShells`).
`PromptMeansIdle` needs its exception: see finding 4. `TerminalForPrograms` and
`NoCircularWait` need `~shared`. Shells that prompt side by side mix up the mode of the
terminal, and so does a shell that a parent finds stopped and goes on before, when it comes
back; one left by Ctrl+D (296 returns without 309), by a line that crashes it (121) or by a
signal leaves its parent with the mode of the prompt; and the user of a shell left behind
may take the reader of its own output to the front. `TerminalForPrograms` speaks of the
program in front: the one that the root shell, or the shell the root waits for, and so on,
waits for (`InFront`). In `prog | myfg &` the reader of the pipeline waits for the program
that its `myfg` names as well, in the background, and that program finds the terminal as the
prompt has it. `Plumbed` compares what reads a pipe with the rest of the line: its names,
but for the first, which a script replaces by `python`, and all redirections. It leaves out
the readers of pipelines with `alarm`, `psvis`, `psvis2` or an auto-completion behind a
pipe: each of them starts several programs, which all read that pipe.

*What they do not say.* `PromptReturns` finds waits that never end. A wait that ends too early,
as `wait(NULL)` (547) may that finds another child than the alarm's, is in the model but breaks
no property; and the runs with fairness have few nested shells, as these properties assume that
they are left. `DefragmentCompacts` is about tables in disk order only, finding 3 is about the
others. `LinksSound` and `ChainsPartition` hold after the deletions that the reversed
comparison of `shrink` lets through, but nothing says how much a request should take away.

*With one turn of main in a second* `NoSecondMissed` fails: the emergency takes the
turn of a plane, the difference becomes 2, and no plane is ever created again.

## 4. Findings

1. `let_emergencies`, `let_one_to_take_off` and `let_one_to_land` unlock a mutex they
   do not hold; the mutexes do not protect the queues as 25-29 say. The queues stay
   sound all the same (`LinesHold`): planes of one kind arrive one at a time and only
   the tower pops.
2. The permission to use the runway is no state. A late or spurious wakeup of the
   first plane of a queue is taken for one.
3. Extending a file without room behind it overlaps the next file. From a sound table
   in disk order nothing else does (`OnlySqueezingCorrupts`). A table out of disk order
   is torn apart by `defragment` too.
4. `myfg` (609, 625) need not wait: it calls `waitid` before its child has sent SIGCONT.
   For a job that was stopped in the background the stop is still to be reported, `waitid`
   returns at once, and the job is continued beside the prompt.

Seen while modelling and in the model as they stand, without a run of their own:
`LinkedAllocation.shrink` (92) has its comparison the wrong way round and compares blocks
with bytes, so it ignores requests that fit and deletes the file on one that is too large
(the comment at 91 says the opposite); the first report of the airport is that of second
n+1, not of the nth (329, 339); in a pipeline the redirection of the first command also
holds for the last (715); `bbc` runs its script twice (640) and `gitUserCheck` ends the
shell (487); `<` opens its file for writing only (704: `O_RDONLY | O_WRONLY` is
`O_WRONLY`), so what reads it finds nothing; a line without a word ends the shell (121) and
leaves the terminal in the mode of the prompt, and when it was a nested shell, its parent's next
program runs in that mode; a nested shell that pauses itself (596) ends its parent's `waitid`
(763), and `mybg` (604) brings it back to prompt beside its parent.

## 5. Proofs

Every theorem holds for all values of the constants that satisfy the module's named
assumption (`AirportConstants`, `ClockConstants`, `ContinousConstants`, `LinkedConstants`,
`ShellConstants`); TLC evaluates these on every run. What a theorem assumes beyond that is
in its table.

### Airport

| Theorem of `AirportProofs` | Assumes | Says |
|---|---|---|
| `TypeCorrect` | | `TypeOK`, with each queue's pushed plane of that queue's kind |
| `EmergencySoon` | | `EmergencyOvertakenOnce` |
| `LandingSoon` | | `LandingOvertakenTwice` |
| `LinesHold` | `Timely` | `WaitingIsQueued` |
| `FrontsAreThere` | `Timely` | `NoBadFront` |
| `ServedInOrder` | `Timely` | `OnlyFrontCompleted` |
| `NoTwoOnRunway` | `Timely`, `PromptWakeups` | `OneOnRunway` |
| `Implements` | `Timely`, `PromptWakeups` | `Spec => ControlledSpec` |

`Timely` is `SpacedArrivals` with fresh memory reading as zero. The argument:

* The two waiting theorems need to know where the tower is. While it is between
  `Release` and `Broadcast` of a function other than `let_emergencies`, it has just
  come out of `let_emergencies`, and an emergency that arrives since has seen nothing
  go by; likewise for landing planes after `let_one_to_land`.
* `LineInv` is the invariant of the queues: each slot holds a plane of that kind, once,
  that either still waits or is at the front and has completed; a plane half way
  through its push is the only one of its kind and has its slot to itself. That is why
  the double unlocks do no harm: whoever enters meanwhile pops the front or reads.
* `ServedNotEmpty` says that the queue the tower has decided to serve is not empty. It
  survives the nested `let_emergencies` because planes only add to queues.
* `RunwayInv` ties a plane on the runway to the grant in progress: its kind is the one
  served and the tower is in `sleep` or `remove`. With `PromptWakeups` no thread is still
  between wakeup and test when the tower goes on.
* `Implements` maps `permit` to the kind served while the tower sleeps or removes and
  `user` to the plane on the runway. A push is `Request`, a broadcast `Open`, the test
  that succeeds `Use`, the removal `Close`; every other step stutters.

| Theorem of `ClockProofs` | Assumes | Says |
|---|---|---|
| `TypeCorrect` | | `TypeOK` |
| `EmergenciesComeInTime` | `MainTurns > 0` | `NoEmergencyMissed` |
| `PlanesComeEverySecond` | `MainTurns > 1` | `NoSecondMissed` |
| `ReportsComeEverySecond` | `ReporterTurns > 0` | `NoReportMissed` |

The clock is compared for equality, so everything hangs on how often it is read. `Recent`
says that main lags behind by a second at most, and only before its first turn in the
second; `EmergencyInv` that less than an interval has gone since the last emergency once a
turn is taken; `SecondsInv` that the first turn of a second leaves a plane behind by one
second at most, when an emergency has taken that turn, and the second turn makes up for it.
With fewer turns than assumed TLC finds each of the three properties violated, so the
assumptions are as weak as they can be.

### Disks

`DirectoryProofs` holds what both schemes need: `Table`, a table whose entries differ in
their ids, is kept by adding, updating and removing, with what a lookup then finds
(`AddedFile`, `UpdatedFile`, `RemovedFile`); the block of a byte (`BlockOfByte`); and two
lemmas that stand in for induction: a set of numbers has a least one (`LeastNumber`, from
the library's theorem that strict inclusion of finite sets is well founded), hence
`Induction` over an interval, stated for a set and not for a predicate, and hence
`Recursion`: a function defined by recursion over an interval, each of whose steps stays
inside a given family of sets, exists and stays in them. The loops of contiguous allocation
are such functions; what is proved of them is proved by choosing the family of sets.

| Theorem of `LinkedProofs` | Says |
|---|---|
| `TypeCorrect` | `TypeOK` |
| `LinksAlwaysSound` | `LinksSound` |
| `ChainsAlwaysPartition` | `ChainsPartition` |
| `AccessAlwaysInChain` | `AccessInChain` |
| `ImplementsStore` | `Spec => StoreSpec`, linked allocation implements `BlockStore` |

The invariant is `LaidOut`: there is an assignment of a sequence of blocks to every file
such that no block occurs twice, disk and FAT are exactly what these sequences say, and the
table has their first blocks and lengths. Each operation is proved to lead from one such
assignment to another; `Chain` and `access` are then read off it, and the refinement maps
`content` to it.

| Theorem of `ContinousProofs` | Says |
|---|---|
| `TypeCorrect` | `TypeOK`: no entry ever reaches beyond the disk |
| `AccessAlwaysInFile` | `AccessInFile` |
| `SearchesFirstFit` | `FirstFit` |
| `DefragmentAlwaysCompacts` | `DefragmentCompacts` |
| `OnlySqueezingLosesBlocks` | `OnlySqueezingCorrupts` |
| `AbortsAfterCorruption` | `AbortsOnlyWhenCorrupt` |

Finding 3 is that tables do get corrupted, so the first three and the last are about all
tables and not only sound ones:

* `Consistent` is inductive in corrupted states too: disk and table have their types and
  entries `Fit`. Whatever `defragment` makes of a table, it only moves entries forward
  (`Forwards`), and it leaves a filled cell if there was one (`HasFilled`), which is why
  an exception needs corruption first.
* `SearchIs` is a fact about any disk: a hole that is given up at its first blocked cell
  cannot be followed by one that begins before that cell.
* `Owned` is `Sound` said cell by cell. For a sound table in disk order `Ends` are the
  sums of the sizes of the first k files; after k files have been pulled, they lie one
  behind the other up to the k-th end and the rest is where it was (`Packed`). After the
  last one the disk is `Compact`.
* `MovedBack` is finding 3 at its root: on a compact disk, moving any file to the end and
  defragmenting again gives exactly the disk and table from before the move, so the room
  that was made behind the file is gone again. Growing is then sound for the last
  file only.

### Shell

| Theorem of `ShellProofs` | Says |
|---|---|
| `TypeCorrect` | `TypeOK` |
| `HeldShellsHold` | `HeldShells` |
| `IdleAtPrompt` | `PromptMeansIdle` |
| `TerminalAsTheUserHadIt` (`TerminalProofs`) | `TerminalForPrograms` |
| `PipelinesPlumbed` (`PipelineProofs`) | `Plumbed` |
| `NobodyWaitsInACircle` (`PipelineProofs`) | `NoCircularWait` |

The invariant, `SoundTables`, has three parts beside the types. `EntryOK` is about a
process by itself: one that reads a pipe has an `exit` or a crontab on its stack, so it
does not get back to `main`. `HeldOK`: the parent of a child in the foreground that has not
become a program is in `waitid` for it; that survives the ends of parents and the stops of
shells because of `Detached`. `IdleOK`: the job of a
shell that does not wait has been waited for too early (`late`), or has ended or is stopped
with no `myfg` helper still to continue it. Each system call is one lemma about any sound
table (`ForkedSound`, `ExitedSound`, `ReturnedSound`, ...), each action a combination of them.

Attempts to prove `TerminalForPrograms` and `Plumbed` as they first stood failed for a
reason, and led to lines that violate them: `prog | myfg &`; a pipeline of three whose
middle command is taken to be in the background by the uncleared flag; `alarm` or `psvis`
behind a pipe. Both are now stated as section 3 has them, and `shell_jobs` types the first.

`TerminalForPrograms` needs `InLine`, which holds while nothing is `shared`. A process is
`Fore` if it runs the shell's own code, is the root shell or was forked to run in the
foreground, and may get back to `main` (no `exit` and no crontab is on its stack).

* `Chained`: these processes form one line from the root on, in which everyone but the last
  is in `waitid` for the next, its child. A step of `p` can only take `p` off the end or put
  a child of `p` behind it (`Moves`, `MovedChain`). Somebody further up waits for a child that
  has not ended, so `waitid` lets it go only when it is told of a stop, and then the terminal
  is `shared`; what is killed or crashes in the middle of the line makes it `shared` too.
  Who has become a program is not in the line, whatever happens to it (`Out`).
* `Terminal`: a shell that prompts is in the line, hence its last and the only one; what it
  puts back is the mode of the user; and the terminal is raw only while there is one.
* `Shaped` says why nobody else gets back to `main`: a command in the background or at the
  head of a pipeline is forked, executed and gone unless its name is unknown, and a
  script that would go on with its next line there has no unknown name in it that runs in
  the background or has a command behind it (`Scripted`; `ExecuteLine` needs it).

While the terminal is raw, the line ends at a prompt and has no program in it; it is closed
under waiting, so whoever is `InFront` and waits, waits for a process of the line. Every
system call and every action has a lemma as in `ShellProofs`; TLC checked `InLine` as an
invariant of `shell_jobs` before it was proved.

The other two need `Wired`, which has two halves. `Piped` holds always and gives `Plumbed`:

* `EndsOK`: whoever reads or writes a pipe holds that end of it, and a reader does not hold
  the other. A pipe is taken only when both its ends are `Unused`, so a pipe that is taken
  anew has no writer and no reader from its earlier use.
* `PairOK`: who reads what a `Writer` writes `Fits` the rest of its line: the commands of the
  line it has, and of the line its script still has to run, are those behind the writer's
  (`SameCommands`: names but the first, and redirections). A script may
  call no script, and only the line on top of the stack counts: TLC refuted a first version
  that looked at the whole stack with `prog | bbc | prog`, where the child that becomes the
  last `prog` has inherited the frame of the script.
* `OwnOK`: the pipe an `alarm` fills for crontab has no other reader.

The second half holds while nothing is `shared` and gives `NoCircularWait`. `AloneOK` names
who holds a writing end: commands of a pipeline that are about to be programs, programs,
shells left of them, and the alarm's child before it reads the other end. `Ordered` gives
every process a number, the order of birth, in which

* a parent comes before its children,
* who holds a writing end and reads a pipe comes after everybody who writes that pipe.

No set of processes waits in a circle then (`OrderedWaits`). `waitid` and `wait` block for
children only, so whom the last born of those in them waits for cannot wait in the same way,
and some of the set are elsewhere; they wait only if they are programs at a pipe, for those
who hold its writing end; and the first born of the holders of writing ends has nobody in
the set to wait for. The numbers are no variable of the model: the invariant says that they
exist, and a fork puts the child last (`BornOrdered`), so a pid that is used again gets a
new number. Before the proof TLC checked `Piped` and `AloneOK` on the lines of `shell_jobs`
and `shell_pipes` and on lines with a script in a pipeline, and the order on those of
`shell_jobs`.

`NoCircularWait` is written `(SUBSET Pids) \ {{}}` because the two tools read it differently
without the parentheses: TLC as written here, the prover as all subsets of `Pids \ {{}}`,
the empty one among them.

*Only model-checked:* the liveness properties, `LandingServed` and `GroundRelieved` of the
airport, `PromptReturns` and `WritersEnd` of the shell, for which the prover has no rules.

## 6. Plan

Done: the modules and runs above, and the proofs of everything that the passing runs check
but liveness. Nothing that can be proved of the present models is left; next would be the
keys of the line editor, as a module of its own.

*Not modelled.* Keys, history, words and quotes of a line (`prompt`, `parse_command`) and
the text `auto_complete` prints are string handling: nothing of it is seen by another
process. `psvis.c` and `draw.c` print the kernel's process tree, once, and the Python
scripts print a page: no state of their own. `Main.java` is a fixed list of calls.
The signals of the terminal are not actions of their own: each is a series of signals from
outside, in some order.
