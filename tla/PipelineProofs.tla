----------------------------- MODULE PipelineProofs -----------------------------
(***************************************************************************)
(* The pipes of module Shell: a pipeline is connected as it was typed, and *)
(* nobody waits in a circle.  A pipe is taken when both its ends are       *)
(* unused, and whoever uses one still holds its end; so what one stage     *)
(* writes is read by the line behind it and by nobody else.                *)
(***************************************************************************)
EXTENDS ShellProofs

\* For the least number principle, which is proved there.
Numbers == INSTANCE DirectoryProofs

-----------------------------------------------------------------------------
(* The invariant: a process by itself. *)

NoCrontab(stack) == \A i \in DOMAIN stack : stack[i].do # "crontab"

\* The pipe that is to become the input of crontab.
Crontab(r) ==
    IF r.stack # <<>> /\ Head(r.stack).do = "crontab" THEN {Head(r.stack).pipe} ELSE {}

\* It executes a command of a pipeline other than the last.
Writer(r) == r.at \in {"exec", "program"} /\ Len(r.cmd.stages) > 1

\* The first of a script's lines runs a program, or is no pipeline.
FirstLine(cmd) ==
    \/ Head(cmd.stages).name = "prog"
    \/ Head(cmd.stages).name = "missing" /\ Len(cmd.stages) = 1

Runs(stack) == stack # <<>> /\ Head(stack).do = "run"

\* Who reads or writes a pipe holds that end of it; who reads it does not hold the other.
\* A script is not called from a script, and there is a command to be run.
EndsOK(r) ==
    /\ r.in \in Pipes => <<r.in, "r">> \in r.holds /\ <<r.in, "w">> \notin r.holds
    /\ r.out \in Pipes => <<r.out, "w">> \in r.holds
    /\ \A pipe \in Crontab(r) : <<pipe, "r">> \in r.holds /\ pipe # r.out
    /\ r.at # "any" => NoCrontab(r.stack)
    /\ r.at = "any" /\ r.stack # <<>> => NoCrontab(Tail(r.stack))
    /\ r.at \in {"alarm", "any"} => r.cmd = NoCommand
    /\ r.at \in {"command", "child", "exec"} => r.cmd.stages # <<>>
    /\ Runs(r.stack) => /\ r.at \in {"command", "child", "exec"} => FirstLine(r.cmd)
                        /\ Head(r.stack).cmd.stages # <<>>
                        /\ ~Runs(Tail(r.stack))
    /\ Writer(r) => r.out \in Pipes

-----------------------------------------------------------------------------
(* The invariant: who writes a pipe and who reads it. *)

Clean(name) == name \notin StartingOthers

\* A line of these commands, which start nothing but themselves.
CommandFits(cmd, rest) ==
    /\ SameCommands(cmd.stages, rest)
    /\ \A i \in 1 .. Len(rest) : Clean(cmd.stages[i].name)

\* A process that runs such a line and will run no other.
Fits(r, rest) ==
    /\ r.at \notin {"alarm", "any"}
    /\ r.at \in {"command", "child", "exec", "program"} => CommandFits(r.cmd, rest)
    /\ Runs(r.stack) => CommandFits(Head(r.stack).cmd, rest)

\* What w writes is read by who runs the line behind it.
PairOK(w, r) ==
    Writer(w) =>
        /\ w.out \notin Crontab(r)
        /\ r.in = w.out /\ (\A i \in 2 .. Len(w.cmd.stages) : Clean(w.cmd.stages[i].name)) =>
              Fits(r, Tail(w.cmd.stages))

\* What a crontab is to read nobody else reads.
OwnOK(x, y) == \A pipe \in Crontab(x) : <<pipe, "r">> \notin y.holds

Piped(ps) ==
    /\ \A x \in Pids : EndsOK(ps[x])
    /\ \A x, y \in Pids : PairOK(ps[x], ps[y])
    /\ \A x, y \in Pids : x # y => OwnOK(ps[x], ps[y])

-----------------------------------------------------------------------------
(* The invariant while nothing is shared: who waits for whom. *)

\* The writing end of a pipe is held by the commands of a pipeline and what is left of
\* them, and by the alarm's child until it reads the other end.
AloneOK(r) ==
    \A pipe \in Pipes : <<pipe, "w">> \in r.holds =>
        \/ r.at = "program"
        \/ r.at = "main" /\ r.origin = "stage"
        \/ /\ r.at = "exec" /\ r.origin = "stage"
           /\ Runs(r.stack) => Head(r.cmd.stages).name = "prog"
        \/ r.at = "any" /\ pipe \in Crontab(r)

HoldsW(r) == \E pipe \in Pipes : <<pipe, "w">> \in r.holds

\* The order in which the processes were born: a child after its parent, and a reader that
\* writes after its writers.
Ordered(ps, born) ==
    /\ \A x \in Pids : ps[x].at # "nowhere" /\ ps[x].parent \in Pids =>
          ps[ps[x].parent].at # "nowhere" /\ born[ps[x].parent] < born[x]
    /\ \A x, y \in Pids :
          HoldsW(ps[x]) /\ ps[x].at \in {"exec", "program"} /\ <<ps[x].in, "w">> \in ps[y].holds =>
              born[y] < born[x]

InOrder(ps) == \E n \in Nat : \E born \in [Pids -> 0 .. n] : Ordered(ps, born)

Wired(ps, alone) ==
    /\ Piped(ps)
    /\ alone => (\A x \in Pids : AloneOK(ps[x])) /\ InOrder(ps)

-----------------------------------------------------------------------------
(* The properties from the invariant. *)

LEMMA PipedIsPlumbed == Piped(proc) => Plumbed
<1> SUFFICES ASSUME Piped(proc), NEW p \in Programs, Len(proc[p].cmd.stages) > 1
             PROVE  LET stages == proc[p].cmd.stages
                    IN  /\ proc[p].out \in Pipes
                        /\ (\A i \in 2 .. Len(stages) : stages[i].name \notin StartingOthers) =>
                              \A q \in Programs :
                                 proc[q].in = proc[p].out =>
                                    SameCommands(proc[q].cmd.stages, Tail(stages))
  BY DEF Plumbed
<1>1. p \in Pids /\ proc[p].at = "program" /\ Writer(proc[p])
  BY DEF Programs, Writer
<1>2. proc[p].out \in Pipes
  BY <1>1 DEF Piped, EndsOK
<1>3. ASSUME \A i \in 2 .. Len(proc[p].cmd.stages) :
                proc[p].cmd.stages[i].name \notin StartingOthers,
             NEW q \in Programs, proc[q].in = proc[p].out
      PROVE  SameCommands(proc[q].cmd.stages, Tail(proc[p].cmd.stages))
  <2>1. q \in Pids /\ proc[q].at = "program" /\ PairOK(proc[p], proc[q])
    BY <1>1 DEF Programs, Piped
  <2>2. \A i \in 2 .. Len(proc[p].cmd.stages) : Clean(proc[p].cmd.stages[i].name)
    BY <1>3 DEF Clean
  <2>3. Fits(proc[q], Tail(proc[p].cmd.stages))
    BY <1>1, <1>3, <2>1, <2>2 DEF PairOK
  <2>4. CommandFits(proc[q].cmd, Tail(proc[p].cmd.stages))
    BY <2>1, <2>3 DEF Fits
  <2> QED
    BY <2>4 DEF CommandFits
<1> QED
  BY <1>2, <1>3

LEMMA GreatestNumber ==
    ASSUME NEW n \in Nat, NEW T, T \subseteq 0 .. n, T # {}
    PROVE  \E m \in T : \A k \in T : k <= m
<1> DEFINE U == {n - m : m \in T}
<1>1. U \subseteq Nat /\ U # {}
  <2>1. \A m \in T : n - m \in Nat
    OBVIOUS
  <2> QED
    BY <2>1
<1> HIDE DEF U
<1>2. PICK u \in U : \A v \in U : u <= v
  BY <1>1, Numbers!LeastNumber
<1>3. PICK m \in T : u = n - m
  BY DEF U
<1>4. \A k \in T : n - k \in U
  BY DEF U
<1>5. ASSUME NEW k \in T PROVE k <= m
  <2>1. n - m <= n - k
    BY <1>2, <1>3, <1>4
  <2> QED
    BY <2>1
<1> QED
  BY <1>5

\* Whom a program waits for does not wait for a process, and holds the end of a pipe that
\* the program reads.
LEMMA WritersDoNotWait ==
    ASSUME Sound(proc), Wired(proc, TRUE), NEW y \in Pids, proc[y].at \notin {"wait", "any"},
           NEW z \in Pids, z \in WaitsFor(y)
    PROVE  /\ proc[y].at = "program" /\ <<proc[y].in, "w">> \in proc[z].holds
           /\ HoldsW(proc[z]) /\ proc[z].at \notin {"wait", "any"}
<1>1. proc[y].at = "program" /\ proc[y].in \in Pipes /\ z \in Writers(proc[y].in)
  BY DEF WaitsFor
<1>2. <<proc[y].in, "w">> \in proc[z].holds
  BY <1>1 DEF Writers
<1>3. HoldsW(proc[z])
  BY <1>1, <1>2 DEF HoldsW
<1>4. EndsOK(proc[y]) /\ AloneOK(proc[z]) /\ (z # y => OwnOK(proc[z], proc[y]))
  BY DEF Wired, Piped
<1>5. proc[z].at \notin {"wait", "any"}
  <2> SUFFICES ASSUME proc[z].at = "any", proc[y].in \in Crontab(proc[z]) PROVE FALSE
    BY <1>1, <1>2, <1>4 DEF AloneOK
  <2> QED
    BY <1>1, <1>4 DEF OwnOK, EndsOK
<1> QED
  BY <1>1, <1>2, <1>3, <1>5

LEMMA OrderedWaits ==
    ASSUME Sound(proc), Wired(proc, TRUE)
    PROVE  \A S \in (SUBSET Pids) \ {{}} : \E p \in S : WaitsFor(p) \cap S = {}
<1>1. PICK n \in Nat : \E born \in [Pids -> 0 .. n] : Ordered(proc, born)
  BY DEF Wired, InOrder
<1>2. PICK born \in [Pids -> 0 .. n] : Ordered(proc, born)
  BY <1>1
<1> SUFFICES ASSUME NEW S, S \subseteq Pids, S # {}, \A p \in S : WaitsFor(p) \cap S # {}
             PROVE  FALSE
  OBVIOUS
<1> DEFINE Waits(x) == proc[x].at \in {"wait", "any"}
           N == {y \in S : ~Waits(y)}
           W == {y \in N : HoldsW(proc[y])}
\* The youngest of those who wait for a process waits for one who does not.
<1>3. N # {}
  <2> SUFFICES ASSUME \A y \in S : Waits(y) PROVE FALSE
    OBVIOUS
  <2> DEFINE T == {born[x] : x \in S}
  <2>1. T \subseteq 0 .. n /\ T # {}
    <3>1. \A x \in S : born[x] \in 0 .. n
      OBVIOUS
    <3> QED
      BY <3>1
  <2> HIDE DEF T
  <2>2. PICK m \in T : \A k \in T : k <= m
    BY <2>1, GreatestNumber
  <2>3. PICK x \in S : m = born[x]
    BY DEF T
  <2>4. PICK y \in S : y \in WaitsFor(x)
    OBVIOUS
  <2>5. born[y] \in T /\ born[x] \in Nat /\ born[y] \in Nat
    BY DEF T
  <2>6. ~(born[x] < born[y])
    BY <2>2, <2>3, <2>5
  <2>7. proc[y].at \notin {"program", "nowhere"} /\ x \in Pids /\ y \in Pids
    OBVIOUS
  <2>8. proc[x].at \in {"wait", "any"}
    BY <2>3
  <2>9. proc[y].parent = x
    BY <2>4, <2>8 DEF WaitsFor, Children
  <2> QED
    BY <1>2, <2>6, <2>7, <2>9 DEF Ordered
<1>4. ASSUME NEW y \in N, NEW z \in S, z \in WaitsFor(y)
      PROVE  z \in W /\ proc[y].at = "program" /\ <<proc[y].in, "w">> \in proc[z].holds
  <2>1. y \in Pids /\ z \in Pids /\ proc[y].at \notin {"wait", "any"}
    OBVIOUS
  <2> QED
    BY <1>4, <2>1, WritersDoNotWait
<1>5. W # {}
  BY <1>3, <1>4
\* The oldest of those who hold the writing end of a pipe waits for nobody.
<1> DEFINE T == {born[x] : x \in W}
<1>6. T \subseteq Nat /\ T # {}
  BY <1>5
<1> HIDE DEF T
<1>7. PICK m \in T : \A k \in T : m <= k
  BY <1>6, Numbers!LeastNumber
<1>8. PICK y \in W : m = born[y]
  BY DEF T
<1>9. PICK z \in S : z \in WaitsFor(y)
  OBVIOUS
<1>10. z \in W /\ proc[y].at = "program" /\ <<proc[y].in, "w">> \in proc[z].holds
  BY <1>4, <1>9
<1>11. y \in Pids /\ z \in Pids /\ HoldsW(proc[y])
  OBVIOUS
<1>12. born[z] < born[y]
  BY <1>2, <1>10, <1>11 DEF Ordered
<1>13. born[z] \in T /\ born[z] \in Nat /\ born[y] \in Nat
  BY <1>10, <1>11 DEF T
<1> QED
  BY <1>7, <1>8, <1>12, <1>13

-----------------------------------------------------------------------------
(* The invariant: the initial state, and steps that leave the pipes alone. *)

\* Nothing but the bookkeeping of state, job and reports differs, or who waits for it.
SameEnds(r, s) ==
    /\ s.at = r.at /\ (s.origin = "stage" <=> r.origin = "stage") /\ s.stack = r.stack
    /\ s.cmd = r.cmd /\ s.target = r.target /\ s.in = r.in /\ s.out = r.out /\ s.holds = r.holds

Blank(s) ==
    /\ s.at = "nowhere" /\ s.stack = <<>> /\ s.cmd = NoCommand /\ s.holds = {}
    /\ s.in = "tty" /\ s.out = "tty"

\* Every process goes on as it was, or ends and leaves its children to init.
Plain(ps, qs) ==
    \A x \in Pids :
        \/ Blank(qs[x])
        \/ /\ SameEnds(ps[x], qs[x])
           /\ qs[x].parent = ps[x].parent \/ qs[x].parent = init
           /\ ps[x].at # "nowhere" /\ qs[x].parent \in Pids /\ ps[qs[x].parent].at # "nowhere" =>
                 ~Blank(qs[qs[x].parent])

LEMMA TtyIsNoPipe == "tty" \notin Pipes /\ "file" \notin Pipes
BY ShellConstants

LEMMA BlankOK ==
    ASSUME NEW s, Blank(s)
    PROVE  /\ EndsOK(s) /\ AloneOK(s) /\ ~Writer(s) /\ Crontab(s) = {}
           /\ \A r : PairOK(s, r) /\ OwnOK(s, r)
           /\ \A r : EndsOK(r) => PairOK(r, s) /\ OwnOK(r, s)
<1>1. Crontab(s) = {} /\ ~Writer(s) /\ ~Runs(s.stack) /\ s.in \notin Pipes /\ s.out \notin Pipes
  BY TtyIsNoPipe DEF Blank, Crontab, Writer, Runs
<1>2. NoCrontab(s.stack)
  BY DEF Blank, NoCrontab
<1>3. EndsOK(s) /\ AloneOK(s)
  BY <1>1, <1>2 DEF Blank, EndsOK, AloneOK
<1>4. \A r : PairOK(s, r) /\ OwnOK(s, r)
  BY <1>1 DEF PairOK, OwnOK
<1>5. ASSUME NEW r, EndsOK(r) PROVE PairOK(r, s) /\ OwnOK(r, s)
  BY <1>1, <1>5 DEF Blank, PairOK, OwnOK, EndsOK
<1> QED
  BY <1>1, <1>3, <1>4, <1>5

LEMMA SameEndsOK ==
    ASSUME NEW r, NEW s, SameEnds(r, s)
    PROVE  /\ EndsOK(r) => EndsOK(s)
           /\ AloneOK(r) => AloneOK(s)
           /\ Writer(s) <=> Writer(r)
           /\ Crontab(s) = Crontab(r)
           /\ HoldsW(s) <=> HoldsW(r)
           /\ \A rest : Fits(r, rest) <=> Fits(s, rest)
<1>1. Crontab(s) = Crontab(r) /\ (Writer(s) <=> Writer(r)) /\ (HoldsW(s) <=> HoldsW(r))
  BY DEF SameEnds, Crontab, Writer, HoldsW
<1>2. EndsOK(r) => EndsOK(s)
  BY <1>1 DEF SameEnds, EndsOK
<1>3. AloneOK(r) => AloneOK(s)
  BY <1>1 DEF SameEnds, AloneOK
<1>4. \A rest : Fits(r, rest) <=> Fits(s, rest)
  BY DEF SameEnds, Fits
<1> QED
  BY <1>1, <1>2, <1>3, <1>4

LEMMA SamePairOK ==
    ASSUME NEW w, NEW w2, SameEnds(w, w2), NEW r, NEW r2, SameEnds(r, r2)
    PROVE  /\ PairOK(w, r) => PairOK(w2, r2)
           /\ OwnOK(w, r) => OwnOK(w2, r2)
<1>1. /\ Writer(w2) <=> Writer(w)
      /\ Crontab(r2) = Crontab(r) /\ Crontab(w2) = Crontab(w)
      /\ \A rest : Fits(r, rest) <=> Fits(r2, rest)
  BY SameEndsOK
<1> QED
  BY <1>1 DEF PairOK, OwnOK, SameEnds

LEMMA PlainPiped ==
    ASSUME NEW ps, NEW qs, Plain(ps, qs), Piped(ps)
    PROVE  Piped(qs)
<1>1. ASSUME NEW x \in Pids PROVE EndsOK(qs[x])
  BY BlankOK, SameEndsOK DEF Plain, Piped
<1>2. ASSUME NEW x \in Pids, NEW y \in Pids
      PROVE  PairOK(qs[x], qs[y]) /\ (x # y => OwnOK(qs[x], qs[y]))
  <2>1. CASE Blank(qs[x])
    BY <2>1, BlankOK
  <2>2. CASE Blank(qs[y])
    BY <1>1, <2>2, BlankOK
  <2>3. CASE SameEnds(ps[x], qs[x]) /\ SameEnds(ps[y], qs[y])
    BY <2>3, SamePairOK DEF Piped
  <2> QED
    BY <2>1, <2>2, <2>3 DEF Plain
<1> QED
  BY <1>1, <1>2 DEF Piped

LEMMA PlainOrdered ==
    ASSUME NEW ps, NEW qs, Plain(ps, qs), NEW born, Ordered(ps, born)
    PROVE  Ordered(qs, born)
<1>1. ASSUME NEW x \in Pids, qs[x].at # "nowhere", qs[x].parent \in Pids
      PROVE  qs[qs[x].parent].at # "nowhere" /\ born[qs[x].parent] < born[x]
  <2>1. SameEnds(ps[x], qs[x]) /\ ps[x].at # "nowhere" /\ qs[x].parent = ps[x].parent
    BY <1>1, ShellConstants DEF Plain, Blank, SameEnds
  <2>2. ps[ps[x].parent].at # "nowhere" /\ born[ps[x].parent] < born[x]
    BY <1>1, <2>1 DEF Ordered
  <2>3. ~Blank(qs[qs[x].parent])
    BY <1>1, <2>1, <2>2 DEF Plain, Blank
  <2>4. SameEnds(ps[qs[x].parent], qs[qs[x].parent])
    BY <1>1, <2>3 DEF Plain
  <2> QED
    BY <2>1, <2>2, <2>4 DEF SameEnds
<1>2. ASSUME NEW x \in Pids, NEW y \in Pids, HoldsW(qs[x]), qs[x].at \in {"exec", "program"},
             <<qs[x].in, "w">> \in qs[y].holds
      PROVE  born[y] < born[x]
  <2>1. SameEnds(ps[x], qs[x]) /\ SameEnds(ps[y], qs[y])
    BY <1>2 DEF Plain, Blank
  <2> QED
    BY <1>2, <2>1, SameEndsOK DEF Ordered, SameEnds
<1> QED
  BY <1>1, <1>2 DEF Ordered

LEMMA PlainWired ==
    ASSUME NEW ps, NEW qs, Plain(ps, qs), NEW alone, Wired(ps, alone)
    PROVE  Wired(qs, alone)
<1>1. Piped(qs)
  BY PlainPiped DEF Wired
<1>2. ASSUME alone, NEW x \in Pids PROVE AloneOK(qs[x])
  BY <1>2, BlankOK, SameEndsOK DEF Plain, Wired
<1>3. ASSUME alone PROVE InOrder(qs)
  BY <1>3, PlainOrdered DEF Wired, InOrder
<1> QED
  BY <1>1, <1>2, <1>3 DEF Wired

\* Nobody ends.
LEMMA KeptPlain ==
    ASSUME NEW ps, NEW qs,
           \A x \in Pids : SameEnds(ps[x], qs[x]) /\ qs[x].parent = ps[x].parent
    PROVE  Plain(ps, qs)
BY DEF Plain, SameEnds, Blank

LEMMA GoneBlank == Blank(NoProcess) /\ \A dad : Blank(Zombie(dad))
BY DEF Blank, Zombie, NoProcess

LEMMA ExitedWired ==
    ASSUME NEW ps, Sound(ps), NEW p \in Pids, NEW alone, Wired(ps, alone)
    PROVE  Wired(Exited(ps, p), alone)
<1> DEFINE qs == Exited(ps, p)
<1>1. ps \in Tables /\ \A x \in Pids : ps[x] \in Process /\ EntryOK(ps[x])
  BY DEF Sound, Tables
<1>2. Blank(qs[p])
  <2>1. qs[p] = NoProcess \/ qs[p] = Zombie(ps[p].parent)
    BY <1>1, ExitedFields
  <2> HIDE DEF qs
  <2> QED
    BY <2>1, GoneBlank
<1>3. ASSUME NEW x \in Pids, x # p
      PROVE  \/ Blank(qs[x]) /\ ps[x].at = "nowhere"
             \/ /\ SameEnds(ps[x], qs[x])
                /\ qs[x].parent = IF ps[x].parent = p THEN init ELSE ps[x].parent
  <2>1. CASE ps[x].parent # p
    <3>1. qs[x] = ps[x]
      BY <1>1, <1>3, <2>1, ExitedFields
    <3> HIDE DEF qs
    <3> QED
      BY <2>1, <3>1 DEF SameEnds
  <2>2. CASE ps[x].parent = p /\ ps[x].state = "zombie"
    <3>1. qs[x] = NoProcess
      BY <1>1, <1>3, <2>2, ExitedFields, ZenonT(30)
    <3>2. ps[x].at = "nowhere"
      BY <1>1, <2>2 DEF EntryOK
    <3> HIDE DEF qs
    <3> QED
      BY <3>1, <3>2, GoneBlank
  <2>3. CASE ps[x].parent = p /\ ps[x].state # "zombie"
    <3>1. qs[x] = [Detached(ps[x]) EXCEPT !.parent = init]
      BY <1>1, <1>3, <2>3, ExitedFields
    <3>2. ps[x] \in Process
      BY <1>1
    <3> HIDE DEF qs
    <3> QED
      BY <2>3, <3>1, <3>2 DEF SameEnds, Process, Detached
  <2> QED
    BY <2>1, <2>2, <2>3
<1> HIDE DEF qs
<1>4. Plain(ps, qs)
  <2> SUFFICES ASSUME NEW x \in Pids, ~Blank(qs[x])
               PROVE  /\ SameEnds(ps[x], qs[x])
                      /\ qs[x].parent = ps[x].parent \/ qs[x].parent = init
                      /\ ps[x].at # "nowhere" /\ qs[x].parent \in Pids
                            /\ ps[qs[x].parent].at # "nowhere" => ~Blank(qs[qs[x].parent])
    BY DEF Plain
  <2>1. x # p /\ SameEnds(ps[x], qs[x])
        /\ qs[x].parent = IF ps[x].parent = p THEN init ELSE ps[x].parent
    BY <1>2, <1>3
  <2>2. ASSUME qs[x].parent \in Pids, ps[qs[x].parent].at # "nowhere"
        PROVE  ~Blank(qs[qs[x].parent])
    <3>1. qs[x].parent # p
      BY <2>1, <2>2, ShellConstants
    <3>2. SameEnds(ps[qs[x].parent], qs[qs[x].parent])
      BY <1>3, <2>2, <3>1
    <3> QED
      BY <2>2, <3>2 DEF SameEnds, Blank
  <2> QED
    BY <2>1, <2>2
<1> QED
  BY <1>4, PlainWired DEF qs

LEMMA StoppedWired ==
    ASSUME NEW ps, Sound(ps), NEW t \in Pids, NEW alone, Wired(ps, alone)
    PROVE  Wired(Stopped(ps, t), alone)
<1> DEFINE qs == Stopped(ps, t)
<1>1. ps \in Tables /\ ps[t] \in Process
  BY DEF Sound, Tables
<1>2. qs = ps \/ qs = [ps EXCEPT ![t] = [ps[t] EXCEPT !.state = "stopped", !.unreported = TRUE]]
  BY <1>1 DEF Stopped, Tables
<1> HIDE DEF qs
<1>3. ASSUME NEW x \in Pids PROVE SameEnds(ps[x], qs[x]) /\ qs[x].parent = ps[x].parent
  <2>1. ps[x] \in Process
    BY <1>1 DEF Tables
  <2>2. qs[x] = ps[x] \/ qs[x] = [ps[x] EXCEPT !.state = "stopped", !.unreported = TRUE]
    BY <1>1, <1>2 DEF Tables
  <2> QED
    BY <2>1, <2>2 DEF Process, SameEnds
<1>4. Plain(ps, qs)
  BY <1>3, KeptPlain
<1> QED
  BY <1>4, PlainWired DEF qs

LEMMA ReleasedWired ==
    ASSUME NEW ps \in Tables, NEW t, NEW by, NEW alone, Wired(ps, alone)
    PROVE  Wired(Released(ps, t, by), alone)
<1> DEFINE qs == Released(ps, t, by)
<1>1. ASSUME NEW x \in Pids PROVE SameEnds(ps[x], qs[x]) /\ qs[x].parent = ps[x].parent
  <2>1. ps[x] \in Process
    BY DEF Tables
  <2>2. qs[x] = ps[x] \/ qs[x] = [ps[x] EXCEPT !.job = init]
    BY DEF Released
  <2> HIDE DEF qs
  <2> QED
    BY <2>1, <2>2 DEF SameEnds, Process
<1> HIDE DEF qs
<1>2. Plain(ps, qs)
  BY <1>1, KeptPlain
<1> QED
  BY <1>2, PlainWired DEF qs

LEMMA ResumedWired ==
    ASSUME NEW ps, Sound(ps), NEW t \in Pids, NEW by, NEW alone, Wired(ps, alone)
    PROVE  Wired(Released(Continued(ps, t), t, by), alone)
<1> DEFINE qs == Continued(ps, t)
<1>1. ps \in Tables /\ ps[t] \in Process /\ qs \in Tables
  BY ContinuedType DEF Sound, Tables
<1>2. qs = ps \/ qs = [ps EXCEPT ![t] = [ps[t] EXCEPT !.state = "running", !.unreported = FALSE]]
  BY <1>1 DEF Continued, Tables
<1> HIDE DEF qs
<1>3. ASSUME NEW x \in Pids PROVE SameEnds(ps[x], qs[x]) /\ qs[x].parent = ps[x].parent
  <2>1. ps[x] \in Process
    BY <1>1 DEF Tables
  <2>2. qs[x] = ps[x] \/ qs[x] = [ps[x] EXCEPT !.state = "running", !.unreported = FALSE]
    BY <1>1, <1>2 DEF Tables
  <2> QED
    BY <2>1, <2>2 DEF Process, SameEnds
<1>4. Wired(qs, alone)
  BY <1>3, KeptPlain, PlainWired
<1>5. Wired(Released(qs, t, by), alone)
  BY <1>1, <1>4, ReleasedWired
<1> QED
  BY <1>5 DEF qs

\* An entry without a process stays one.
LEMMA EmptyWired ==
    ASSUME NEW ps \in Tables, NEW z \in Pids, ps[z].at = "nowhere", NEW s, Blank(s),
           NEW alone, Wired(ps, alone)
    PROVE  Wired([ps EXCEPT ![z] = s], alone)
<1> DEFINE qs == [ps EXCEPT ![z] = s]
<1>1. \A x \in Pids : IF x = z THEN Blank(qs[x]) ELSE qs[x] = ps[x]
  BY DEF Tables
<1> HIDE DEF qs
<1>2. Plain(ps, qs)
  BY <1>1 DEF Plain, SameEnds, Blank
<1> QED
  BY <1>2, PlainWired DEF qs

-----------------------------------------------------------------------------
(* The invariant: one process goes on, or a new one is there. *)

\* Nobody holds an end of u: a pipe to be taken, or no pipe.
Untaken(ps, u) == \A x \in Pids : <<u, "r">> \notin ps[x].holds /\ <<u, "w">> \notin ps[x].holds

\* What reads the same pipe as before runs the same line.
ReadsAs(r, s) == s.in = r.in /\ \A rest : Fits(r, rest) => Fits(s, rest)

\* A process that is r goes on as s: it may take the pipe u, and it may be the crontab that
\* now reads the pipe it has.
GoesOn(r, s, u) ==
    /\ s.holds \subseteq r.holds \cup {<<u, "r">>, <<u, "w">>}
    /\ Crontab(s) \subseteq Crontab(r) \cup {u}
    /\ s.in \in Pipes => s.in = u \/ s.in \in Crontab(r) \/ ReadsAs(r, s)
    /\ Writer(s) => Writer(r) /\ s.out = r.out /\ s.cmd = r.cmd

LEMMA CommandHasNoCrontab ==
    ASSUME NEW r \in Process, EndsOK(r), r.at # "any"
    PROVE  Crontab(r) = {}
<1>1. r.stack \in Seq(Frames) /\ NoCrontab(r.stack)
  BY DEF Process, Frames, EndsOK
<1>2. r.stack # <<>> => 1 \in DOMAIN r.stack /\ Head(r.stack) = r.stack[1]
  BY <1>1
<1> QED
  BY <1>1, <1>2 DEF NoCrontab, Crontab

LEMMA GoesOnPiped ==
    ASSUME NEW ps \in Tables, Piped(ps), NEW p \in Pids, NEW u, Untaken(ps, u),
           NEW s, EndsOK(s), GoesOn(ps[p], s, u)
    PROVE  Piped([ps EXCEPT ![p] = s])
<1> DEFINE qs == [ps EXCEPT ![p] = s]
<1>1. \A x \in Pids : qs[x] = IF x = p THEN s ELSE ps[x]
  BY DEF Tables
<1> HIDE DEF qs
<1>2. \A x \in Pids : EndsOK(qs[x]) /\ EndsOK(ps[x])
  BY <1>1 DEF Piped
<1>3. ASSUME NEW x \in Pids PROVE GoesOn(ps[x], qs[x], u) \/ qs[x] = ps[x]
  BY <1>1
<1>4. ASSUME NEW x \in Pids, NEW y \in Pids PROVE PairOK(qs[x], qs[y])
  <2> SUFFICES ASSUME Writer(qs[x]) PROVE PairOK(qs[x], qs[y])
    BY DEF PairOK
  <2> DEFINE out == ps[x].out
             rest == Tail(ps[x].cmd.stages)
             clean == \A i \in 2 .. Len(ps[x].cmd.stages) : Clean(ps[x].cmd.stages[i].name)
  <2>1. Writer(ps[x]) /\ qs[x].out = out /\ qs[x].cmd = ps[x].cmd
    BY <1>3 DEF GoesOn
  <2>2. out \in Pipes /\ <<out, "w">> \in ps[x].holds /\ out # u
    BY <1>2, <2>1 DEF EndsOK, Untaken
  <2>3. out \notin Crontab(ps[y]) /\ (ps[y].in = out /\ clean => Fits(ps[y], rest))
    BY <2>1 DEF Piped, PairOK
  <2> HIDE DEF out, rest, clean
  <2>4. out \notin Crontab(qs[y])
    BY <1>3, <2>2, <2>3 DEF GoesOn
  <2>5. ASSUME qs[y].in = out, clean PROVE Fits(qs[y], rest)
    <3>1. qs[y] = ps[y] \/ ReadsAs(ps[y], qs[y])
      BY <1>3, <2>2, <2>3, <2>5 DEF GoesOn
    <3> QED
      BY <2>3, <2>5, <3>1 DEF ReadsAs
  <2> QED
    BY <2>1, <2>4, <2>5 DEF PairOK, out, rest, clean
<1>5. ASSUME NEW x \in Pids, NEW y \in Pids, x # y, NEW pipe \in Crontab(qs[x])
      PROVE  <<pipe, "r">> \notin qs[y].holds
  <2>1. CASE pipe \in Crontab(ps[x])
    <3>1. <<pipe, "r">> \in ps[x].holds /\ pipe # u
      BY <1>2, <2>1 DEF EndsOK, Untaken
    <3>2. <<pipe, "r">> \notin ps[y].holds
      BY <1>5, <2>1 DEF Piped, OwnOK
    <3> QED
      BY <1>3, <3>1, <3>2 DEF GoesOn
  <2>2. CASE pipe \notin Crontab(ps[x])
    <3>1. x = p /\ y # p /\ pipe = u
      BY <1>1, <1>3, <1>5, <2>2 DEF GoesOn
    <3> QED
      BY <1>1, <3>1 DEF Untaken
  <2> QED
    BY <2>1, <2>2
<1>6. Piped(qs)
  BY <1>2, <1>4, <1>5 DEF Piped, OwnOK
<1> QED
  BY <1>6 DEF qs

\* The same while nothing is shared: a writing end goes only from executing a command to
\* the program.
GoesOnAlone(ps, p, s, u) ==
    LET r == ps[p]
    IN  /\ AloneOK(s)
        /\ r.at \notin {"nowhere", "program"} /\ s.at # "nowhere" /\ s.parent = r.parent
        /\ HoldsW(s) /\ s.at \in {"exec", "program"} =>
              r.at = "exec" /\ s.in = r.in /\ HoldsW(r)

LEMMA GoesOnWired ==
    ASSUME NEW ps \in Tables, NEW alone, Wired(ps, alone), NEW p \in Pids,
           NEW u, Untaken(ps, u), NEW s \in Process, EndsOK(s), GoesOn(ps[p], s, u),
           alone => GoesOnAlone(ps, p, s, u)
    PROVE  Wired([ps EXCEPT ![p] = s], alone)
<1> DEFINE qs == [ps EXCEPT ![p] = s]
<1>1. \A x \in Pids : qs[x] = IF x = p THEN s ELSE ps[x]
  BY DEF Tables
<1>2. Piped(qs)
  BY GoesOnPiped DEF Wired
<1> HIDE DEF qs
<1>3. ASSUME alone, NEW x \in Pids PROVE AloneOK(qs[x])
  BY <1>1, <1>3 DEF Wired, GoesOnAlone
<1>4. ASSUME alone, NEW born, Ordered(ps, born) PROVE Ordered(qs, born)
  <2>0. GoesOnAlone(ps, p, s, u)
    BY <1>4
  <2>1. ASSUME NEW x \in Pids, qs[x].at # "nowhere", qs[x].parent \in Pids
        PROVE  qs[qs[x].parent].at # "nowhere" /\ born[qs[x].parent] < born[x]
    <3>1. qs[x].parent = ps[x].parent /\ ps[x].at # "nowhere"
      BY <1>1, <2>0, <2>1 DEF GoesOnAlone
    <3>2. ps[ps[x].parent].at # "nowhere" /\ born[ps[x].parent] < born[x]
      BY <1>4, <2>1, <3>1 DEF Ordered
    <3> QED
      BY <1>1, <2>0, <2>1, <3>1, <3>2 DEF GoesOnAlone
  <2>2. ASSUME NEW x \in Pids, NEW y \in Pids, HoldsW(qs[x]), qs[x].at \in {"exec", "program"},
               <<qs[x].in, "w">> \in qs[y].holds
        PROVE  born[y] < born[x]
    <3>1. HoldsW(ps[x]) /\ ps[x].at \in {"exec", "program"} /\ qs[x].in = ps[x].in
      BY <1>1, <2>0, <2>2 DEF GoesOnAlone
    <3>2. <<ps[x].in, "w">> \in ps[y].holds
      <4> SUFFICES ASSUME <<ps[x].in, "w">> \notin ps[y].holds PROVE FALSE
        OBVIOUS
      <4>1. y = p /\ ps[x].in = u
        BY <1>1, <2>2, <3>1 DEF GoesOn
      <4>2. EndsOK(ps[x])
        BY DEF Wired, Piped
      <4>3. s.holds \subseteq Pipes \X {"r", "w"}
        BY DEF Process
      <4>4. u \in Pipes
        BY <1>1, <2>2, <3>1, <4>1, <4>3
      <4> QED
        BY <4>1, <4>2, <4>4 DEF Untaken, EndsOK
    <3> QED
      BY <1>4, <3>1, <3>2 DEF Ordered
  <2> QED
    BY <2>1, <2>2 DEF Ordered
<1>5. ASSUME alone PROVE InOrder(qs)
  <2>1. PICK n \in Nat : \E born \in [Pids -> 0 .. n] : Ordered(ps, born)
    BY <1>5 DEF Wired, InOrder
  <2> QED
    BY <1>4, <1>5, <2>1 DEF InOrder
<1>6. Wired(qs, alone)
  BY <1>2, <1>3, <1>5 DEF Wired
<1> QED
  BY <1>6 DEF qs

\* A new process c, the child of p.
Joins(ps, c, w) ==
    /\ PairOK(c, c)
    /\ \A x \in Pids \ {w} : /\ PairOK(c, ps[x]) /\ PairOK(ps[x], c)
                             /\ OwnOK(c, ps[x]) /\ OwnOK(ps[x], c)

JoinsAlone(ps, p, c, w) ==
    /\ AloneOK(c) /\ c.at # "nowhere" /\ c.parent = p /\ ps[p].at # "nowhere"
    /\ \A x \in Pids \ {w} : ps[x].at \in {"exec", "program"} => <<ps[x].in, "w">> \notin c.holds

LEMMA BornPiped ==
    ASSUME NEW ps \in Tables, Piped(ps), NEW w \in Pids, NEW c, EndsOK(c), Joins(ps, c, w)
    PROVE  Piped([ps EXCEPT ![w] = c])
<1> DEFINE qs == [ps EXCEPT ![w] = c]
<1>1. \A x \in Pids : qs[x] = IF x = w THEN c ELSE ps[x]
  BY DEF Tables
<1> HIDE DEF qs
<1>2. \A x \in Pids : EndsOK(qs[x])
  BY <1>1 DEF Piped
<1>3. \A x, y \in Pids : PairOK(qs[x], qs[y])
  BY <1>1 DEF Piped, Joins
<1>4. \A x, y \in Pids : x # y => OwnOK(qs[x], qs[y])
  BY <1>1 DEF Piped, Joins
<1> QED
  BY <1>2, <1>3, <1>4 DEF Piped, qs

LEMMA BornOrdered ==
    ASSUME NEW ps \in Tables, NEW n \in Nat, NEW born \in [Pids -> 0 .. n], Ordered(ps, born),
           NEW p \in Pids, NEW w \in Pids, w # p, ps[w].at = "nowhere",
           NEW c \in Process, EndsOK(c), JoinsAlone(ps, p, c, w)
    PROVE  Ordered([ps EXCEPT ![w] = c], [born EXCEPT ![w] = n + 1])
<1> DEFINE qs == [ps EXCEPT ![w] = c]
           b == [born EXCEPT ![w] = n + 1]
<1>1. \A x \in Pids : qs[x] = IF x = w THEN c ELSE ps[x]
  BY DEF Tables
<1>2. \A x \in Pids : /\ b[x] = IF x = w THEN n + 1 ELSE born[x]
                      /\ born[x] \in 0 .. n
  OBVIOUS
<1> HIDE DEF qs, b
<1>3. \A x \in Pids : x # w => b[x] < b[w]
  BY <1>2
<1>4. ASSUME NEW x \in Pids, qs[x].at # "nowhere", qs[x].parent \in Pids
      PROVE  qs[qs[x].parent].at # "nowhere" /\ b[qs[x].parent] < b[x]
  <2>1. CASE x = w
    BY <1>1, <1>3, <2>1 DEF JoinsAlone
  <2>2. CASE x # w
    <3>1. ps[ps[x].parent].at # "nowhere" /\ born[ps[x].parent] < born[x] /\ qs[x] = ps[x]
      BY <1>1, <1>4, <2>2 DEF Ordered
    <3>2. ps[x].parent # w /\ ps[x].parent \in Pids
      BY <1>4, <3>1
    <3> QED
      BY <1>1, <1>2, <2>2, <3>1, <3>2
  <2> QED
    BY <2>1, <2>2
<1>5. ASSUME NEW x \in Pids, NEW y \in Pids, HoldsW(qs[x]), qs[x].at \in {"exec", "program"},
             <<qs[x].in, "w">> \in qs[y].holds
      PROVE  b[y] < b[x]
  <2>1. CASE x = w /\ y = w
    <3>1. c.holds \subseteq Pipes \X {"r", "w"}
      BY DEF Process
    <3>2. c.in \in Pipes
      BY <1>1, <1>5, <2>1, <3>1
    <3> QED
      BY <1>1, <1>5, <2>1, <3>2 DEF EndsOK
  <2>2. CASE x = w /\ y # w
    BY <1>3, <2>2
  <2>3. CASE x # w /\ y = w
    BY <1>1, <1>5, <2>3 DEF JoinsAlone
  <2>4. CASE x # w /\ y # w
    <3>1. born[y] < born[x]
      BY <1>1, <1>5, <2>4 DEF Ordered
    <3> QED
      BY <1>2, <2>4, <3>1
  <2> QED
    BY <2>1, <2>2, <2>3, <2>4
<1>6. Ordered(qs, b)
  BY <1>4, <1>5 DEF Ordered
<1> QED
  BY <1>6 DEF qs, b

LEMMA BornWired ==
    ASSUME NEW ps \in Tables, NEW alone, Wired(ps, alone), NEW p \in Pids, NEW w \in Pids, w # p,
           ps[w].at = "nowhere", NEW c \in Process, EndsOK(c), Joins(ps, c, w),
           alone => JoinsAlone(ps, p, c, w)
    PROVE  Wired([ps EXCEPT ![w] = c], alone)
<1> DEFINE qs == [ps EXCEPT ![w] = c]
<1>1. Piped(qs)
  BY BornPiped DEF Wired
<1>2. \A x \in Pids : qs[x] = IF x = w THEN c ELSE ps[x]
  BY DEF Tables
<1>3. ASSUME alone PROVE InOrder(qs)
  <2>1. PICK n \in Nat : \E born \in [Pids -> 0 .. n] : Ordered(ps, born)
    BY <1>3 DEF Wired, InOrder
  <2>2. PICK born \in [Pids -> 0 .. n] : Ordered(ps, born)
    BY <2>1
  <2>3. Ordered(qs, [born EXCEPT ![w] = n + 1])
    BY <1>3, <2>2, BornOrdered
  <2>4. n + 1 \in Nat /\ [born EXCEPT ![w] = n + 1] \in [Pids -> 0 .. n + 1]
    <3>1. \A x \in Pids : born[x] \in 0 .. n + 1
      OBVIOUS
    <3> QED
      BY <3>1
  <2> HIDE DEF qs
  <2> QED
    BY <2>3, <2>4 DEF InOrder
<1> HIDE DEF qs
<1>4. ASSUME alone, NEW x \in Pids PROVE AloneOK(qs[x])
  BY <1>2, <1>4 DEF Wired, JoinsAlone
<1>5. Wired(qs, alone)
  BY <1>1, <1>3, <1>4 DEF Wired
<1> QED
  BY <1>5 DEF qs

\* p forks: it goes on as s, and its child c runs the same line with the same pipes.
LEMMA ForkedWired ==
    ASSUME NEW ps \in Tables, NEW alone, Wired(ps, alone), NEW p \in Pids, NEW w \in Pids, w # p,
           ps[w].at = "nowhere", ps[p].at \in {"command"},
           NEW s \in Process, EndsOK(s), GoesOn(ps[p], s, "tty"), Crontab(s) = {}, ~Writer(s),
           alone => GoesOnAlone(ps, p, s, "tty"),
           NEW c \in Process, EndsOK(c), ReadsAs(ps[p], c), Crontab(c) = {}, ~Writer(c),
           c.holds \subseteq ps[p].holds, c.parent = p, c.at # "nowhere"
    PROVE  Wired([ps EXCEPT ![p] = s, ![w] = c], alone)
<1> DEFINE qs == [ps EXCEPT ![p] = s]
<1>1. Untaken(ps, "tty")
  BY TtyIsNoPipe DEF Untaken, Tables, Process
<1>2. Wired(qs, alone)
  BY <1>1, GoesOnWired
<1>3. qs \in Tables /\ \A x \in Pids : qs[x] = IF x = p THEN s ELSE ps[x]
  BY DEF Tables
<1> HIDE DEF qs
<1>4. Crontab(ps[p]) = {}
  <2>1. EndsOK(ps[p]) /\ ps[p] \in Process
    BY DEF Wired, Piped, Tables
  <2> QED
    BY <2>1, CommandHasNoCrontab
<1>5. ASSUME NEW x \in Pids \ {w}
      PROVE  PairOK(c, qs[x]) /\ PairOK(qs[x], c) /\ OwnOK(c, qs[x]) /\ OwnOK(qs[x], c)
  <2>1. PairOK(c, qs[x]) /\ OwnOK(c, qs[x])
    BY DEF PairOK, OwnOK
  <2>2. CASE x = p
    BY <1>3, <2>1, <2>2 DEF PairOK, OwnOK
  <2>3. CASE x # p
    <3>1. PairOK(ps[x], ps[p]) /\ OwnOK(ps[x], ps[p]) /\ EndsOK(ps[x]) /\ qs[x] = ps[x]
      BY <1>3, <2>3 DEF Wired, Piped
    <3>2. OwnOK(ps[x], c)
      BY <3>1 DEF OwnOK
    <3>3. PairOK(ps[x], c)
      BY <3>1 DEF PairOK, ReadsAs
    <3> QED
      BY <2>1, <3>1, <3>2, <3>3
  <2> QED
    BY <2>2, <2>3
<1>6. Joins(qs, c, w)
  BY <1>5 DEF Joins, PairOK
<1>7. ASSUME alone PROVE JoinsAlone(qs, p, c, w)
  <2>1. \A pipe \in Pipes : <<pipe, "w">> \notin ps[p].holds
    BY <1>4, <1>7 DEF Wired, AloneOK
  <2>2. c.holds \subseteq Pipes \X {"r", "w"}
    BY DEF Process
  <2>3. AloneOK(c) /\ \A in : <<in, "w">> \notin c.holds
    BY <2>1, <2>2 DEF AloneOK
  <2>4. qs[p].at # "nowhere"
    BY <1>3, <1>7 DEF GoesOnAlone
  <2> QED
    BY <2>3, <2>4 DEF JoinsAlone
<1>8. Wired([qs EXCEPT ![w] = c], alone)
  <2>1. qs[w].at = "nowhere"
    BY <1>3
  <2> QED
    BY <1>2, <1>3, <1>6, <1>7, <2>1, BornWired
<1> QED
  BY <1>8 DEF qs

LEMMA TtyUntaken ==
    ASSUME NEW ps \in Tables
    PROVE  Untaken(ps, "tty")
BY TtyIsNoPipe DEF Untaken, Tables, Process

-----------------------------------------------------------------------------
(* The invariant: process_command returns. *)

LEMMA StackTail ==
    ASSUME NEW stack \in Seq(Frames), stack # <<>>
    PROVE  /\ Tail(stack) \in Seq(Frames)
           /\ NoCrontab(stack) => NoCrontab(Tail(stack))
<1>1. Tail(stack) \in Seq(Frames) /\ \A i \in DOMAIN Tail(stack) :
         i + 1 \in DOMAIN stack /\ Tail(stack)[i] = stack[i + 1]
  BY HeadTailProperties
<1> QED
  BY <1>1 DEF NoCrontab

LEMMA NoCrontabNone ==
    ASSUME NEW r, r.stack \in Seq(Frames), NoCrontab(r.stack)
    PROVE  Crontab(r) = {}
<1>1. r.stack # <<>> => 1 \in DOMAIN r.stack /\ Head(r.stack) = r.stack[1]
  OBVIOUS
<1> QED
  BY <1>1 DEF NoCrontab, Crontab

\* It returns to main.
LEMMA ToMainWired ==
    ASSUME NEW ps \in Tables, NEW alone, Wired(ps, alone), NEW p \in Pids, ps[p].stack = <<>>,
           ps[p].at \in {"command", "kill", "wait", "any", "exec"}
    PROVE  Wired([ps EXCEPT ![p].at = "main", ![p].cmd = NoCommand, ![p].target = init], alone)
<1> DEFINE r == ps[p]
           s == [r EXCEPT !.at = "main", !.cmd = NoCommand, !.target = init]
<1>1. r \in Process /\ EndsOK(r)
  BY DEF Tables, Wired, Piped
<1>2. s \in Process
  BY <1>1, NoCommandType DEF Process
<1>3. /\ s.at = "main" /\ s.cmd = NoCommand /\ s.stack = <<>> /\ s.holds = r.holds
      /\ s.in = r.in /\ s.out = r.out /\ s.parent = r.parent /\ s.origin = r.origin
  BY <1>1 DEF Process
<1>4. r.at \in {"command", "kill", "wait", "any", "exec"} /\ r.stack = <<>>
  OBVIOUS
<1>5. [ps EXCEPT ![p].at = "main", ![p].cmd = NoCommand, ![p].target = init]
        = [ps EXCEPT ![p] = s]
  BY DEF Tables
<1>9. (alone => AloneOK(r)) /\ r = ps[p]
  BY DEF Wired
<1> HIDE DEF r, s
<1>6. EndsOK(s) /\ Crontab(s) = {} /\ Crontab(r) = {} /\ ~Writer(s)
  BY <1>1, <1>3, <1>4 DEF EndsOK, Crontab, NoCrontab, Runs, Writer
<1>7. GoesOn(r, s, "tty")
  BY <1>3, <1>4, <1>6 DEF GoesOn, ReadsAs, Fits, Runs
<1>8. ASSUME alone PROVE GoesOnAlone(ps, p, s, "tty")
  <2>1. AloneOK(s)
    BY <1>3, <1>4, <1>6, <1>8, <1>9 DEF AloneOK
  <2> QED
    BY <1>3, <1>4, <1>9, <2>1 DEF GoesOnAlone
<1> QED
  BY <1>2, <1>5, <1>6, <1>7, <1>8, <1>9, TtyUntaken, GoesOnWired

\* It returns to the caller of a script's lines, which hands over the next one.
LEMMA ToRunWired ==
    ASSUME NEW ps \in Tables, NEW alone, Wired(ps, alone), NEW p \in Pids,
           ps[p].stack # <<>>, Head(ps[p].stack) \in Frames, Head(ps[p].stack).do = "run",
           ps[p].at \in {"command", "kill", "wait", "any", "exec"},
           ps[p].at = "exec" => Head(ps[p].cmd.stages).name # "prog"
    PROVE  Wired([ps EXCEPT ![p].at = "command", ![p].cmd = Head(ps[p].stack).cmd,
                            ![p].target = init, ![p].stack = Tail(@)], alone)
<1> DEFINE r == ps[p]
           top == Head(r.stack)
           s == [r EXCEPT !.at = "command", !.cmd = top.cmd, !.target = init,
                          !.stack = Tail(@)]
<1>1. r \in Process /\ EndsOK(r) /\ r.stack \in Seq(Frames)
  BY DEF Tables, Wired, Piped, Process, Frames
<1>2. top \in Frames /\ top.cmd \in Commands /\ Tail(r.stack) \in Seq(Frames)
  BY <1>1, StackTail DEF Frames
<1>3. /\ r.at \in {"command", "kill", "wait", "any", "exec"} /\ r.stack # <<>> /\ top.do = "run"
      /\ Head(r.stack) = top /\ (r.at = "exec" => Head(r.cmd.stages).name # "prog")
      /\ (alone => AloneOK(r)) /\ r = ps[p]
  BY DEF Wired
<1>5. [ps EXCEPT ![p].at = "command", ![p].cmd = Head(ps[p].stack).cmd,
                 ![p].target = init, ![p].stack = Tail(@)] = [ps EXCEPT ![p] = s]
  BY DEF Tables
<1> HIDE DEF r, top
<1>4. s \in Process
  BY <1>1, <1>2 DEF Process, Frames
<1>6. /\ s.at = "command" /\ s.cmd = top.cmd /\ s.stack = Tail(r.stack) /\ s.holds = r.holds
      /\ s.in = r.in /\ s.out = r.out /\ s.parent = r.parent
  BY <1>1 DEF Process
<1> HIDE DEF s
<1>7. Runs(r.stack) /\ Crontab(r) = {}
  BY <1>3 DEF Runs, Crontab
<1>8. NoCrontab(s.stack) /\ ~Runs(s.stack)
  BY <1>1, <1>3, <1>6, <1>7, StackTail DEF EndsOK
<1>9. Crontab(s) = {} /\ ~Writer(s)
  BY <1>2, <1>6, <1>8, NoCrontabNone DEF Writer
<1>10. EndsOK(s)
  BY <1>1, <1>3, <1>6, <1>7, <1>8, <1>9 DEF EndsOK
<1>11. GoesOn(r, s, "tty")
  BY <1>3, <1>6, <1>7, <1>8, <1>9 DEF GoesOn, ReadsAs, Fits
<1>12. ASSUME alone PROVE GoesOnAlone(ps, p, s, "tty")
  <2>1. AloneOK(s)
    BY <1>3, <1>6, <1>7, <1>12 DEF AloneOK
  <2> QED
    BY <1>3, <1>6, <2>1 DEF GoesOnAlone
<1> QED
  BY <1>3, <1>4, <1>5, <1>10, <1>11, <1>12, TtyUntaken, GoesOnWired

\* The alarm's child becomes the crontab that reads what echo wrote.
LEMMA ToCrontabWired ==
    ASSUME NEW ps \in Tables, NEW alone, Wired(ps, alone), NEW p \in Pids,
           ps[p].stack # <<>>, Head(ps[p].stack) \in Frames, Head(ps[p].stack).do = "crontab",
           ps[p].at \in {"command", "kill", "wait", "any", "exec"}
    PROVE  LET pipe == Head(ps[p].stack).pipe
           IN  Wired(Execed([ps EXCEPT ![p].holds = @ \ {<<pipe, "w">>}, ![p].in = pipe], p), alone)
<1> DEFINE r == ps[p]
           top == Head(r.stack)
           pipe == top.pipe
           s == [r EXCEPT !.at = "program", !.stack = <<>>, !.target = init,
                          !.holds = @ \ {<<pipe, "w">>}, !.in = pipe]
<1>1. r \in Process /\ EndsOK(r) /\ r.stack \in Seq(Frames)
  BY DEF Tables, Wired, Piped, Process, Frames
<1>2. pipe \in Streams /\ <<>> \in Seq(Frames)
  BY DEF Frames
<1>3. /\ r.at \in {"command", "kill", "wait", "any", "exec"} /\ Crontab(r) = {pipe}
      /\ (alone => AloneOK(r)) /\ r = ps[p]
  BY DEF Wired, Crontab
<1>4. Execed([ps EXCEPT ![p].holds = @ \ {<<pipe, "w">>}, ![p].in = pipe], p)
        = [ps EXCEPT ![p] = s]
  BY <1>1 DEF Tables, Execed, Process
<1>5. r.at = "any"
  BY <1>1, <1>3, CommandHasNoCrontab
<1> HIDE DEF r, top, pipe
<1>6. s \in Process
  BY <1>1, <1>2 DEF Process, Frames
<1>7. /\ s.at = "program" /\ s.cmd = r.cmd /\ s.stack = <<>> /\ s.in = pipe /\ s.out = r.out
      /\ s.holds = r.holds \ {<<pipe, "w">>} /\ s.parent = r.parent
  BY <1>1 DEF Process
<1> HIDE DEF s
<1>8. ~Writer(s) /\ Crontab(s) = {} /\ NoCrontab(s.stack) /\ ~Runs(s.stack)
  <2>1. s.cmd = NoCommand
    BY <1>1, <1>5, <1>7 DEF EndsOK
  <2> QED
    BY <1>7, <2>1 DEF Writer, Crontab, NoCrontab, Runs, NoCommand, Command
<1>9. EndsOK(s)
  BY <1>1, <1>3, <1>7, <1>8 DEF EndsOK
<1>10. GoesOn(r, s, "tty")
  BY <1>3, <1>7, <1>8 DEF GoesOn
<1>11. ASSUME alone PROVE GoesOnAlone(ps, p, s, "tty")
  <2>1. ~HoldsW(s)
    BY <1>3, <1>5, <1>7, <1>11 DEF AloneOK, HoldsW
  <2>2. AloneOK(s)
    BY <2>1 DEF AloneOK, HoldsW
  <2> QED
    BY <1>3, <1>5, <1>7, <2>1, <2>2 DEF GoesOnAlone
<1>12. Wired([ps EXCEPT ![p] = s], alone)
  BY <1>3, <1>6, <1>9, <1>10, <1>11, TtyUntaken, GoesOnWired
<1> QED
  BY <1>4, <1>12 DEF pipe, top, r
  
LEMMA ReturnedWired ==
    ASSUME NEW ps, Sound(ps), NEW alone, Wired(ps, alone), NEW p \in Pids,
           ps[p].at \in {"command", "kill", "wait", "any", "exec"},
           ps[p].at = "exec" => Head(ps[p].cmd.stages).name # "prog"
    PROVE  Wired(Returned(ps, p), alone)
<1> DEFINE top == Head(ps[p].stack)
<1>1. ps \in Tables
  BY DEF Sound
<1>2. CASE ps[p].stack = <<>>
  <2>1. Returned(ps, p) = [ps EXCEPT ![p].at = "main", ![p].cmd = NoCommand, ![p].target = init]
    BY <1>2 DEF Returned
  <2> QED
    BY <1>1, <1>2, <2>1, ToMainWired
<1>3. CASE Returned(ps, p) = Exited(ps, p)
  BY <1>3, ExitedWired
<1>4. CASE /\ ps[p].stack # <<>> /\ top \in Frames /\ top.do = "crontab"
           /\ Returned(ps, p) = Execed([ps EXCEPT ![p].holds = @ \ {<<top.pipe, "w">>},
                                                   ![p].in = top.pipe], p)
  BY <1>1, <1>4, ToCrontabWired
<1>5. CASE /\ ps[p].stack # <<>> /\ top \in Frames /\ top.do = "run"
           /\ Returned(ps, p) =
                 [ps EXCEPT ![p].at = "command", ![p].cmd = top.cmd, ![p].target = init,
                            ![p].stack = Tail(@)]
  BY <1>1, <1>5, ToRunWired
<1> QED
  BY <1>1, <1>2, <1>3, <1>4, <1>5, ReturnedIs, Zenon

-----------------------------------------------------------------------------
(* The invariant and the initial state. *)

LEMMA InitiallyWired == Init => Wired(proc, TRUE)
<1> SUFFICES ASSUME Init PROVE Wired(proc, TRUE)
  OBVIOUS
<1>1. ASSUME NEW x \in Pids
      PROVE  /\ proc[x].stack = <<>> /\ proc[x].cmd = NoCommand /\ proc[x].holds = {}
             /\ proc[x].in = "tty" /\ proc[x].out = "tty" /\ proc[x].parent = init
             /\ proc[x].at \in {"main", "nowhere"}
  <2>1. CASE x = root
    <3>1. proc[x] = [NoProcess EXCEPT !.state = "running", !.origin = "root", !.at = "main"]
      BY <2>1 DEF Init
    <3> QED
      BY <3>1 DEF NoProcess
  <2>2. CASE x # root
    <3>1. proc[x] = NoProcess
      BY <2>2 DEF Init
    <3> QED
      BY <3>1 DEF NoProcess
  <2> QED
    BY <2>1, <2>2
<1>2. ASSUME NEW x \in Pids
      PROVE  /\ Crontab(proc[x]) = {} /\ ~Writer(proc[x]) /\ ~Runs(proc[x].stack)
             /\ NoCrontab(proc[x].stack) /\ ~HoldsW(proc[x])
  <2>1. Crontab(proc[x]) = {} /\ ~Runs(proc[x].stack) /\ NoCrontab(proc[x].stack)
    BY <1>1 DEF Crontab, Runs, NoCrontab
  <2>2. ~Writer(proc[x]) /\ ~HoldsW(proc[x])
    BY <1>1 DEF Writer, HoldsW
  <2> QED
    BY <2>1, <2>2
<1>3. ASSUME NEW x \in Pids PROVE EndsOK(proc[x]) /\ AloneOK(proc[x])
  BY <1>1, <1>2, TtyIsNoPipe DEF EndsOK, AloneOK
<1>4. Piped(proc)
  BY <1>2, <1>3 DEF Piped, PairOK, OwnOK
<1>5. Ordered(proc, [x \in Pids |-> 0])
  BY <1>1, <1>2, ShellConstants DEF Ordered
<1>6. InOrder(proc)
  <2>1. 0 \in Nat /\ [x \in Pids |-> 0] \in [Pids -> 0 .. 0]
    OBVIOUS
  <2> QED
    BY <1>5, <2>1 DEF InOrder
<1> QED
  BY <1>3, <1>4, <1>6 DEF Wired

-----------------------------------------------------------------------------
(* The invariant and what the actions do: main and its commands. *)

\* Who prompts reads no pipe and, while nothing is shared, holds no writing end.
LEMMA ShowPromptWired ==
    ASSUME Sound(proc), NEW p \in Pids, ShowPrompt(p), NEW alone, Wired(proc, alone),
           alone => proc[p].origin # "stage", tty \in {"cooked", "raw"}
    PROVE  Wired(proc', alone)
<1>1. proc \in Tables /\ proc[p] \in Process /\ EntryOK(proc[p])
  BY At
<1>2. proc[p].at = "main" /\ proc[p].stack = <<>> /\ EndsOK(proc[p])
      /\ (alone => AloneOK(proc[p]))
  BY <1>1 DEF ShowPrompt, Running, EntryOK, Wired, Piped
<1>3. PICK mode \in {"cooked", "raw"} :
           proc' = [proc EXCEPT ![p] = [proc[p] EXCEPT !.at = "prompt", !.backup = mode]]
  <2>1. CASE proc' = [proc EXCEPT ![p].at = "prompt", ![p].backup = tty]
    BY <1>1, <2>1 DEF Tables
  <2>2. CASE proc' = [proc EXCEPT ![p].at = "prompt"]
    <3>1. [proc[p] EXCEPT !.at = "prompt"] =
            [proc[p] EXCEPT !.at = "prompt", !.backup = proc[p].backup]
      BY <1>1 DEF Process
    <3>2. proc[p].backup \in {"cooked", "raw"}
      BY <1>1 DEF Process
    <3> QED
      BY <1>1, <2>2, <3>1, <3>2 DEF Tables
  <2> QED
    BY <2>1, <2>2 DEF ShowPrompt
<1> DEFINE r == proc[p]
           s == [r EXCEPT !.at = "prompt", !.backup = mode]
<1>4. s \in Process
  BY <1>1 DEF Process
<1>5. /\ s.at = "prompt" /\ s.stack = <<>> /\ s.cmd = r.cmd /\ s.holds = r.holds
      /\ s.in = r.in /\ s.out = r.out /\ s.parent = r.parent
  BY <1>1, <1>2 DEF Process
<1>6. r = proc[p] /\ proc' = [proc EXCEPT ![p] = s]
  BY <1>3
<1> HIDE DEF r, s
<1>7. EndsOK(s) /\ GoesOn(r, s, "tty")
  BY <1>2, <1>5, <1>6 DEF EndsOK, Crontab, NoCrontab, Runs, Writer, GoesOn, ReadsAs, Fits
<1>8. ASSUME alone PROVE GoesOnAlone(proc, p, s, "tty")
  <2>1. ~HoldsW(s)
    BY <1>2, <1>5, <1>6, <1>8 DEF AloneOK, HoldsW
  <2>2. AloneOK(s)
    BY <2>1 DEF AloneOK, HoldsW
  <2> QED
    BY <1>2, <1>5, <1>6, <2>2 DEF GoesOnAlone
<1> QED
  BY <1>1, <1>4, <1>6, <1>7, <1>8, TtyUntaken, GoesOnWired

LEMMA ReadsWired ==
    ASSUME Sound(proc), NEW p \in Pids, Running(p, "prompt"), NEW line \in Commands,
           line.stages # <<>>, Reads(p, line), NEW alone, Wired(proc, alone)
    PROVE  Wired(proc', alone)
<1>1. proc \in Tables /\ proc[p] \in Process /\ EntryOK(proc[p])
  BY At
<1>2. proc[p].at = "prompt" /\ proc[p].stack = <<>> /\ EndsOK(proc[p])
      /\ (alone => AloneOK(proc[p]))
  BY <1>1 DEF Running, EntryOK, Wired, Piped
<1>3. proc[p].in \notin Pipes
  <2>1. ~Leaves(<<>>)
    BY DEF Leaves
  <2> QED
    BY <1>1, <1>2, <2>1 DEF EntryOK
<1> DEFINE r == proc[p]
           s == [r EXCEPT !.at = "command", !.cmd = line, !.job = init, !.late = FALSE]
<1>4. s \in Process
  BY <1>1 DEF Process
<1>5. /\ s.at = "command" /\ s.stack = <<>> /\ s.holds = r.holds /\ s.cmd = line
      /\ s.in = r.in /\ s.out = r.out /\ s.parent = r.parent
  BY <1>1, <1>2 DEF Process
<1>6. r = proc[p] /\ proc' = [proc EXCEPT ![p] = s]
  BY <1>1 DEF Reads, Tables
<1> HIDE DEF r, s
<1>7. NoCrontab(s.stack) /\ ~Runs(s.stack) /\ Crontab(s) = {} /\ ~Writer(s)
  BY <1>5 DEF Crontab, NoCrontab, Runs, Writer
<1>8. EndsOK(s) /\ GoesOn(r, s, "tty")
  BY <1>2, <1>3, <1>5, <1>6, <1>7 DEF EndsOK, GoesOn
<1>9. ASSUME alone PROVE GoesOnAlone(proc, p, s, "tty")
  <2>1. ~HoldsW(s)
    BY <1>2, <1>5, <1>6, <1>9 DEF AloneOK, HoldsW
  <2>2. AloneOK(s)
    BY <2>1 DEF AloneOK, HoldsW
  <2> QED
    BY <1>2, <1>5, <1>6, <2>2 DEF GoesOnAlone
<1> QED
  BY <1>1, <1>4, <1>6, <1>8, <1>9, TtyUntaken, GoesOnWired

LEMMA ReadWired ==
    ASSUME Sound(proc), NEW p \in Pids, ReadLine(p) \/ ReadNothing(p),
           NEW alone, Wired(proc, alone)
    PROVE  Wired(proc', alone)
<1>1. Running(p, "prompt")
  BY DEF ReadLine, ReadNothing
<1>2. ASSUME NEW line \in Lines, Reads(p, line) PROVE Wired(proc', alone)
  <2>1. line \in Commands /\ line.stages # <<>>
    BY ShellConstants
  <2> QED
    BY <1>1, <1>2, <2>1, ReadsWired
<1>3. CASE ReadNothing(p)
  <2>1. "overlong" \in Names
    BY DEF Names
  <2>2. /\ Command(<<Call("overlong")>>, FALSE) \in Commands
        /\ Command(<<Call("overlong")>>, FALSE).stages # <<>>
    BY <2>1, CallsType DEF Command
  <2>3. Reads(p, Command(<<Call("overlong")>>, FALSE))
    BY <1>3 DEF ReadNothing
  <2> QED
    BY <1>1, <2>2, <2>3, ReadsWired
<1> QED
  BY <1>2, <1>3 DEF ReadLine

LEMMA EndsWired ==
    ASSUME Sound(proc), NEW p \in Pids, EndOfInput(p) \/ CrashingLine(p) \/ Exit(p),
           NEW alone, Wired(proc, alone)
    PROVE  Wired(proc', alone)
<1>1. proc' = Exited(proc, p)
  BY DEF EndOfInput, CrashingLine, Exit
<1> QED
  BY <1>1, ExitedWired

LEMMA PauseWired ==
    ASSUME Sound(proc), NEW p \in Pids, Pause(p), NEW alone, Wired(proc, alone)
    PROVE  Wired(proc', alone)
<1>1. proc[p].at = "command" /\ proc \in Tables
  BY At DEF Pause, Called, Running
<1>2. CASE \E t \in Pids \ {p} : proc' = Returned(Stopped(proc, t), p)
  <2>1. PICK t \in Pids \ {p} : proc' = Returned(Stopped(proc, t), p)
    BY <1>2
  <2> DEFINE ps == Stopped(proc, t)
  <2>2. ps[p].at = "command"
    BY <1>1, <2>1 DEF Stopped, Tables
  <2>3. Sound(ps) /\ Wired(ps, alone)
    BY <2>1, StoppedSound, StoppedWired
  <2> HIDE DEF ps
  <2> QED
    BY <2>1, <2>2, <2>3, ReturnedWired DEF ps
<1>3. CASE proc' = [Stopped(proc, p) EXCEPT ![p].at = "kill"]
  <2> DEFINE ps == Stopped(proc, p)
             r == ps[p]
             s == [r EXCEPT !.at = "kill"]
  <2>1. Sound(ps) /\ Wired(ps, alone) /\ ps \in Tables /\ r.at = "command"
    <3>1. proc[p] \in Process
      BY <1>1 DEF Tables
    <3>2. r.at = "command"
      BY <1>1, <3>1 DEF Stopped, Tables, Process
    <3>3. Sound(ps) /\ Wired(ps, alone)
      BY StoppedSound, StoppedWired
    <3> QED
      BY <3>2, <3>3 DEF Sound
  <2> HIDE DEF ps
  <2>2. r \in Process /\ EndsOK(r) /\ (alone => AloneOK(r)) /\ r = ps[p]
    BY <2>1 DEF Tables, Wired, Piped
  <2> HIDE DEF r
  <2>3. /\ s \in Process /\ s.at = "kill" /\ s.stack = r.stack /\ s.cmd = r.cmd
        /\ s.holds = r.holds /\ s.in = r.in /\ s.out = r.out /\ s.parent = r.parent
    BY <2>2 DEF Process
  <2>4. proc' = [ps EXCEPT ![p] = s]
    BY <1>3, <2>1, <2>2 DEF Tables, ps
  <2> HIDE DEF s
  <2>5. Crontab(s) = {} /\ Crontab(r) = {} /\ ~Writer(s)
    <3>1. Crontab(r) = {}
      BY <2>1, <2>2, CommandHasNoCrontab
    <3> QED
      BY <2>3, <3>1 DEF Crontab, Writer
  <2>6. EndsOK(s)
    BY <2>1, <2>2, <2>3, <2>5 DEF EndsOK
  <2>7. ReadsAs(r, s)
    BY <2>1, <2>3 DEF ReadsAs, Fits
  <2>8. GoesOn(r, s, "tty")
    BY <2>3, <2>5, <2>7 DEF GoesOn
  <2>9. ASSUME alone PROVE GoesOnAlone(ps, p, s, "tty")
    <3>1. AloneOK(s)
      BY <2>1, <2>2, <2>3, <2>5, <2>9 DEF AloneOK
    <3> QED
      BY <2>1, <2>2, <2>3, <3>1 DEF GoesOnAlone
  <2>10. Wired([ps EXCEPT ![p] = s], alone)
    BY <2>1, <2>2, <2>3, <2>6, <2>8, <2>9, TtyUntaken, GoesOnWired
  <2> QED
    BY <2>4, <2>10
<1> QED
  BY <1>2, <1>3 DEF Pause

LEMMA ResumeWired ==
    ASSUME Sound(proc), NEW p \in Pids, Resume(p), NEW alone, Wired(proc, alone)
    PROVE  Wired(proc', alone)
<1>1. proc[p].at = "kill" /\ proc' = Returned(proc, p)
  BY DEF Resume, Running
<1> QED
  BY <1>1, ReturnedWired

LEMMA MyBgWired ==
    ASSUME Sound(proc), NEW p \in Pids, MyBg(p), NEW alone, Wired(proc, alone)
    PROVE  Wired(proc', alone)
<1>1. proc[p].at = "command" /\ proc \in Tables
  BY At DEF MyBg, Called, Running
<1>2. PICK t \in Pids : proc' = Returned(Released(Continued(proc, t), t, init), p)
  BY DEF MyBg
<1> DEFINE ps == Released(Continued(proc, t), t, init)
<1>3. Sound(ps) /\ Wired(ps, alone)
  BY ResumedSound, ResumedWired, ShellConstants
<1>4. ps[p].at = "command"
  BY <1>1, ContinuedEntry
<1> HIDE DEF ps
<1> QED
  BY <1>2, <1>3, <1>4, ReturnedWired DEF ps

LEMMA HelperWired ==
    ASSUME Sound(proc), NEW q \in Pids, Helper(q), NEW alone, Wired(proc, alone)
    PROVE  Wired(proc', alone)
<1> DEFINE t == proc[q].target
           qs == Released(Continued(proc, t), t, proc[q].parent)
<1>1. proc[q].at = "helper" /\ proc' = Exited(qs, q)
  BY DEF Helper, Running
<1>2. t \in Pids
  BY <1>1, At DEF EntryOK
<1>3. Sound(qs) /\ Wired(qs, alone)
  BY <1>1, <1>2, ResumedSound, ResumedWired
<1> HIDE DEF qs
<1> QED
  BY <1>1, <1>3, ExitedWired

LEMMA Pushed ==
    ASSUME NEW stack \in Seq(Frames), NEW frame \in Frames
    PROVE  LET new == <<frame>> \o stack
           IN  /\ new \in Seq(Frames) /\ new # <<>> /\ Head(new) = frame /\ Tail(new) = stack
               /\ frame.do # "crontab" /\ NoCrontab(stack) => NoCrontab(new)
<1> DEFINE new == <<frame>> \o stack
<1>1. /\ new \in Seq(Frames) /\ Len(new) = Len(stack) + 1 /\ new[1] = frame
      /\ \A i \in 1 .. Len(stack) : new[i + 1] = stack[i]
  OBVIOUS
<1>2. Tail(new) = stack
  OBVIOUS
<1> HIDE DEF new
<1>3. ASSUME frame.do # "crontab", NoCrontab(stack), NEW i \in DOMAIN new
      PROVE  new[i].do # "crontab"
  <2>1. CASE i = 1
    BY <1>1, <1>3, <2>1
  <2>2. CASE i # 1
    <3>1. i - 1 \in 1 .. Len(stack) /\ (i - 1) + 1 = i
      BY <1>1, <2>2
    <3>2. new[i] = stack[i - 1] /\ i - 1 \in DOMAIN stack
      BY <1>1, <3>1
    <3> QED
      BY <1>3, <3>2 DEF NoCrontab
  <2> QED
    BY <2>1, <2>2
<1>4. new # <<>> /\ Head(new) = frame
  BY <1>1
<1> QED
  BY <1>1, <1>2, <1>3, <1>4 DEF NoCrontab, new

\* A script: the command goes on as another, behind which a frame is left on the stack.
LEMMA PushedWired ==
    ASSUME Sound(proc), NEW p \in Pids, Running(p, "command"), NEW alone, Wired(proc, alone),
           NEW cmd \in Commands, NEW frame \in Frames, frame.do \in {"exit", "run"},
           proc' = [proc EXCEPT ![p].cmd = cmd, ![p].stack = <<frame>> \o @],
           cmd.stages # <<>>, Runs(proc[p].stack) => frame.do = "exit",
           frame.do = "run" => FirstLine(cmd) /\ frame.cmd.stages # <<>>,
           \A rest : CommandFits(proc[p].cmd, rest) =>
              CommandFits(cmd, rest) /\ (frame.do = "run" => CommandFits(frame.cmd, rest))
    PROVE  Wired(proc', alone)
<1>1. proc \in Tables /\ proc[p] \in Process /\ EntryOK(proc[p])
  BY At
<1>2. proc[p].at = "command" /\ EndsOK(proc[p]) /\ (alone => AloneOK(proc[p]))
  BY DEF Running, Wired, Piped
<1> DEFINE r == proc[p]
           s == [r EXCEPT !.cmd = cmd, !.stack = <<frame>> \o @]
<1>3. s \in Process
  BY <1>1, PushedType
<1>4. /\ s.at = "command" /\ s.stack = <<frame>> \o r.stack /\ s.holds = r.holds /\ s.cmd = cmd
      /\ s.in = r.in /\ s.out = r.out /\ s.parent = r.parent
  BY <1>1, <1>2 DEF Process
<1>5. r = proc[p] /\ proc' = [proc EXCEPT ![p] = s] /\ r.stack \in Seq(Frames)
  BY <1>1 DEF Tables, Process, Frames
<1> HIDE DEF r, s
<1>6. /\ s.stack # <<>> /\ Head(s.stack) = frame /\ Tail(s.stack) = r.stack
      /\ NoCrontab(r.stack) => NoCrontab(s.stack)
  BY <1>4, <1>5, Pushed
<1>7. NoCrontab(r.stack) /\ Crontab(s) = {} /\ ~Writer(s) /\ (Runs(s.stack) <=> frame.do = "run")
  BY <1>2, <1>4, <1>5, <1>6 DEF EndsOK, Crontab, Writer, Runs
<1>8. EndsOK(s)
  BY <1>2, <1>4, <1>5, <1>6, <1>7 DEF EndsOK
<1>9. ReadsAs(r, s)
  BY <1>2, <1>4, <1>5, <1>6, <1>7 DEF ReadsAs, Fits
<1>10. GoesOn(r, s, "tty")
  BY <1>4, <1>7, <1>9 DEF GoesOn
<1>11. ASSUME alone PROVE GoesOnAlone(proc, p, s, "tty")
  <2>1. AloneOK(s)
    BY <1>2, <1>4, <1>5, <1>11 DEF AloneOK, Crontab
  <2> QED
    BY <1>2, <1>4, <1>5, <2>1 DEF GoesOnAlone
<1>12. Untaken(proc, "tty")
  BY <1>1, TtyUntaken
<1>13. Wired([proc EXCEPT ![p] = s], alone)
  BY <1>1, <1>3, <1>5, <1>8, <1>10, <1>11, <1>12, GoesOnWired
<1> QED
  BY <1>5, <1>13

\* A command that only a user can have typed is not called by a script.
LEMMA TypedByUser ==
    ASSUME Sound(proc), NEW p \in Pids, Called(p, Names \ {"prog", "missing"}),
           NEW alone, Wired(proc, alone)
    PROVE  ~Runs(proc[p].stack)
<1>1. EndsOK(proc[p]) /\ proc[p].at = "command"
  BY DEF Called, Running, Wired, Piped
<1>2. Head(proc[p].cmd.stages).name \notin {"prog", "missing"}
  BY DEF Called
<1> QED
  BY <1>1, <1>2 DEF EndsOK, FirstLine

\* What is left of a line when its first command is called prog.
LEMMA RenamedFits ==
    ASSUME NEW cmd \in Commands, cmd.stages # <<>>
    PROVE  /\ FirstLine(Renamed(cmd, "prog")) /\ Renamed(cmd, "prog").stages # <<>>
           /\ \A rest : CommandFits(cmd, rest) => CommandFits(Renamed(cmd, "prog"), rest)
<1> DEFINE new == Renamed(cmd, "prog")
<1>1. cmd.stages \in Seq(Stages) /\ 1 \in DOMAIN cmd.stages /\ cmd.stages[1] \in Stages
  <2>1. cmd.stages \in Seq(Stages)
    BY DEF Commands
  <2> QED
    BY <2>1
<1>2. new.stages = [cmd.stages EXCEPT ![1] = [cmd.stages[1] EXCEPT !.name = "prog"]]
  BY <1>1 DEF Renamed, Commands
<1>3. /\ Len(new.stages) = Len(cmd.stages) /\ new.stages # <<>>
      /\ new.stages[1].name = "prog" /\ Head(new.stages) = new.stages[1]
      /\ \A i \in 1 .. Len(cmd.stages) : i # 1 => new.stages[i] = cmd.stages[i]
      /\ new.stages[1].from = cmd.stages[1].from /\ new.stages[1].to = cmd.stages[1].to
  BY <1>1, <1>2 DEF Stages
<1> HIDE DEF new
<1>4. FirstLine(new)
  BY <1>3 DEF FirstLine
<1>5. Clean("prog")
  BY DEF Clean, StartingOthers
<1>6. \A rest : CommandFits(cmd, rest) => CommandFits(new, rest)
  BY <1>3, <1>5 DEF CommandFits, SameCommands
<1> QED
  BY <1>3, <1>4, <1>6 DEF new

\* A line that begins with a command that starts others is none that fits.
LEMMA StartersDoNotFit ==
    ASSUME NEW cmd \in Commands, Head(cmd.stages).name \in StartingOthers, cmd.stages # <<>>
    PROVE  \A rest : ~CommandFits(cmd, rest)
<1>1. cmd.stages \in Seq(Stages)
  BY DEF Commands
<1>2. 1 \in 1 .. Len(cmd.stages) /\ Head(cmd.stages) = cmd.stages[1]
  BY <1>1
<1> QED
  BY <1>2 DEF CommandFits, SameCommands, Clean

LEMMA CallStages ==
    ASSUME NEW first, NEW second
    PROVE  /\ Command(<<Call(first)>>, FALSE).stages # <<>>
           /\ Head(Command(<<Call(first)>>, FALSE).stages).name = first
           /\ Len(Command(<<Call(first)>>, FALSE).stages) = 1
           /\ Command(<<Call(first), Call(second)>>, FALSE).stages # <<>>
BY DEF Command, Call

LEMMA ScriptWired ==
    ASSUME Sound(proc), NEW p \in Pids,
           GitUserCheck(p) \/ Bbc(p) \/ Psvis(p) \/ Psvis2(p), NEW alone, Wired(proc, alone)
    PROVE  Wired(proc', alone)
<1>1. Running(p, "command")
  BY DEF GitUserCheck, Bbc, Psvis, Psvis2, Called
<1>2. {"prog", "missing"} \subseteq Names
  BY DEF Names
<1> DEFINE cmd == proc[p].cmd
           python == Renamed(cmd, "prog")
<1>3. cmd \in Commands /\ cmd.stages # <<>>
  BY <1>1, At DEF Running, Process, Wired, Piped, EndsOK
<1>4. /\ python \in Commands /\ FirstLine(python) /\ python.stages # <<>>
      /\ \A rest : CommandFits(cmd, rest) => CommandFits(python, rest)
  BY <1>2, <1>3, RenamedType, RenamedFits
<1>5. ~GitUserCheck(p) => ~Runs(proc[p].stack)
  <2>1. Bbc(p) \/ Psvis(p) \/ Psvis2(p) => Called(p, Names \ {"prog", "missing"})
    BY DEF Bbc, Psvis, Psvis2, Called, Names
  <2> QED
    BY <2>1, TypedByUser
<1>6. CASE GitUserCheck(p)
  <2>1. proc' = [proc EXCEPT ![p].cmd = python, ![p].stack = <<ExitFrame>> \o @]
    BY <1>6, At DEF GitUserCheck, Tables, Process
  <2>2. ExitFrame \in Frames /\ ExitFrame.do = "exit"
    BY FrameTypes DEF ExitFrame, Frame
  <2> HIDE DEF python
  <2> QED
    BY <1>1, <1>4, <2>1, <2>2, PushedWired
<1>7. ASSUME NEW new \in Commands, NEW later \in Commands,
             proc' = [proc EXCEPT ![p].cmd = new, ![p].stack = <<RunFrame(later)>> \o @],
             ~GitUserCheck(p), FirstLine(new), new.stages # <<>>, later.stages # <<>>,
             \A rest : CommandFits(cmd, rest) => CommandFits(new, rest) /\ CommandFits(later, rest)
      PROVE  Wired(proc', alone)
  <2> DEFINE frame == RunFrame(later)
  <2>1. frame \in Frames /\ frame.do = "run" /\ frame.cmd = later
    BY FrameTypes DEF RunFrame, Frame
  <2>2. proc' = [proc EXCEPT ![p].cmd = new, ![p].stack = <<frame>> \o @]
    BY <1>7
  <2> HIDE DEF frame
  <2> QED
    BY <1>1, <1>5, <1>7, <2>1, <2>2, PushedWired
<1>8. CASE Bbc(p)
  <2>1. proc' = [proc EXCEPT ![p].cmd = python, ![p].stack = <<RunFrame(python)>> \o @]
    BY <1>8 DEF Bbc
  <2>2. CASE ~GitUserCheck(p)
    <3> HIDE DEF python, cmd
    <3> QED
      BY <1>4, <1>7, <2>1, <2>2
  <2> QED
    BY <1>6, <2>2
<1>9. ASSUME Psvis(p) \/ Psvis2(p) PROVE \A rest : ~CommandFits(cmd, rest)
  <2>1. Head(cmd.stages).name \in StartingOthers
    BY <1>9 DEF Psvis, Psvis2, Called, StartingOthers
  <2> QED
    BY <1>3, <2>1, StartersDoNotFit
<1>10. CASE Psvis(p) /\ ~GitUserCheck(p)
  <2>1. PICK name \in {"prog", "missing"} :
             proc' = [proc EXCEPT ![p].cmd = Command(<<Call(name)>>, FALSE),
                        ![p].stack = <<RunFrame(Command(<<Call("prog")>>, FALSE))>> \o @]
    BY <1>10 DEF Psvis
  <2> DEFINE new == Command(<<Call(name)>>, FALSE)
             later == Command(<<Call("prog")>>, FALSE)
  <2>2. new \in Commands /\ later \in Commands
    BY <1>2, CallsType
  <2>3. /\ new.stages # <<>> /\ later.stages # <<>> /\ Len(new.stages) = 1
        /\ Head(new.stages).name \in {"prog", "missing"}
    BY CallStages
  <2> HIDE DEF new, later
  <2>4. FirstLine(new)
    BY <2>3 DEF FirstLine
  <2>5. \A rest : ~CommandFits(cmd, rest)
    BY <1>9, <1>10
  <2>6. proc' = [proc EXCEPT ![p].cmd = new, ![p].stack = <<RunFrame(later)>> \o @]
    BY <2>1 DEF new, later
  <2> QED
    BY <1>7, <1>10, <2>2, <2>3, <2>4, <2>5, <2>6
<1>11. CASE Psvis2(p) /\ ~GitUserCheck(p)
  <2>1. PICK name \in {"prog", "missing"} :
             proc' = [proc EXCEPT ![p].cmd = Command(<<Call("prog")>>, FALSE),
                        ![p].stack =
                          <<RunFrame(Command(<<Call(name), Call("prog")>>, FALSE))>> \o @]
    BY <1>11 DEF Psvis2
  <2> DEFINE new == Command(<<Call("prog")>>, FALSE)
             later == Command(<<Call(name), Call("prog")>>, FALSE)
  <2>2. new \in Commands /\ later \in Commands
    BY <1>2, CallsType
  <2>3. /\ new.stages # <<>> /\ later.stages # <<>> /\ Len(new.stages) = 1
        /\ Head(new.stages).name = "prog"
    BY CallStages
  <2> HIDE DEF new, later
  <2>4. FirstLine(new)
    BY <2>3 DEF FirstLine
  <2>5. \A rest : ~CommandFits(cmd, rest)
    BY <1>9, <1>11
  <2>6. proc' = [proc EXCEPT ![p].cmd = new, ![p].stack = <<RunFrame(later)>> \o @]
    BY <2>1 DEF new, later
  <2> QED
    BY <1>7, <1>11, <2>2, <2>3, <2>4, <2>5, <2>6
<1> QED
  BY <1>6, <1>8, <1>10, <1>11

LEMMA CompleteWired ==
    ASSUME Sound(proc), NEW p \in Pids, Complete(p), NEW alone, Wired(proc, alone)
    PROVE  Wired(proc', alone)
<1>1. proc \in Tables /\ proc[p] \in Process /\ EntryOK(proc[p])
  BY At
<1>2. proc[p].at = "command" /\ proc[p].state = "running"
  BY DEF Complete, Called, Running
<1>3. ~Runs(proc[p].stack)
  <2>1. Called(p, Names \ {"prog", "missing"})
    BY DEF Complete, Called, Names
  <2> QED
    BY <2>1, TypedByUser
<1>4. \A rest : ~CommandFits(proc[p].cmd, rest)
  <2>1. proc[p].cmd \in Commands /\ proc[p].cmd.stages # <<>>
    BY <1>1, <1>2 DEF Process, Wired, Piped, EndsOK
  <2>2. Head(proc[p].cmd.stages).name \in StartingOthers
    BY DEF Complete, Called, StartingOthers
  <2> QED
    BY <2>1, <2>2, StartersDoNotFit
<1>5. CASE proc' = Returned(proc, p)
  BY <1>2, <1>5, ReturnedWired
<1>6. CASE proc' = Exited(proc, p)
  BY <1>6, ExitedWired
<1>7. CASE Free(proc) # {}
  <2> DEFINE q == Fresh(proc)
             ps == [proc EXCEPT ![q] = Zombie(p)]
             prog == Command(<<Call("prog")>>, FALSE)
  <2>1. q \in Pids /\ proc[q].state = "none" /\ q # p
    BY <1>1, <1>2, <1>7, FreshIsFree
  <2> HIDE DEF q
  <2>2. proc[q].at = "nowhere"
    BY <2>1, At DEF EntryOK
  <2>3. ps \in Tables /\ ps[p] = proc[p] /\ Sound(ps)
    BY <1>1, <2>1, PopenSound DEF Sound, Tables
  <2>4. Wired(ps, alone)
    BY <1>1, <2>1, <2>2, GoneBlank, EmptyWired
  <2> HIDE DEF ps
  <2>5. CASE proc' = Returned(ps, p)
    BY <1>2, <2>3, <2>4, <2>5, ReturnedWired
  <2>6. CASE proc' = [ps EXCEPT ![p].cmd = prog]
    <3> DEFINE r == ps[p]
               s == [r EXCEPT !.cmd = prog]
    <3>1. prog \in Commands /\ prog.stages # <<>>
      <4>1. "prog" \in Names
        BY DEF Names
      <4> QED
        BY <4>1, CallsType, CallStages
    <3> HIDE DEF prog
    <3>2. s \in Process
      BY <1>1, <2>3, <3>1 DEF Process
    <3>3. /\ s.at = "command" /\ s.stack = r.stack /\ s.holds = r.holds /\ s.cmd = prog
          /\ s.in = r.in /\ s.out = r.out /\ s.parent = r.parent /\ r.at = "command"
          /\ ~Runs(r.stack) /\ \A rest : ~CommandFits(r.cmd, rest)
      BY <1>1, <1>2, <1>3, <1>4, <2>3 DEF Process
    <3>4. proc' = [ps EXCEPT ![p] = s] /\ r = ps[p]
      BY <2>3, <2>6 DEF Tables
    <3>5. EndsOK(r) /\ (alone => AloneOK(r))
      BY <2>4 DEF Wired, Piped
    <3> HIDE DEF s, r
    <3>6. Crontab(s) = Crontab(r) /\ ~Writer(s)
      BY <3>3 DEF Crontab, Writer
    <3>7. EndsOK(s)
      BY <3>1, <3>3, <3>5, <3>6 DEF EndsOK
    <3>8. GoesOn(r, s, "tty")
      BY <3>3, <3>6 DEF GoesOn, ReadsAs, Fits
    <3>9. ASSUME alone PROVE GoesOnAlone(ps, p, s, "tty")
      <4>1. AloneOK(s)
        BY <3>3, <3>5, <3>9 DEF AloneOK
      <4> QED
        BY <3>3, <3>4, <4>1 DEF GoesOnAlone
    <3>10. Untaken(ps, "tty")
      BY <2>3, TtyUntaken
    <3>11. Wired([ps EXCEPT ![p] = s], alone)
      BY <2>3, <2>4, <3>2, <3>4, <3>7, <3>8, <3>9, <3>10, GoesOnWired
    <3> QED
      BY <3>4, <3>11
  <2> QED
    BY <1>5, <1>6, <2>5, <2>6 DEF Complete, ps, q
<1> QED
  BY <1>5, <1>6, <1>7 DEF Complete

-----------------------------------------------------------------------------
(* The invariant and what the actions do: fork. *)

\* A command forks: p goes on as s, and the child c has the pipes that p has.
LEMMA CommandForksWired ==
    ASSUME Sound(proc), NEW alone, Wired(proc, alone), NEW p \in Pids, proc[p].at = "command",
           NEW w \in Pids, proc[w].state = "none", w # p,
           NEW s \in Process, EndsOK(s), s.at \in {"wait", "any", "command"},
           s.stack = proc[p].stack, s.in = proc[p].in, s.holds = proc[p].holds,
           s.parent = proc[p].parent,
           NEW c \in Process, EndsOK(c), c.at \in {"helper", "alarm", "child"},
           c.in = proc[p].in, c.holds = proc[p].holds, c.parent = p,
           \A rest : Fits(proc[p], rest) => Fits(s, rest) /\ Fits(c, rest)
    PROVE  Wired([proc EXCEPT ![p] = s, ![w] = c], alone)
<1> DEFINE r == proc[p]
<1>1. proc \in Tables /\ r \in Process /\ EndsOK(r) /\ (alone => AloneOK(r))
  BY At DEF Wired, Piped
<1>2. proc[w].at = "nowhere"
  BY At DEF EntryOK
<1>3. Crontab(r) = {} /\ Crontab(s) = {} /\ Crontab(c) = {}
  <2>1. Crontab(r) = {} /\ Crontab(c) = {}
    BY <1>1, CommandHasNoCrontab
  <2> QED
    BY <2>1 DEF Crontab
<1>4. ~Writer(s) /\ ~Writer(c)
  BY DEF Writer
<1>5. ReadsAs(r, s) /\ ReadsAs(r, c)
  BY DEF ReadsAs
<1>6. GoesOn(r, s, "tty")
  BY <1>3, <1>4, <1>5 DEF GoesOn
<1>7. ASSUME alone PROVE GoesOnAlone(proc, p, s, "tty")
  <2>1. ~HoldsW(s)
    BY <1>1, <1>3, <1>7 DEF AloneOK, HoldsW
  <2>2. AloneOK(s)
    BY <2>1 DEF AloneOK, HoldsW
  <2> QED
    BY <2>1, <2>2 DEF GoesOnAlone
<1> HIDE DEF r
<1>8. c.holds \subseteq proc[p].holds /\ c.at # "nowhere" /\ proc[p].at \in {"command"}
  OBVIOUS
<1>9. ReadsAs(proc[p], c) /\ GoesOn(proc[p], s, "tty")
  BY <1>5, <1>6 DEF r
<1> QED
  BY <1>1, <1>2, <1>3, <1>4, <1>7, <1>8, <1>9, ForkedWired

\* The entry of a shell that waits for t.
LEMMA WaiterOfEnds ==
    ASSUME NEW r \in Process, EndsOK(r), r.at = "command", NEW t \in Pids
    PROVE  LET s == WaiterOf(r, t)
           IN  /\ s \in Process /\ EndsOK(s) /\ s.at = "wait" /\ s.target = t
               /\ s.stack = r.stack /\ s.in = r.in /\ s.holds = r.holds /\ s.parent = r.parent
               /\ \A rest : Fits(r, rest) => Fits(s, rest)
<1> DEFINE s == WaiterOf(r, t)
<1>1. s \in Process
  BY WaitType DEF WaiterOf
<1>2. /\ s.at = "wait" /\ s.target = t /\ s.stack = r.stack /\ s.in = r.in /\ s.out = r.out
      /\ s.holds = r.holds /\ s.parent = r.parent
  BY DEF WaiterOf, Process
<1> HIDE DEF s
<1>3. Crontab(s) = Crontab(r) /\ ~Writer(s)
  BY <1>2 DEF Crontab, Writer
<1>4. EndsOK(s)
  BY <1>2, <1>3 DEF EndsOK
<1>5. \A rest : Fits(r, rest) => Fits(s, rest)
  BY <1>2 DEF Fits
<1> QED
  BY <1>1, <1>2, <1>4, <1>5 DEF s

LEMMA MyFgWired ==
    ASSUME Sound(proc), NEW p \in Pids, MyFg(p), NEW alone, Wired(proc, alone)
    PROVE  Wired(proc', alone)
<1>1. proc \in Tables /\ proc[p] \in Process /\ proc[p].at = "command" /\ EndsOK(proc[p])
  BY At DEF MyFg, Called, Running, Wired, Piped
<1>2. CASE proc' = Exited(proc, p)
  BY <1>2, ExitedWired
<1>3. ASSUME NEW w \in Pids, NEW t \in Pids, proc[w].state = "none", w # p,
             proc' = [proc EXCEPT ![p] = WaiterOf(proc[p], t), ![w] = HelperOf(proc[p], p, t)]
      PROVE  Wired(proc', alone)
  <2> DEFINE r == proc[p]
             s == WaiterOf(r, t)
             c == HelperOf(r, p, t)
  <2>1. c \in Process
    <3>1. <<>> \in Seq(Frames)
      OBVIOUS
    <3> QED
      BY <1>1, <3>1, NoCommandType, ZenonT(30) DEF HelperOf, Process, Frames
  <2>3. /\ c.at = "helper" /\ c.stack = <<>> /\ c.in = r.in /\ c.out = r.out
        /\ c.holds = r.holds /\ c.parent = p
    BY <1>1 DEF HelperOf, Process
  <2>4. /\ s \in Process /\ EndsOK(s) /\ s.at = "wait" /\ s.target = t
        /\ s.stack = r.stack /\ s.in = r.in /\ s.holds = r.holds /\ s.parent = r.parent
        /\ \A rest : Fits(r, rest) => Fits(s, rest)
    BY <1>1, WaiterOfEnds
  <2>5. proc' = [proc EXCEPT ![p] = s, ![w] = c]
    BY <1>3
  <2> HIDE DEF c, s
  <2>6. Crontab(c) = {} /\ ~Writer(c) /\ NoCrontab(c.stack) /\ ~Runs(c.stack)
    BY <2>3 DEF Crontab, Writer, NoCrontab, Runs
  <2>7. EndsOK(c)
    BY <1>1, <2>3, <2>6 DEF EndsOK
  <2>8. \A rest : Fits(r, rest) => Fits(s, rest) /\ Fits(c, rest)
    BY <2>3, <2>4, <2>6 DEF Fits
  <2>9. Wired([proc EXCEPT ![p] = s, ![w] = c], alone)
    BY <1>1, <1>3, <2>1, <2>3, <2>4, <2>7, <2>8, CommandForksWired
  <2> QED
    BY <2>5, <2>9
<1> QED
  BY <1>2, <1>3, MyFgIs

LEMMA PlayAlarmWired ==
    ASSUME Sound(proc), NEW p \in Pids, PlayAlarm(p), NEW alone, Wired(proc, alone)
    PROVE  Wired(proc', alone)
<1>1. proc \in Tables /\ proc[p] \in Process /\ proc[p].at = "command" /\ EndsOK(proc[p])
  BY At DEF PlayAlarm, Called, Running, Wired, Piped
<1>2. CASE proc' = Exited(proc, p)
  BY <1>2, ExitedWired
<1>3. ASSUME NEW w \in Pids, proc[w].state = "none", w # p,
             proc' = [proc EXCEPT ![p] = [proc[p] EXCEPT !.at = "any", !.cmd = NoCommand],
                                  ![w] = AlarmOf(proc[p], p)]
      PROVE  Wired(proc', alone)
  <2> DEFINE r == proc[p]
             s == [r EXCEPT !.at = "any", !.cmd = NoCommand]
             c == AlarmOf(r, p)
  <2>1. s \in Process
    BY <1>1, NoCommandType DEF Process
  <2>2. c \in Process
    <3> DEFINE child == [r EXCEPT !.parent = p, !.origin = "alarm", !.at = "alarm",
                                  !.job = init, !.late = FALSE]
    <3>1. child \in Process
      BY <1>1, ChildType
    <3>2. [child EXCEPT !.cmd = NoCommand] \in Process
      BY <3>1, NoCommandType DEF Process
    <3> QED
      BY <3>2 DEF AlarmOf
  <2>3. /\ s.at = "any" /\ s.stack = r.stack /\ s.in = r.in /\ s.out = r.out
        /\ s.holds = r.holds /\ s.parent = r.parent /\ s.cmd = NoCommand
    BY <1>1 DEF Process
  <2>4. /\ c.at = "alarm" /\ c.stack = r.stack /\ c.in = r.in /\ c.out = r.out
        /\ c.holds = r.holds /\ c.parent = p /\ c.cmd = NoCommand
    BY <1>1 DEF AlarmOf, Process
  <2>5. \A rest : ~Fits(r, rest)
    <3>1. r.cmd \in Commands /\ r.cmd.stages # <<>>
      BY <1>1 DEF Process, EndsOK
    <3>2. Head(r.cmd.stages).name \in StartingOthers
      BY DEF PlayAlarm, Called, StartingOthers
    <3>3. \A rest : ~CommandFits(r.cmd, rest)
      BY <3>1, <3>2, StartersDoNotFit
    <3> QED
      BY <1>1, <3>3 DEF Fits
  <2>6. r.stack \in Seq(Frames) /\ NoCrontab(r.stack)
    BY <1>1 DEF Process, Frames, EndsOK
  <2>7. proc' = [proc EXCEPT ![p] = s, ![w] = c]
    BY <1>3
  <2>8. EndsOK(r) /\ r.at = "command"
    BY <1>1
  <2> HIDE DEF c, s, r
  <2>9. Crontab(s) = Crontab(r) /\ Crontab(c) = Crontab(r) /\ ~Writer(c) /\ ~Writer(s)
    BY <2>3, <2>4 DEF Crontab, Writer
  <2>10. r.stack # <<>> => NoCrontab(Tail(r.stack))
    BY <2>6, StackTail
  <2>11. EndsOK(s) /\ EndsOK(c)
    BY <2>3, <2>4, <2>6, <2>8, <2>9, <2>10 DEF EndsOK
  <2>12. Wired([proc EXCEPT ![p] = s, ![w] = c], alone)
    BY <1>1, <1>3, <2>1, <2>2, <2>3, <2>4, <2>5, <2>11, CommandForksWired DEF r
  <2> QED
    BY <2>7, <2>12
<1> QED
  BY <1>2, <1>3, PlayAlarmIs

\* The entry of the child of p.
LEMMA ChildOfEnds ==
    ASSUME NEW r \in Process, EndsOK(r), r.at = "command", NEW p \in Pids,
           NEW origin \in {"background", "foreground"}
    PROVE  LET c == ChildOf(r, p, origin)
           IN  /\ c \in Process /\ EndsOK(c) /\ c.at = "child" /\ c.in = r.in
               /\ c.holds = r.holds /\ c.parent = p
               /\ \A rest : Fits(r, rest) => Fits(c, rest)
<1> DEFINE c == ChildOf(r, p, origin)
<1>1. c \in Process
  BY ChildType DEF ChildOf
<1>2. /\ c.at = "child" /\ c.parent = p /\ c.in = r.in /\ c.out = r.out /\ c.holds = r.holds
      /\ c.stack = r.stack /\ c.cmd = r.cmd
  BY DEF ChildOf, Process
<1> HIDE DEF c
<1>3. Crontab(c) = Crontab(r) /\ ~Writer(c)
  BY <1>2 DEF Crontab, Writer
<1>4. EndsOK(c)
  BY <1>2, <1>3 DEF EndsOK
<1>5. \A rest : Fits(r, rest) => Fits(c, rest)
  BY <1>2 DEF Fits
<1> QED
  BY <1>1, <1>2, <1>4, <1>5 DEF c

LEMMA RunProgramWired ==
    ASSUME Sound(proc), NEW p \in Pids, RunProgram(p), NEW alone, Wired(proc, alone)
    PROVE  Wired(proc', alone)
<1>1. /\ proc \in Tables /\ proc[p] \in Process /\ proc[p].at = "command" /\ EndsOK(proc[p])
      /\ Running(p, "command")
  BY At DEF RunProgram, Called, Running, Wired, Piped
<1>2. CASE proc' = Returned(proc, p)
  BY <1>1, <1>2, ReturnedWired
<1>3. ASSUME NEW w \in Pids, proc[w].state = "none", w # p,
             proc' = Returned([proc EXCEPT ![p] = proc[p],
                                           ![w] = ChildOf(proc[p], p, "background")], p)
      PROVE  Wired(proc', alone)
  <2> DEFINE c == ChildOf(proc[p], p, "background")
             ps == [proc EXCEPT ![p] = proc[p], ![w] = c]
  <2>1. Sound(ps) /\ ps[p] = proc[p]
    BY <1>1, <1>3, BackgroundSound
  <2>2. /\ c \in Process /\ EndsOK(c) /\ c.at = "child" /\ c.in = proc[p].in
        /\ c.holds = proc[p].holds /\ c.parent = p
        /\ \A rest : Fits(proc[p], rest) => Fits(c, rest)
    BY <1>1, ChildOfEnds
  <2>3. proc' = Returned(ps, p)
    BY <1>3
  <2> HIDE DEF c
  <2>4. Wired(ps, alone)
    BY <1>1, <1>3, <2>2, CommandForksWired
  <2> HIDE DEF ps
  <2> QED
    BY <1>1, <2>1, <2>3, <2>4, ReturnedWired
<1>4. ASSUME NEW w \in Pids, proc[w].state = "none", w # p,
             proc' = [proc EXCEPT ![p] = WaiterOf(proc[p], w),
                                  ![w] = ChildOf(proc[p], p, "foreground")]
      PROVE  Wired(proc', alone)
  <2> DEFINE c == ChildOf(proc[p], p, "foreground")
             s == WaiterOf(proc[p], w)
  <2>1. /\ c \in Process /\ EndsOK(c) /\ c.at = "child" /\ c.in = proc[p].in
        /\ c.holds = proc[p].holds /\ c.parent = p
        /\ \A rest : Fits(proc[p], rest) => Fits(c, rest)
    BY <1>1, ChildOfEnds
  <2>2. /\ s \in Process /\ EndsOK(s) /\ s.at = "wait" /\ s.target = w
        /\ s.stack = proc[p].stack /\ s.in = proc[p].in /\ s.holds = proc[p].holds
        /\ s.parent = proc[p].parent
        /\ \A rest : Fits(proc[p], rest) => Fits(s, rest)
    BY <1>1, WaiterOfEnds
  <2>3. proc' = [proc EXCEPT ![p] = s, ![w] = c]
    BY <1>4
  <2> HIDE DEF c, s
  <2>4. Wired([proc EXCEPT ![p] = s, ![w] = c], alone)
    BY <1>1, <1>4, <2>1, <2>2, CommandForksWired
  <2> QED
    BY <2>3, <2>4
<1> QED
  BY <1>2, <1>3, <1>4, RunProgramIs

LEMMA ExecuteWired ==
    ASSUME Sound(proc), NEW q \in Pids, Execute(q), NEW alone, Wired(proc, alone)
    PROVE  Wired(proc', alone)
<1>1. /\ proc \in Tables /\ proc[q] \in Process /\ proc[q].at = "exec" /\ EndsOK(proc[q])
      /\ (alone => AloneOK(proc[q]))
  BY At DEF Execute, Running, Wired, Piped
<1>2. CASE proc' = Execed(proc, q)
  <2> DEFINE r == proc[q]
             s == [r EXCEPT !.at = "program", !.stack = <<>>, !.target = init]
  <2>1. s \in Process
    <3>1. <<>> \in Seq(Frames)
      OBVIOUS
    <3> QED
      BY <1>1, <3>1 DEF Process, Frames
  <2>2. proc' = [proc EXCEPT ![q] = s]
    BY <1>1, <1>2 DEF Execed, Tables
  <2>3. /\ s.at = "program" /\ s.stack = <<>> /\ s.in = r.in /\ s.out = r.out /\ s.cmd = r.cmd
        /\ s.holds = r.holds /\ s.parent = r.parent
    BY <1>1 DEF Process
  <2>4. r = proc[q] /\ EndsOK(r) /\ r.at = "exec"
    BY <1>1
  <2> HIDE DEF r, s
  <2>5. Crontab(s) = {} /\ NoCrontab(s.stack) /\ ~Runs(s.stack) /\ (Writer(s) => Writer(r))
    BY <2>3, <2>4 DEF Crontab, NoCrontab, Runs, Writer
  <2>6. EndsOK(s)
    BY <2>3, <2>4, <2>5 DEF EndsOK
  <2>7. ReadsAs(r, s)
    BY <2>3, <2>4, <2>5 DEF ReadsAs, Fits
  <2>8. GoesOn(r, s, "tty")
    BY <2>3, <2>5, <2>7 DEF GoesOn
  <2>9. ASSUME alone PROVE GoesOnAlone(proc, q, s, "tty")
    <3>1. AloneOK(s) /\ HoldsW(s) = HoldsW(r)
      BY <2>3 DEF AloneOK, HoldsW
    <3> QED
      BY <2>3, <2>4, <3>1 DEF GoesOnAlone
  <2>10. Untaken(proc, "tty")
    BY <1>1, TtyUntaken
  <2>11. Wired([proc EXCEPT ![q] = s], alone)
    BY <1>1, <2>1, <2>4, <2>6, <2>8, <2>9, <2>10, GoesOnWired
  <2> QED
    BY <2>2, <2>11
<1>3. CASE proc' = Exited(proc, q)
  BY <1>3, ExitedWired
<1>4. CASE Head(proc[q].cmd.stages).name # "prog" /\ proc' = Returned(proc, q)
  BY <1>1, <1>4, ReturnedWired
<1> QED
  BY <1>2, <1>3, <1>4 DEF Execute

-----------------------------------------------------------------------------
(* The invariant and what the actions do: waiting, and the world outside. *)

LEMMA WaitidWired ==
    ASSUME Sound(proc), NEW p \in Pids, Waitid(p), NEW alone, Wired(proc, alone)
    PROVE  Wired(proc', alone)
<1> DEFINE ps == WaitedTable(p)
<1>1. proc[p].at = "wait"
  BY DEF Waitid, Running
<1>2. proc' = Returned(ps, p) /\ Sound(ps)
  BY WaitidIs, WaitedSound
<1>3. ASSUME NEW y \in Pids PROVE SameEnds(proc[y], ps[y]) /\ ps[y].parent = proc[y].parent
  <2>1. proc[y] \in Process /\ proc[proc[p].target] \in Process
    BY WaitidIs, At
  <2> QED
    BY <2>1, WaitidIs, DetachedType DEF SameEnds
<1> HIDE DEF ps
<1>4. Wired(ps, alone)
  BY <1>3, KeptPlain, PlainWired
<1>5. ps[p].at = "wait"
  BY <1>1, <1>3 DEF SameEnds
<1> QED
  BY <1>2, <1>4, <1>5, ReturnedWired

LEMMA WaitAnyWired ==
    ASSUME Sound(proc), NEW p \in Pids, WaitAny(p), NEW alone, Wired(proc, alone)
    PROVE  Wired(proc', alone)
<1>1. proc \in Tables /\ proc[p].at = "any" /\ proc[p].state = "running"
  BY At DEF WaitAny, Running
<1>2. CASE proc' = Returned(proc, p)
  BY <1>1, <1>2, ReturnedWired
<1>3. ASSUME NEW z \in Pids, proc[z].state = "zombie",
             proc' = Returned(Released([proc EXCEPT ![z] = NoProcess], z, init), p)
      PROVE  Wired(proc', alone)
  <2> DEFINE mid == [proc EXCEPT ![z] = NoProcess]
             ps == Released(mid, z, init)
  <2>1. proc[z].at = "nowhere"
    BY <1>3, At DEF EntryOK
  <2>2. Wired(mid, alone)
    BY <1>1, <2>1, GoneBlank, EmptyWired
  <2>3. mid \in Tables /\ mid[p] = proc[p] /\ mid[p] \in Process
    BY <1>1, <1>3, NoProcessType DEF Tables
  <2>4. Sound(ps)
    BY <1>3, CollectedSound
  <2> HIDE DEF mid
  <2>5. Wired(ps, alone)
    BY <2>2, <2>3, ReleasedWired
  <2>6. ps[p].at = "any"
    BY <1>1, <2>3 DEF Released, Process
  <2>7. proc' = Returned(ps, p)
    BY <1>3 DEF mid
  <2> HIDE DEF ps
  <2> QED
    BY <2>4, <2>5, <2>6, <2>7, ReturnedWired
<1> QED
  BY <1>2, <1>3 DEF WaitAny, Children

LEMMA WorldWired ==
    ASSUME Sound(proc), NEW p \in Pids,
           Ends(p) \/ StoppedFromOutside(p) \/ ContinuedFromOutside(p),
           NEW alone, Wired(proc, alone)
    PROVE  Wired(proc', alone)
<1>1. CASE Ends(p)
  BY <1>1, ExitedWired DEF Ends
<1>2. CASE StoppedFromOutside(p)
  BY <1>2, StoppedWired DEF StoppedFromOutside
<1>3. CASE ContinuedFromOutside(p)
  BY <1>3, ResumedWired DEF ContinuedFromOutside
<1> QED
  BY <1>1, <1>2, <1>3

LEMMA ShellSignalledWired ==
    ASSUME Sound(proc), NEW p \in Pids, ShellStopped(p) \/ ShellKilled(p),
           NEW alone, Wired(proc, alone)
    PROVE  Wired(proc', alone)
BY StoppedWired, ExitedWired DEF ShellStopped, ShellKilled

-----------------------------------------------------------------------------
(* The invariant and what the actions do: taking a pipe. *)

LEMMA UnusedUntaken ==
    ASSUME NEW pipe \in Unused
    PROVE  pipe \in Pipes /\ Untaken(proc, pipe)
BY DEF Unused, Untaken, Writers, Readers

\* Who was there before a pipe is taken has nothing to do with it.
LEMMA OthersWithout ==
    ASSUME NEW ps, Piped(ps), NEW pipe \in Pipes, Untaken(ps, pipe), NEW x \in Pids
    PROVE  ps[x].in # pipe /\ ps[x].out # pipe /\ pipe \notin Crontab(ps[x])
BY DEF Piped, EndsOK, Untaken

\* Only a program or a command of a pipeline holds a writing end.
LEMMA NoWritingEnds ==
    ASSUME NEW r \in Process, AloneOK(r), r.at \in {"child", "alarm"}
    PROVE  \A pipe : <<pipe, "w">> \notin r.holds
<1>1. r.holds \subseteq Pipes \X {"r", "w"}
  BY DEF Process
<1> QED
  BY <1>1 DEF AloneOK

\* The alarm's child takes a pipe.
LEMMA PipedOfWired ==
    ASSUME Sound(proc), NEW alone, Wired(proc, alone), NEW q \in Pids, proc[q].at = "alarm",
           NEW pipe \in Unused
    PROVE  LET s == PipedOf(proc[q], pipe)
           IN  /\ Wired([proc EXCEPT ![q] = s], alone)
               /\ s \in Process /\ s.at = "any" /\ s.in = proc[q].in /\ s.cmd = NoCommand
               /\ s.holds = proc[q].holds \cup {<<pipe, "r">>, <<pipe, "w">>}
               /\ Crontab(s) = {pipe} /\ ~Writer(s)
<1> DEFINE r == proc[q]
           s == PipedOf(r, pipe)
<1>1. /\ proc \in Tables /\ r \in Process /\ EndsOK(r) /\ (alone => AloneOK(r))
      /\ r.stack \in Seq(Frames) /\ r.at = "alarm"
  BY At DEF Wired, Piped, Process, Frames
<1>2. pipe \in Pipes /\ Untaken(proc, pipe) /\ r.in # pipe /\ r.out # pipe
      /\ <<pipe, "r">> \notin r.holds /\ <<pipe, "w">> \notin r.holds
  BY UnusedUntaken, OthersWithout DEF Wired, Untaken
<1>3. s \in Process
  BY <1>1, <1>2, PipedOfIs
<1>4. /\ s.at = "any" /\ s.in = r.in /\ s.out = r.out /\ s.cmd = r.cmd /\ s.parent = r.parent
      /\ s.holds = r.holds \cup {<<pipe, "r">>, <<pipe, "w">>}
      /\ s.stack = <<CrontabFrame(pipe)>> \o r.stack
  BY <1>1 DEF PipedOf, Process
<1>5. CrontabFrame(pipe) \in Frames
  BY <1>2, FrameTypes
<1>6. CrontabFrame(pipe).do = "crontab" /\ CrontabFrame(pipe).pipe = pipe
  BY DEF CrontabFrame, Frame
<1>7. r = proc[q]
  OBVIOUS
<1> HIDE DEF s, r
<1>8. s.stack # <<>> /\ Head(s.stack) = CrontabFrame(pipe) /\ Tail(s.stack) = r.stack
  BY <1>1, <1>4, <1>5, Pushed
<1>9. Crontab(s) = {pipe} /\ ~Writer(s) /\ ~Runs(s.stack)
  BY <1>4, <1>6, <1>8 DEF Crontab, Writer, Runs
<1>10. NoCrontab(r.stack) /\ r.cmd = NoCommand
  BY <1>1 DEF EndsOK
<1>11. EndsOK(s)
  BY <1>1, <1>2, <1>4, <1>8, <1>9, <1>10 DEF EndsOK
<1>12. ReadsAs(r, s)
  BY <1>1, <1>4 DEF ReadsAs, Fits
<1>13. GoesOn(r, s, pipe)
  BY <1>4, <1>9, <1>12 DEF GoesOn
<1>14. ASSUME alone PROVE GoesOnAlone(proc, q, s, pipe)
  <2>1. \A u : <<u, "w">> \notin r.holds
    BY <1>1, <1>14, NoWritingEnds
  <2>2. AloneOK(s)
    BY <1>4, <1>9, <2>1 DEF AloneOK
  <2> QED
    BY <1>1, <1>4, <1>7, <2>2 DEF GoesOnAlone
<1>15. Wired([proc EXCEPT ![q] = s], alone)
  BY <1>1, <1>2, <1>3, <1>7, <1>11, <1>13, <1>14, GoesOnWired
<1> QED
  BY <1>3, <1>4, <1>7, <1>9, <1>10, <1>15 DEF s

LEMMA EchoLineWired ==
    ASSUME Sound(proc), NEW q \in Pids, EchoLine(q), NEW alone, Wired(proc, alone)
    PROVE  Wired(proc', alone)
<1> DEFINE r == proc[q]
<1>1. /\ proc \in Tables /\ r \in Process /\ EndsOK(r) /\ (alone => AloneOK(r))
      /\ r.at = "alarm" /\ Piped(proc)
  BY At DEF EchoLine, Running, Wired, Piped
<1>2. CASE proc' = Exited(proc, q)
  BY <1>2, ExitedWired
<1>3. ASSUME NEW pipe \in Unused, proc' = [proc EXCEPT ![q] = PipedOf(proc[q], pipe)]
      PROVE  Wired(proc', alone)
  BY <1>1, <1>3, PipedOfWired
<1>4. ASSUME NEW pipe \in Unused, NEW e \in Pids, proc[e].state = "none", e # q,
             proc' = [proc EXCEPT ![q] = PipedOf(proc[q], pipe),
                                  ![e] = EchoOf(PipedOf(proc[q], pipe), q, pipe)]
      PROVE  Wired(proc', alone)
  <2> DEFINE s == PipedOf(r, pipe)
             c == EchoOf(s, q, pipe)
             qs == [proc EXCEPT ![q] = s]
  <2>1. /\ Wired(qs, alone) /\ s \in Process /\ s.at = "any" /\ s.in = r.in
        /\ s.cmd = NoCommand /\ s.holds = r.holds \cup {<<pipe, "r">>, <<pipe, "w">>}
        /\ Crontab(s) = {pipe} /\ ~Writer(s)
    BY <1>1, PipedOfWired
  <2>2. /\ pipe \in Pipes /\ r.in # pipe /\ <<pipe, "r">> \notin r.holds
        /\ \A x \in Pids : proc[x].in # pipe
    BY <1>1, UnusedUntaken, OthersWithout DEF Untaken
  <2>3. qs \in Tables /\ \A x \in Pids : qs[x] = IF x = q THEN s ELSE proc[x]
    BY <1>1, <2>1 DEF Tables
  <2>4. proc[e].at = "nowhere" /\ qs[e].at = "nowhere"
    BY <1>4, <2>3, At DEF EntryOK
  <2>5. [proc EXCEPT ![q] = s, ![e] = c] = [qs EXCEPT ![e] = c] /\ proc' = [qs EXCEPT ![e] = c]
    BY <1>4
  <2> HIDE DEF s, qs
  <2>6. c \in Process
    BY <2>1, <2>2, EchoOfIs
  <2>7. /\ c.at = "program" /\ c.parent = q /\ c.in = r.in /\ c.out = pipe /\ c.stack = <<>>
        /\ c.cmd = NoCommand /\ c.holds = s.holds \ {<<pipe, "r">>}
    BY <2>1 DEF EchoOf, Process
  <2>8. r = proc[q]
    OBVIOUS
  <2> HIDE DEF c, r
  <2>9. c.holds = r.holds \cup {<<pipe, "w">>}
    BY <2>1, <2>2, <2>7
  <2>10. Crontab(c) = {} /\ ~Writer(c) /\ ~Runs(c.stack) /\ NoCrontab(c.stack)
    <3>1. Crontab(c) = {} /\ ~Runs(c.stack) /\ NoCrontab(c.stack)
      BY <2>7 DEF Crontab, Runs, NoCrontab
    <3>2. ~Writer(c)
      BY <2>7 DEF Writer, NoCommand, Command
    <3> QED
      BY <3>1, <3>2
  <2>11. EndsOK(c)
    BY <1>1, <2>2, <2>7, <2>9, <2>10 DEF EndsOK
  <2>12. ASSUME NEW x \in Pids \ {e}
         PROVE  PairOK(c, qs[x]) /\ PairOK(qs[x], c) /\ OwnOK(c, qs[x]) /\ OwnOK(qs[x], c)
    <3>1. PairOK(c, qs[x]) /\ OwnOK(c, qs[x])
      BY <2>10 DEF PairOK, OwnOK
    <3>2. CASE x = q
      <4>1. qs[x] = s
        BY <2>3, <3>2
      <4> QED
        BY <2>1, <2>2, <2>9, <3>1, <4>1 DEF PairOK, OwnOK
    <3>3. CASE x # q
      <4>1. qs[x] = proc[x] /\ PairOK(proc[x], r) /\ OwnOK(proc[x], r)
        BY <1>1, <2>3, <2>8, <3>3 DEF Piped
      <4>2. \A rest : ~Fits(r, rest)
        BY <1>1 DEF Fits
      <4>3. PairOK(proc[x], c)
        BY <2>7, <2>10, <4>1, <4>2 DEF PairOK
      <4>4. OwnOK(proc[x], c)
        BY <2>9, <4>1 DEF OwnOK
      <4> QED
        BY <3>1, <4>1, <4>3, <4>4
    <3> QED
      BY <3>2, <3>3
  <2>13. Joins(qs, c, e)
    BY <2>10, <2>12 DEF Joins, PairOK
  <2>14. ASSUME alone PROVE JoinsAlone(qs, q, c, e)
    <3>1. \A u : <<u, "w">> \notin r.holds
      BY <1>1, <2>14, NoWritingEnds
    <3>2. AloneOK(c) /\ qs[q].at # "nowhere"
      BY <2>1, <2>3, <2>7 DEF AloneOK
    <3>3. ASSUME NEW x \in Pids \ {e}, qs[x].at \in {"exec", "program"}
          PROVE  <<qs[x].in, "w">> \notin c.holds
      <4>1. qs[x] = proc[x] /\ proc[x].in # pipe
        BY <2>1, <2>2, <2>3, <3>3
      <4> QED
        BY <2>9, <3>1, <4>1
    <3> QED
      BY <2>7, <3>2, <3>3 DEF JoinsAlone
  <2>15. Wired([qs EXCEPT ![e] = c], alone)
    BY <1>4, <2>1, <2>3, <2>4, <2>6, <2>11, <2>13, <2>14, BornWired
  <2> QED
    BY <2>5, <2>15
<1> QED
  BY <1>2, <1>3, <1>4, EchoLineIs

\* The redirections of a child leave its pipes alone, or replace them by a file.
LEMMA RedirectedWired ==
    ASSUME Sound(proc), NEW q \in Pids, Running(q, "child"), NEW alone, Wired(proc, alone)
    PROVE  LET x == Redirected(proc, q)[q]
           IN  /\ EndsOK(x) /\ GoesOn(proc[q], x, "tty") /\ Crontab(x) = {}
               /\ Wired(Redirected(proc, q), alone)
<1> DEFINE r == proc[q]
           x == Redirected(proc, q)[q]
<1>1. /\ proc \in Tables /\ r \in Process /\ EndsOK(r) /\ (alone => AloneOK(r))
      /\ r.at = "child"
  BY At DEF Running, Wired, Piped
<1>2. /\ x \in Process /\ Redirected(proc, q) = [proc EXCEPT ![q] = x]
      /\ x.at = "child" /\ x.parent = r.parent /\ x.stack = r.stack /\ x.cmd = r.cmd
      /\ x.holds = r.holds /\ x.in \in {r.in, "file"} /\ x.out \in {r.out, "file"}
  BY RedirectedEntry
<1>3. r = proc[q]
  OBVIOUS
<1> HIDE DEF x, r
<1>4. Crontab(r) = {} /\ Crontab(x) = {} /\ ~Writer(x)
  <2>1. Crontab(r) = {}
    BY <1>1, CommandHasNoCrontab
  <2> QED
    BY <1>2, <2>1 DEF Crontab, Writer
<1>5. EndsOK(x)
  BY <1>1, <1>2, <1>4, TtyIsNoPipe DEF EndsOK
<1>6. x.in \in Pipes => ReadsAs(r, x)
  BY <1>1, <1>2, TtyIsNoPipe DEF ReadsAs, Fits
<1>7. GoesOn(r, x, "tty")
  BY <1>2, <1>4, <1>6 DEF GoesOn
<1>8. ASSUME alone PROVE GoesOnAlone(proc, q, x, "tty")
  <2>1. AloneOK(x)
    BY <1>1, <1>2, <1>8 DEF AloneOK
  <2> QED
    BY <1>1, <1>2, <1>3, <2>1 DEF GoesOnAlone
<1>9. Untaken(proc, "tty")
  BY <1>1, TtyUntaken
<1>10. Wired([proc EXCEPT ![q] = x], alone)
  BY <1>1, <1>2, <1>3, <1>5, <1>7, <1>8, <1>9, GoesOnWired
<1> QED
  BY <1>2, <1>3, <1>4, <1>5, <1>7, <1>10 DEF x

\* The last command of a line is executed.
LEMMA LastWired ==
    ASSUME Sound(proc), NEW q \in Pids, Running(q, "child"), NEW alone, Wired(proc, alone),
           Len(proc[q].cmd.stages) = 1
    PROVE  Wired([proc EXCEPT ![q] = [Redirected(proc, q)[q] EXCEPT !.at = "exec"]], alone)
<1> DEFINE r == proc[q]
           x == Redirected(proc, q)[q]
           s == [x EXCEPT !.at = "exec"]
<1>1. /\ proc \in Tables /\ r \in Process /\ (alone => AloneOK(r)) /\ r.at = "child"
      /\ Len(r.cmd.stages) = 1
  BY At DEF Running, Wired
<1>2. /\ x \in Process /\ x.at = "child" /\ x.parent = r.parent /\ x.stack = r.stack
      /\ x.cmd = r.cmd /\ x.holds = r.holds
  BY RedirectedEntry
<1>3. EndsOK(x) /\ GoesOn(r, x, "tty") /\ Crontab(x) = {}
  BY RedirectedWired
<1>4. r = proc[q]
  OBVIOUS
<1> HIDE DEF x, r
<1>5. s \in Process
  BY <1>2 DEF Process
<1>6. /\ s.at = "exec" /\ s.parent = x.parent /\ s.stack = x.stack /\ s.cmd = x.cmd
      /\ s.holds = x.holds /\ s.in = x.in /\ s.out = x.out
  BY <1>2 DEF Process
<1>7. s = [x EXCEPT !.at = "exec"]
  OBVIOUS
<1> HIDE DEF s
<1>8. Crontab(s) = {} /\ ~Writer(s)
  <2>1. Crontab(s) = Crontab(x)
    BY <1>6 DEF Crontab
  <2>2. Len(s.cmd.stages) = 1
    BY <1>1, <1>2, <1>6
  <2>3. ~Writer(s)
    BY <2>2 DEF Writer
  <2> QED
    BY <1>3, <2>1, <2>3
<1>9. EndsOK(s)
  BY <1>2, <1>3, <1>6, <1>8 DEF EndsOK
<1>10. ReadsAs(x, s)
  BY <1>2, <1>6 DEF ReadsAs, Fits
<1>11. GoesOn(r, s, "tty")
  BY <1>3, <1>6, <1>8, <1>10 DEF GoesOn, ReadsAs
<1>12. ASSUME alone PROVE GoesOnAlone(proc, q, s, "tty")
  <2>1. \A u : <<u, "w">> \notin r.holds
    BY <1>1, <1>12, NoWritingEnds
  <2>2. AloneOK(s) /\ ~HoldsW(s)
    BY <1>2, <1>6, <2>1 DEF AloneOK, HoldsW
  <2> QED
    BY <1>1, <1>2, <1>4, <1>6, <2>2 DEF GoesOnAlone
<1>13. Untaken(proc, "tty")
  BY <1>1, TtyUntaken
<1>14. Wired([proc EXCEPT ![q] = s], alone)
  BY <1>1, <1>4, <1>5, <1>9, <1>11, <1>12, <1>13, GoesOnWired
<1> QED
  BY <1>7, <1>14 DEF x

LEMMA ReaderOfIs ==
    ASSUME NEW x \in Process, NEW pipe \in Pipes, NEW next \in Commands
    PROVE  LET s == ReaderOf(x, pipe, next)
           IN  /\ s \in Process /\ s.at = "command" /\ s.in = pipe /\ s.out = x.out
               /\ s.cmd = next /\ s.holds = x.holds \cup {<<pipe, "r">>} /\ s.parent = x.parent
               /\ Crontab(s) = {} /\ ~Writer(s) /\ ~Runs(s.stack)
               /\ NoCrontab(x.stack) => NoCrontab(s.stack)
<1> DEFINE s == ReaderOf(x, pipe, next)
<1>1. s \in Process
  BY ReaderType DEF ReaderOf
<1>2. /\ s.at = "command" /\ s.in = pipe /\ s.out = x.out /\ s.cmd = next
      /\ s.holds = x.holds \cup {<<pipe, "r">>} /\ s.parent = x.parent
      /\ s.stack = <<ExitFrame>> \o x.stack
  BY DEF ReaderOf, Process
<1>3. x.stack \in Seq(Frames) /\ ExitFrame \in Frames /\ ExitFrame.do = "exit"
  BY FrameTypes DEF Process, Frames, ExitFrame, Frame
<1> HIDE DEF s
<1>4. s.stack # <<>> /\ Head(s.stack) = ExitFrame /\ (NoCrontab(x.stack) => NoCrontab(s.stack))
  BY <1>2, <1>3, Pushed
<1>5. Crontab(s) = {} /\ ~Writer(s) /\ ~Runs(s.stack)
  BY <1>2, <1>3, <1>4 DEF Crontab, Writer, Runs
<1> QED
  BY <1>1, <1>2, <1>4, <1>5 DEF s

LEMMA WriterOfIs ==
    ASSUME NEW x \in Process, NEW q \in Pids, NEW pipe \in Pipes
    PROVE  LET c == WriterOf(x, q, pipe)
           IN  /\ c \in Process /\ c.at = "exec" /\ c.in = x.in /\ c.out = pipe /\ c.parent = q
               /\ c.cmd = x.cmd /\ c.holds = x.holds \cup {<<pipe, "w">>} /\ c.origin = "stage"
               /\ c.stack = x.stack
<1>1. WriterOf(x, q, pipe) \in Process
  BY StageType DEF WriterOf
<1> QED
  BY <1>1 DEF WriterOf, Process

\* The line behind a command that all start nothing but themselves is a line that fits.
LEMMA LineBehind ==
    ASSUME NEW cmd \in Commands, NEW next \in Commands, Len(cmd.stages) > 1,
           next.stages = Tail(cmd.stages)
    PROVE  /\ next.stages # <<>>
           /\ (\A i \in 2 .. Len(cmd.stages) : Clean(cmd.stages[i].name)) =>
                 CommandFits(next, Tail(cmd.stages))
<1>1. cmd.stages \in Seq(Stages) /\ cmd.stages # <<>>
  BY DEF Commands
<1>2. /\ Len(next.stages) = Len(cmd.stages) - 1
      /\ \A i \in 1 .. Len(cmd.stages) - 1 : next.stages[i] = cmd.stages[i + 1]
  BY <1>1
<1>3. next.stages # <<>>
  <2>1. Len(cmd.stages) \in Nat /\ Len(<<>>) = 0
    BY <1>1
  <2> QED
    BY <1>2, <2>1
<1>4. ASSUME \A i \in 2 .. Len(cmd.stages) : Clean(cmd.stages[i].name),
             NEW i \in 1 .. Len(cmd.stages) - 1
      PROVE  Clean(next.stages[i].name)
  <2>1. i + 1 \in 2 .. Len(cmd.stages)
    BY <1>1
  <2> QED
    BY <1>2, <1>4, <2>1
<1> QED
  BY <1>2, <1>3, <1>4 DEF CommandFits, SameCommands

\* A pipeline goes on: the child reads the line behind from a new pipe, and its own child
\* executes the first command into it.
LEMMA PipelineWired ==
    ASSUME Sound(proc), NEW q \in Pids, Running(q, "child"), NEW alone, Wired(proc, alone),
           NEW w \in Pids, proc[w].state = "none", w # q, NEW pipe \in Unused,
           NEW next \in Commands, Len(proc[q].cmd.stages) > 1,
           next.stages = Tail(proc[q].cmd.stages)
    PROVE  LET x == Redirected(proc, q)[q]
           IN  Wired([proc EXCEPT ![q] = ReaderOf(x, pipe, next), ![w] = WriterOf(x, q, pipe)],
                     alone)
<1> DEFINE r == proc[q]
           x == Redirected(proc, q)[q]
           s == ReaderOf(x, pipe, next)
           c == WriterOf(x, q, pipe)
           qs == [proc EXCEPT ![q] = s]
           n == Len(r.cmd.stages)
           clean == \A i \in 2 .. n : Clean(r.cmd.stages[i].name)
<1>1. /\ proc \in Tables /\ r \in Process /\ EndsOK(r) /\ (alone => AloneOK(r))
      /\ r.at = "child" /\ Piped(proc) /\ r.cmd \in Commands
  BY At DEF Running, Wired, Piped, Process
<1>2. /\ x \in Process /\ x.at = "child" /\ x.parent = r.parent /\ x.stack = r.stack
      /\ x.cmd = r.cmd /\ x.holds = r.holds /\ x.in \in {r.in, "file"}
  BY RedirectedEntry
<1>3. EndsOK(x)
  BY RedirectedWired
<1>4. /\ pipe \in Pipes /\ Untaken(proc, pipe) /\ x.in # pipe
      /\ <<pipe, "r">> \notin r.holds /\ <<pipe, "w">> \notin r.holds
      /\ \A y \in Pids : proc[y].in # pipe /\ pipe \notin Crontab(proc[y])
  BY <1>1, <1>2, UnusedUntaken, OthersWithout, TtyIsNoPipe DEF Untaken
<1>5. /\ s \in Process /\ s.at = "command" /\ s.in = pipe /\ s.out = x.out /\ s.cmd = next
      /\ s.holds = r.holds \cup {<<pipe, "r">>} /\ s.parent = r.parent
      /\ Crontab(s) = {} /\ ~Writer(s) /\ ~Runs(s.stack)
      /\ NoCrontab(x.stack) => NoCrontab(s.stack)
  BY <1>2, <1>4, ReaderOfIs
<1>6. /\ c \in Process /\ c.at = "exec" /\ c.in = x.in /\ c.out = pipe /\ c.parent = q
      /\ c.cmd = r.cmd /\ c.holds = r.holds \cup {<<pipe, "w">>} /\ c.origin = "stage"
      /\ c.stack = r.stack
  BY <1>2, <1>4, WriterOfIs
<1>7. next.stages # <<>> /\ (clean => CommandFits(next, Tail(r.cmd.stages))) /\ n > 1
  BY <1>1, LineBehind
<1>8. qs \in Tables /\ \A y \in Pids : qs[y] = IF y = q THEN s ELSE proc[y]
  BY <1>1, <1>5 DEF Tables
<1>9. proc[w].at = "nowhere" /\ qs[w].at = "nowhere"
  BY <1>8, At DEF EntryOK
<1>10. [proc EXCEPT ![q] = s, ![w] = c] = [qs EXCEPT ![w] = c] /\ r = proc[q]
  OBVIOUS
<1>11. clean <=> \A i \in 2 .. Len(r.cmd.stages) : Clean(r.cmd.stages[i].name)
  OBVIOUS
<1>12. n = Len(r.cmd.stages) /\ Len(r.cmd.stages) # 1
  <2>1. ASSUME NEW k, k > 1 PROVE k # 1
    BY <2>1
  <2> QED
    BY <2>1
<1> HIDE DEF s, c, x, r, n, clean
\* The reader.
<1>13. EndsOK(s)
  <2>1. NoCrontab(s.stack)
    BY <1>2, <1>3, <1>5 DEF EndsOK
  <2>2. <<pipe, "r">> \in s.holds /\ <<pipe, "w">> \notin s.holds
    BY <1>4, <1>5
  <2>3. s.out \in Pipes => <<s.out, "w">> \in s.holds
    BY <1>2, <1>3, <1>5 DEF EndsOK
  <2> QED
    BY <1>5, <1>7, <2>1, <2>2, <2>3 DEF EndsOK
<1>14. GoesOn(r, s, pipe)
  BY <1>5 DEF GoesOn
<1>15. ASSUME alone PROVE \A u : <<u, "w">> \notin r.holds
  BY <1>1, <1>15, NoWritingEnds
<1>16. ASSUME alone PROVE GoesOnAlone(proc, q, s, pipe)
  <2>1. AloneOK(s) /\ ~HoldsW(s)
    BY <1>5, <1>15, <1>16 DEF AloneOK, HoldsW
  <2> QED
    BY <1>1, <1>5, <1>10, <2>1 DEF GoesOnAlone
<1>17. Wired(qs, alone)
  BY <1>1, <1>4, <1>5, <1>10, <1>13, <1>14, <1>16, GoesOnWired
<1> HIDE DEF qs
\* The writer.
<1>18. Crontab(c) = {} /\ Writer(c) /\ NoCrontab(c.stack)
  <2>1. Crontab(x) = {} /\ NoCrontab(x.stack)
    BY <1>2, <1>3, CommandHasNoCrontab DEF EndsOK
  <2>2. Crontab(c) = Crontab(x)
    BY <1>2, <1>6 DEF Crontab
  <2>3. Writer(c)
    BY <1>6, <1>7, <1>12 DEF Writer
  <2> QED
    BY <1>2, <1>6, <2>1, <2>2, <2>3
<1>19. EndsOK(c)
  <2>1. c.in \in Pipes => <<c.in, "r">> \in c.holds /\ <<c.in, "w">> \notin c.holds
    BY <1>2, <1>3, <1>4, <1>6 DEF EndsOK
  <2>2. <<c.out, "w">> \in c.holds /\ c.out \in Pipes
    BY <1>4, <1>6
  <2>3. /\ c.cmd.stages # <<>>
        /\ Runs(c.stack) => /\ FirstLine(c.cmd) /\ Head(c.stack).cmd.stages # <<>>
                            /\ ~Runs(Tail(c.stack))
    BY <1>1, <1>6 DEF EndsOK
  <2> QED
    BY <1>6, <1>18, <2>1, <2>2, <2>3 DEF EndsOK
<1>20. PairOK(c, c)
  BY <1>4, <1>6, <1>18 DEF PairOK
<1>21. ASSUME NEW y \in Pids \ {w}
       PROVE  PairOK(c, qs[y]) /\ PairOK(qs[y], c) /\ OwnOK(c, qs[y]) /\ OwnOK(qs[y], c)
  <2>1. OwnOK(c, qs[y])
    BY <1>18 DEF OwnOK
  <2>2. CASE y = q
    <3>1. qs[y] = s
      BY <1>8, <2>2
    <3>2. PairOK(s, c) /\ OwnOK(s, c)
      BY <1>5 DEF PairOK, OwnOK
    <3>3. ASSUME clean PROVE Fits(s, Tail(r.cmd.stages))
      BY <1>5, <1>7, <3>3 DEF Fits
    <3>4. PairOK(c, s)
      BY <1>5, <1>6, <1>11, <1>12, <3>3 DEF PairOK
    <3> QED
      BY <2>1, <3>1, <3>2, <3>4
  <2>3. CASE y # q
    <3>1. qs[y] = proc[y] /\ PairOK(proc[y], r) /\ OwnOK(proc[y], r) /\ EndsOK(proc[y])
      BY <1>1, <1>8, <1>10, <2>3 DEF Piped
    <3>2. PairOK(c, proc[y])
      BY <1>4, <1>6 DEF PairOK
    <3>3. OwnOK(proc[y], c)
      BY <1>6, <3>1 DEF OwnOK
    <3>4. ASSUME NEW m, Fits(r, m) PROVE Fits(c, m)
      BY <1>1, <1>6, <3>4 DEF Fits
    <3>5. ASSUME Writer(proc[y]) PROVE PairOK(proc[y], c)
      <4>1. proc[y].out \in Pipes
        BY <3>1, <3>5 DEF EndsOK
      <4>2. c.in = proc[y].out => r.in = proc[y].out
        BY <1>2, <1>6, <4>1, TtyIsNoPipe
      <4> QED
        BY <1>18, <3>1, <3>4, <4>2 DEF PairOK
    <3>6. PairOK(proc[y], c)
      BY <3>5 DEF PairOK
    <3> QED
      BY <2>1, <3>1, <3>2, <3>3, <3>6
  <2> QED
    BY <2>2, <2>3
<1>22. Joins(qs, c, w)
  BY <1>20, <1>21 DEF Joins
<1>23. ASSUME alone PROVE JoinsAlone(qs, q, c, w)
  <2>1. Runs(c.stack) => Head(c.cmd.stages).name = "prog"
    <3>1. Runs(r.stack) => FirstLine(r.cmd)
      BY <1>1 DEF EndsOK
    <3> QED
      BY <1>6, <1>12, <3>1 DEF FirstLine
  <2>2. AloneOK(c)
    BY <1>6, <2>1 DEF AloneOK
  <2>3. ASSUME NEW y \in Pids \ {w}, qs[y].at \in {"exec", "program"}
        PROVE  <<qs[y].in, "w">> \notin c.holds
    <3>1. qs[y] = proc[y] /\ proc[y].in # pipe
      BY <1>4, <1>5, <1>8, <2>3
    <3> QED
      BY <1>6, <1>15, <1>23, <3>1
  <2>4. qs[q].at # "nowhere"
    BY <1>5, <1>8
  <2> QED
    BY <1>6, <2>2, <2>3, <2>4 DEF JoinsAlone
<1>24. Wired([qs EXCEPT ![w] = c], alone)
  BY <1>6, <1>8, <1>9, <1>17, <1>19, <1>22, <1>23, BornWired
<1> QED
  BY <1>10, <1>24 DEF s, c, x

LEMMA RedirectedSound ==
    ASSUME Sound(proc), NEW q \in Pids, Running(q, "child")
    PROVE  Sound(Redirected(proc, q))
<1> DEFINE x == Redirected(proc, q)[q]
<1>1. proc[q].at = "child" /\ proc[q].state = "running"
  BY DEF Running
<1>2. /\ x \in Process /\ EntryOK(x) /\ Redirected(proc, q) = [proc EXCEPT ![q] = x]
      /\ x.at = "child" /\ x.state = "running" /\ x.parent = proc[q].parent
      /\ x.origin = proc[q].origin /\ x.job = proc[q].job /\ x.late = proc[q].late
  BY RedirectedEntry
<1> HIDE DEF x
<1> QED
  BY <1>1, <1>2, GoesOnSound

LEMMA ChildWired ==
    ASSUME Sound(proc), NEW q \in Pids, Child(q), NEW alone, Wired(proc, alone)
    PROVE  Wired(proc', alone)
<1> DEFINE x == Redirected(proc, q)[q]
<1>1. Running(q, "child")
  BY DEF Child
<1>2. CASE /\ Len(proc[q].cmd.stages) = 1
           /\ proc' = [proc EXCEPT ![q] = [x EXCEPT !.at = "exec"]]
  BY <1>1, <1>2, LastWired
<1>3. CASE proc' = Exited(Redirected(proc, q), q)
  <2>1. Sound(Redirected(proc, q))
    BY <1>1, RedirectedSound
  <2>2. Wired(Redirected(proc, q), alone)
    BY <1>1, RedirectedWired
  <2> QED
    BY <1>3, <2>1, <2>2, ExitedWired
<1>4. ASSUME NEW w \in Pids, NEW pipe \in Unused, NEW next \in Commands,
             proc[w].state = "none", w # q, Len(proc[q].cmd.stages) > 1,
             next.stages = Tail(proc[q].cmd.stages),
             proc' = [proc EXCEPT ![q] = ReaderOf(x, pipe, next), ![w] = WriterOf(x, q, pipe)]
      PROVE  Wired(proc', alone)
  BY <1>1, <1>4, PipelineWired
<1> QED
  BY <1>2, <1>3, <1>4, ChildIs

-----------------------------------------------------------------------------
(* The invariant of the specification. *)

LEMMA CodeWired ==
    ASSUME Sound(proc), NEW p \in Pids, Code(p) \/ World(p), NEW alone, Wired(proc, alone)
    PROVE  Wired(proc', alone)
<1>1. CASE World(p)
  BY <1>1, WorldWired DEF World
<1>2. CASE Code(p)
  BY <1>2, EndsWired, PauseWired, ResumeWired, MyBgWired, MyFgWired, HelperWired, ScriptWired,
     CompleteWired, PlayAlarmWired, EchoLineWired, RunProgramWired, ChildWired, ExecuteWired,
     WaitAnyWired DEF Code
<1> QED
  BY <1>1, <1>2

WiredTables == SoundTables /\ Wired(proc, ~shared)

LEMMA StepWired == WiredTables /\ [Next]_vars => WiredTables'
<1> SUFFICES ASSUME TypeOK, Sound(proc), Wired(proc, ~shared), [Next]_vars
             PROVE  Wired(proc', ~shared')
  BY StepSound DEF WiredTables, SoundTables
<1>1. tty \in {"cooked", "raw"}
  BY DEF TypeOK
<1>2. ASSUME NEW p \in Pids, ShowPrompt(p) PROVE Wired(proc', ~shared')
  <2>1. ~shared' => ~shared /\ proc[p].origin # "stage"
    BY <1>2 DEF ShowPrompt
  <2>2. Wired(proc, ~shared')
    BY <2>1 DEF Wired
  <2> QED
    BY <1>1, <1>2, <2>1, <2>2, ShowPromptWired
<1>3. ASSUME NEW p \in Pids,
             EndOfInput(p) \/ CrashingLine(p) \/ Waitid(p) \/ ShellStopped(p) \/ ShellKilled(p)
      PROVE  Wired(proc', ~shared')
  <2>1. Wired(proc', ~shared)
    BY <1>3, EndsWired, WaitidWired, ShellSignalledWired
  <2>2. ~shared' => ~shared
    BY <1>3 DEF EndOfInput, CrashingLine, Waitid, ShellStopped, ShellKilled
  <2> QED
    BY <2>1, <2>2 DEF Wired
<1>4. ASSUME NEW p \in Pids, ReadLine(p) \/ ReadNothing(p) PROVE Wired(proc', ~shared')
  <2>1. shared' = shared
    BY <1>4 DEF ReadLine, ReadNothing
  <2>2. Wired(proc', ~shared)
    BY <1>4, ReadWired
  <2> QED
    BY <2>1, <2>2
<1>5. ASSUME NEW p \in Pids, Code(p) \/ World(p) PROVE Wired(proc', ~shared')
  <2>1. shared' = shared
    BY <1>5 DEF Code, World
  <2>2. Wired(proc', ~shared)
    BY <1>5, CodeWired
  <2> QED
    BY <2>1, <2>2
<1>6. CASE UNCHANGED vars
  BY <1>6 DEF vars
<1> QED
  BY <1>2, <1>3, <1>4, <1>5, <1>6 DEF Next

LEMMA WiredAlways == Spec => []WiredTables
<1>1. Init => WiredTables
  <2> SUFFICES ASSUME Init PROVE SoundTables /\ Wired(proc, ~shared)
    BY DEF WiredTables
  <2>1. SoundTables
    BY InitialTypes, InitiallySound DEF SoundTables
  <2>2. Wired(proc, TRUE)
    BY InitiallyWired
  <2>3. Wired(proc, ~shared)
    BY <2>2 DEF Wired
  <2> QED
    BY <2>1, <2>3
<1> QED
  BY <1>1, StepWired, PTL DEF Spec

\* A pipeline is connected as it was typed, for lines of any length, any number of pipelines
\* at a time and shells inside them: every command but the last writes into a pipe, and a
\* program that reads from this pipe executes the rest of the line behind this command.
THEOREM PipelinesPlumbed == Spec => []Plumbed
<1>1. WiredTables => Plumbed
  BY PipedIsPlumbed DEF WiredTables, Wired
<1> QED
  BY <1>1, WiredAlways, PTL

\* While no shell prompts beside its parent, no set of processes can be found in which each
\* waits for another one of the set: in waitid, in wait, or at the reading end of a pipe.
THEOREM NobodyWaitsInACircle == Spec => []NoCircularWait
<1>1. WiredTables => NoCircularWait
  <2> SUFFICES ASSUME Sound(proc), Wired(proc, ~shared), ~shared
               PROVE  \A S \in (SUBSET Pids) \ {{}} : \E p \in S : WaitsFor(p) \cap S = {}
    BY DEF WiredTables, SoundTables, NoCircularWait
  <2>1. Wired(proc, TRUE)
    BY DEF Wired
  <2> QED
    BY <2>1, OrderedWaits
<1> QED
  BY <1>1, WiredAlways, PTL
===============================================================================
