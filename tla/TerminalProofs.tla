----------------------------- MODULE TerminalProofs -----------------------------
(***************************************************************************)
(* The terminal of module Shell: a program in front finds it as the user   *)
(* had it.  While nothing is shared, the processes of the shell's own code *)
(* that may get back to main form one line: the root, the child it waits   *)
(* for, the child that one waits for, and so on.  Only the last of them    *)
(* can be at a prompt, and the terminal is in its hands.                   *)
(***************************************************************************)
EXTENDS ShellProofs

-----------------------------------------------------------------------------
(* The invariant. *)

\* A process of process_command that may get back to main.
Stays(r) == r.at \notin {"program", "nowhere"} /\ ~Leaves(r.stack)
Fore(r) == Stays(r) /\ r.origin \in {"root", "foreground"}

\* One that does not, and is not in prompt.
Out(r) == ~Stays(r) /\ r.at # "prompt"

\* What process_command was called with when it does not return to main at once: the
\* commands of the scripts, whose names are known but for the first word of psvis.
Scripted(cmd) ==
    \/ Head(cmd.stages).name = "prog"
    \/ Head(cmd.stages).name = "missing" /\ Len(cmd.stages) = 1 /\ ~cmd.background

\* What is to be run has a first command.
Full(stack) == \A i \in DOMAIN stack : stack[i].cmd.stages # <<>>

\* One script at a time; and what runs in the background, or at the head of a pipeline, is
\* on its way to a program or to main.
ShapeOK(r) ==
    Stays(r) =>
       /\ r.at \in {"command", "child", "exec"} => r.cmd.stages # <<>>
       /\ Full(r.stack) /\ Len(r.stack) <= 1
       /\ r.stack # <<>> /\ r.at \in {"command", "child", "exec"} => Scripted(r.cmd)
       /\ r.origin \notin {"root", "foreground"} =>
             /\ r.at \in {"main", "child", "exec", "helper", "alarm"}
             /\ r.at \in {"child", "exec"} => r.cmd.background \/ Len(r.cmd.stages) > 1

\* The line: from the root each waits for the next, its child.
Chain(ps, n, c) ==
    /\ \A x \in Pids : Fore(ps[x]) <=> \E i \in 1 .. n : c[i] = x
    /\ \A i, j \in 1 .. n : c[i] = c[j] => i = j
    /\ n > 0 => c[1] = root
    /\ \A i \in 1 .. n - 1 : /\ ps[c[i]].at = "wait" /\ ps[c[i]].target = c[i + 1]
                             /\ ps[c[i + 1]].parent = c[i]

Chained(ps) == \E n \in Nat : \E c \in [1 .. n -> Pids] : Chain(ps, n, c)

Terminal(ps, mode) ==
    /\ mode = "raw" => \E x \in Pids : ps[x].at = "prompt" /\ ps[x].in = "tty"
    /\ \A x \in Pids : ps[x].at = "prompt" =>
          Fore(ps[x]) /\ (ps[x].in = "tty" => ps[x].backup = "cooked")

Shaped(ps) == \A x \in Pids : ShapeOK(ps[x])

InLine(ps, mode) == Shaped(ps) /\ Chained(ps) /\ Terminal(ps, mode)

-----------------------------------------------------------------------------
(* What a step of p may change. *)

SameLine(r, s) ==
    /\ s.origin = r.origin /\ s.at = r.at /\ s.stack = r.stack /\ s.cmd = r.cmd
    /\ s.target = r.target /\ s.in = r.in /\ s.backup = r.backup

\* p waits for nobody who may get back to main.
Unheld(ps, p) ==
    ps[p].at = "wait" => ~(Fore(ps[ps[p].target]) /\ ps[ps[p].target].parent = p)

\* Of another process only the parent changes, and only when p has been it; or it does
\* not get back to main; or it is a new child, which p waits for if it may get back to main.
MovesOther(ps, qs, p, x) ==
    \/ SameLine(ps[x], qs[x]) /\ (qs[x].parent = ps[x].parent \/ ps[x].parent = p)
    \/ Out(ps[x]) /\ Out(qs[x])
    \/ /\ ps[x].at = "nowhere" /\ qs[x].parent = p /\ qs[x].at # "prompt" /\ ShapeOK(qs[x])
       /\ Fore(qs[x]) => Fore(qs[p]) /\ qs[p].at = "wait" /\ qs[p].target = x

Moves(ps, qs, p) ==
    /\ \A x \in Pids : x # p => MovesOther(ps, qs, p, x)
    /\ ShapeOK(qs[p])
    /\ Fore(qs[p]) => Fore(ps[p]) /\ qs[p].parent = ps[p].parent
    /\ Unheld(ps, p)

LEMMA MovedShapes ==
    ASSUME NEW ps, Shaped(ps), NEW qs, NEW p \in Pids, Moves(ps, qs, p)
    PROVE  Shaped(qs)
<1> SUFFICES ASSUME NEW x \in Pids PROVE ShapeOK(qs[x])
  BY DEF Shaped
<1>1. ShapeOK(ps[x])
  BY DEF Shaped
<1>2. CASE SameLine(ps[x], qs[x])
  BY <1>1, <1>2 DEF SameLine, ShapeOK, Stays
<1>3. CASE Out(qs[x])
  BY <1>3 DEF ShapeOK, Out
<1> QED
  BY <1>2, <1>3 DEF Moves, MovesOther

\* Who may get back to main after a step of p: who might before, but p may have left and a
\* child it waits for come in.
LEMMA MovedFore ==
    ASSUME NEW ps, NEW qs, NEW p \in Pids, Moves(ps, qs, p), NEW x \in Pids, x # p
    PROVE  /\ Fore(ps[x]) => /\ Fore(qs[x]) /\ SameLine(ps[x], qs[x])
                             /\ qs[x].parent = ps[x].parent \/ ps[x].parent = p
           /\ Fore(qs[x]) /\ ~Fore(ps[x]) =>
                 qs[x].parent = p /\ Fore(qs[p]) /\ qs[p].at = "wait" /\ qs[p].target = x
<1>1. MovesOther(ps, qs, p, x)
  BY DEF Moves
<1>2. SameLine(ps[x], qs[x]) => (Fore(ps[x]) <=> Fore(qs[x]))
  BY DEF SameLine, Fore, Stays
<1>3. /\ ps[x].at = "nowhere" => Out(ps[x])
      /\ Out(ps[x]) => ~Fore(ps[x])
      /\ Out(qs[x]) => ~Fore(qs[x])
  BY DEF Fore, Stays, Out
<1> QED
  BY <1>1, <1>2, <1>3 DEF MovesOther

LEMMA MovedChain ==
    ASSUME NEW ps, Chained(ps), NEW qs, NEW p \in Pids, Moves(ps, qs, p)
    PROVE  Chained(qs)
<1>0. PICK n \in Nat : \E c \in [1 .. n -> Pids] : Chain(ps, n, c)
  BY DEF Chained
<1>1. PICK c \in [1 .. n -> Pids] : Chain(ps, n, c)
  BY <1>0
<1>2. /\ \A x \in Pids : Fore(ps[x]) <=> \E i \in 1 .. n : c[i] = x
      /\ \A i, j \in 1 .. n : c[i] = c[j] => i = j
      /\ n > 0 => c[1] = root
      /\ \A i \in 1 .. n - 1 : /\ ps[c[i]].at = "wait" /\ ps[c[i]].target = c[i + 1]
                               /\ ps[c[i + 1]].parent = c[i]
  BY <1>1 DEF Chain
<1>3. \A i \in 1 .. n : c[i] \in Pids /\ Fore(ps[c[i]])
  BY <1>2
<1>4. ASSUME NEW i \in 1 .. n - 1 PROVE c[i] # p
  <2>1. i + 1 \in 1 .. n /\ i \in 1 .. n
    OBVIOUS
  <2>2. Fore(ps[c[i + 1]])
    BY <1>3, <2>1
  <2> QED
    BY <1>2, <2>2 DEF Moves, Unheld
\* The links stay as they are, but for a last one to p.
<1>5. ASSUME NEW i \in 1 .. n - 1, c[i + 1] = p => Fore(qs[p])
      PROVE  qs[c[i]].at = "wait" /\ qs[c[i]].target = c[i + 1] /\ qs[c[i + 1]].parent = c[i]
  <2>1. /\ i + 1 \in 1 .. n /\ i \in 1 .. n /\ c[i] # p
        /\ ps[c[i]].at = "wait" /\ ps[c[i]].target = c[i + 1] /\ ps[c[i + 1]].parent = c[i]
    BY <1>2, <1>4
  <2>2. c[i] \in Pids /\ c[i + 1] \in Pids /\ Fore(ps[c[i]]) /\ Fore(ps[c[i + 1]])
    BY <1>3, <2>1
  <2>3. SameLine(ps[c[i]], qs[c[i]])
    BY <2>1, <2>2, MovedFore
  <2>4. CASE c[i + 1] = p
    BY <1>5, <2>1, <2>3, <2>4 DEF Moves, SameLine
  <2>5. CASE c[i + 1] # p
    <3>1. qs[c[i + 1]].parent = ps[c[i + 1]].parent \/ ps[c[i + 1]].parent = p
      BY <2>2, <2>5, MovedFore
    <3> QED
      BY <2>1, <2>3, <3>1 DEF SameLine
  <2> QED
    BY <2>4, <2>5
<1>6. Fore(ps[p]) => n > 0 /\ c[n] = p
  BY <1>2, <1>4
<1>7. CASE ~Fore(qs[p]) /\ Fore(ps[p])
  <2> DEFINE m == n - 1
             e == [i \in 1 .. m |-> c[i]]
  <2>1. m \in Nat /\ e \in [1 .. m -> Pids] /\ \A i \in 1 .. m : e[i] = c[i] /\ i \in 1 .. n
        /\ c[i] # p
    BY <1>4, <1>6, <1>7
  <2>2. ASSUME NEW x \in Pids PROVE Fore(qs[x]) <=> \E i \in 1 .. m : e[i] = x
    <3>1. CASE x = p
      BY <1>7, <2>1, <3>1
    <3>2. CASE x # p
      <4>1. Fore(qs[x]) <=> Fore(ps[x])
        BY <1>7, <3>2, MovedFore
      <4>2. (\E i \in 1 .. n : c[i] = x) <=> \E i \in 1 .. m : c[i] = x
        BY <1>6, <1>7, <3>2
      <4> QED
        BY <1>2, <2>1, <4>1, <4>2
    <3> QED
      BY <3>1, <3>2
  <2>3. \A i, j \in 1 .. m : e[i] = e[j] => i = j
    BY <1>2, <2>1
  <2>4. m > 0 => e[1] = root
    BY <1>2, <2>1
  <2>5. ASSUME NEW i \in 1 .. m - 1
        PROVE  qs[e[i]].at = "wait" /\ qs[e[i]].target = e[i + 1] /\ qs[e[i + 1]].parent = e[i]
    <3>1. i \in 1 .. n - 1 /\ i \in 1 .. m /\ i + 1 \in 1 .. m
      BY <2>1
    <3>2. c[i + 1] # p /\ e[i] = c[i] /\ e[i + 1] = c[i + 1]
      BY <2>1, <3>1
    <3> QED
      BY <1>5, <3>1, <3>2
  <2> HIDE DEF m, e
  <2>6. Chain(qs, m, e)
    BY <2>2, <2>3, <2>4, <2>5 DEF Chain
  <2> QED
    BY <2>1, <2>6 DEF Chained
<1>8. CASE (Fore(qs[p]) <=> Fore(ps[p])) /\ \A x \in Pids : x # p /\ Fore(qs[x]) => Fore(ps[x])
  <2>1. \A x \in Pids : Fore(qs[x]) <=> Fore(ps[x])
    BY <1>8, MovedFore
  <2>2. \A i \in 1 .. n - 1 : c[i + 1] = p => Fore(qs[p])
    BY <1>3, <2>1
  <2>3. Chain(qs, n, c)
    BY <1>2, <1>5, <2>1, <2>2 DEF Chain
  <2> QED
    BY <2>3 DEF Chained
<1>9. ASSUME NEW w \in Pids, w # p, Fore(qs[w]), ~Fore(ps[w]) PROVE Chained(qs)
  <2> DEFINE m == n + 1
             e == [i \in 1 .. m |-> IF i <= n THEN c[i] ELSE w]
  <2>1. /\ qs[w].parent = p /\ Fore(qs[p]) /\ qs[p].at = "wait" /\ qs[p].target = w
        /\ Fore(ps[p])
    <3>1. qs[w].parent = p /\ Fore(qs[p]) /\ qs[p].at = "wait" /\ qs[p].target = w
      BY <1>9, MovedFore
    <3> QED
      BY <3>1 DEF Moves
  <2>2. /\ m \in Nat /\ e \in [1 .. m -> Pids] /\ e[m] = w
        /\ \A i \in 1 .. n : e[i] = c[i] /\ i \in 1 .. m /\ c[i] # w
    BY <1>3, <1>9
  <2>3. ASSUME NEW x \in Pids PROVE Fore(qs[x]) <=> \E i \in 1 .. m : e[i] = x
    <3>1. CASE x = w
      <4>1. m \in 1 .. m
        OBVIOUS
      <4> QED
        BY <1>9, <2>2, <3>1, <4>1
    <3>2. CASE x # w
      <4>1. Fore(qs[x]) <=> Fore(ps[x])
        BY <2>1, <3>2, MovedFore
      <4>2. (\E i \in 1 .. n : c[i] = x) <=> \E i \in 1 .. m : e[i] = x
        BY <2>2, <3>2
      <4> QED
        BY <1>2, <4>1, <4>2
    <3> QED
      BY <3>1, <3>2
  <2>4. ASSUME NEW i \in 1 .. m, NEW j \in 1 .. m, e[i] = e[j] PROVE i = j
    <3>1. \A k \in 1 .. m : k = m \/ k \in 1 .. n
      OBVIOUS
    <3> QED
      BY <1>2, <2>2, <2>4, <3>1
  <2>5. m > 0 => e[1] = root
    BY <1>2, <1>6, <2>1, <2>2
  <2>6. ASSUME NEW i \in 1 .. m - 1
        PROVE  qs[e[i]].at = "wait" /\ qs[e[i]].target = e[i + 1] /\ qs[e[i + 1]].parent = e[i]
    <3>1. CASE i = n
      <4>1. e[i] = p /\ i + 1 = m
        BY <1>6, <2>1, <2>2, <3>1
      <4> QED
        BY <2>1, <2>2, <4>1
    <3>2. CASE i # n
      <4>1. i \in 1 .. n - 1 /\ i \in 1 .. n /\ i + 1 \in 1 .. n
        BY <3>2
      <4>2. e[i] = c[i] /\ e[i + 1] = c[i + 1]
        BY <2>2, <4>1
      <4> QED
        BY <1>5, <2>1, <4>1, <4>2
    <3> QED
      BY <3>1, <3>2
  <2> HIDE DEF m, e
  <2>7. Chain(qs, m, e)
    BY <2>3, <2>4, <2>5, <2>6 DEF Chain
  <2> QED
    BY <2>2, <2>7 DEF Chained
<1> QED
  BY <1>7, <1>8, <1>9 DEF Moves

LEMMA MovedTerminal ==
    ASSUME NEW ps, NEW mode, Terminal(ps, mode), NEW qs, NEW p \in Pids, Moves(ps, qs, p),
           ps[p].at # "prompt", qs[p].at # "prompt"
    PROVE  Terminal(qs, mode)
<1>1. ASSUME NEW x \in Pids
      PROVE  /\ ps[x].at = "prompt" => SameLine(ps[x], qs[x])
             /\ qs[x].at = "prompt" => ps[x].at = "prompt"
  <2>1. CASE x = p
    BY <2>1
  <2>2. CASE x # p
    <3>1. MovesOther(ps, qs, p, x)
      BY <2>2 DEF Moves
    <3>2. ps[x].at = "prompt" => Stays(ps[x])
      BY DEF Terminal, Fore
    <3> QED
      BY <3>1, <3>2 DEF MovesOther, SameLine, Out
  <2> QED
    BY <2>1, <2>2
<1>2. ASSUME NEW x \in Pids, qs[x].at = "prompt"
      PROVE  Fore(qs[x]) /\ (qs[x].in = "tty" => qs[x].backup = "cooked")
  <2>1. ps[x].at = "prompt" /\ SameLine(ps[x], qs[x])
    BY <1>1, <1>2
  <2>2. Fore(ps[x]) /\ (ps[x].in = "tty" => ps[x].backup = "cooked")
    BY <2>1 DEF Terminal
  <2> QED
    BY <2>1, <2>2 DEF SameLine, Fore, Stays
<1>3. ASSUME NEW x \in Pids, ps[x].at = "prompt", ps[x].in = "tty"
      PROVE  qs[x].at = "prompt" /\ qs[x].in = "tty"
  BY <1>1, <1>3 DEF SameLine
<1> QED
  BY <1>2, <1>3 DEF Terminal

LEMMA MovedLine ==
    ASSUME NEW ps, NEW mode, InLine(ps, mode), NEW qs, NEW p \in Pids, Moves(ps, qs, p),
           ps[p].at # "prompt", qs[p].at # "prompt"
    PROVE  InLine(qs, mode)
BY MovedShapes, MovedChain, MovedTerminal DEF InLine

\* A step that nobody in the line notices.
Alike(ps, qs) ==
    \A x \in Pids : \/ SameLine(ps[x], qs[x]) /\ qs[x].parent = ps[x].parent
                    \/ Out(ps[x]) /\ Out(qs[x])

LEMMA AlikeLine ==
    ASSUME NEW ps, NEW mode, InLine(ps, mode), NEW qs, Alike(ps, qs)
    PROVE  InLine(qs, mode)
<1>1. ASSUME NEW x \in Pids
      PROVE  /\ ShapeOK(ps[x]) => ShapeOK(qs[x])
             /\ Fore(ps[x]) <=> Fore(qs[x])
             /\ Fore(ps[x]) => SameLine(ps[x], qs[x]) /\ qs[x].parent = ps[x].parent
             /\ ps[x].at = "prompt" => SameLine(ps[x], qs[x])
             /\ qs[x].at = "prompt" => ps[x].at = "prompt"
  <2>1. CASE SameLine(ps[x], qs[x]) /\ qs[x].parent = ps[x].parent
    BY <2>1 DEF SameLine, ShapeOK, Fore, Stays
  <2>2. CASE Out(ps[x]) /\ Out(qs[x])
    BY <2>2 DEF ShapeOK, Fore, Out
  <2> QED
    BY <2>1, <2>2 DEF Alike
<1>2. Shaped(qs)
  BY <1>1 DEF Shaped, InLine
<1>3. Chained(qs)
  <2>1. PICK n \in Nat : \E c \in [1 .. n -> Pids] : Chain(ps, n, c)
    BY DEF InLine, Chained
  <2>2. PICK c \in [1 .. n -> Pids] : Chain(ps, n, c)
    BY <2>1
  <2>3. \A i \in 1 .. n : c[i] \in Pids /\ Fore(ps[c[i]])
    BY <2>2 DEF Chain
  <2>4. ASSUME NEW i \in 1 .. n - 1
        PROVE  qs[c[i]].at = "wait" /\ qs[c[i]].target = c[i + 1] /\ qs[c[i + 1]].parent = c[i]
    <3>1. i \in 1 .. n /\ i + 1 \in 1 .. n
      OBVIOUS
    <3>2. ps[c[i]].at = "wait" /\ ps[c[i]].target = c[i + 1] /\ ps[c[i + 1]].parent = c[i]
      BY <2>2 DEF Chain
    <3>3. SameLine(ps[c[i]], qs[c[i]]) /\ qs[c[i + 1]].parent = ps[c[i + 1]].parent
      BY <1>1, <2>3, <3>1
    <3> QED
      BY <3>2, <3>3 DEF SameLine
  <2>5. Chain(qs, n, c)
    BY <1>1, <2>2, <2>4 DEF Chain
  <2> QED
    BY <2>5 DEF Chained
<1>4. Terminal(qs, mode)
  <2>1. ASSUME NEW x \in Pids, qs[x].at = "prompt"
        PROVE  Fore(qs[x]) /\ (qs[x].in = "tty" => qs[x].backup = "cooked")
    BY <1>1, <2>1 DEF InLine, Terminal, SameLine
  <2>2. ASSUME NEW x \in Pids, ps[x].at = "prompt", ps[x].in = "tty"
        PROVE  qs[x].at = "prompt" /\ qs[x].in = "tty"
    BY <1>1, <2>2 DEF SameLine
  <2> QED
    BY <2>1, <2>2 DEF InLine, Terminal
<1> QED
  BY <1>2, <1>3, <1>4 DEF InLine

-----------------------------------------------------------------------------
(* The line and what the system calls do. *)

LEMMA UpdatedLine ==
    ASSUME NEW ps \in Tables, NEW mode, InLine(ps, mode), NEW p \in Pids, NEW r, ShapeOK(r),
           Fore(r) => Fore(ps[p]), r.parent = ps[p].parent, Unheld(ps, p),
           ps[p].at # "prompt", r.at # "prompt"
    PROVE  InLine([ps EXCEPT ![p] = r], mode)
<1> DEFINE qs == [ps EXCEPT ![p] = r]
<1>1. qs[p] = r /\ \A x \in Pids : x # p => qs[x] = ps[x]
  BY DEF Tables
<1> HIDE DEF qs
<1>2. \A x \in Pids : x # p => MovesOther(ps, qs, p, x)
  BY <1>1 DEF MovesOther, SameLine
<1>3. Moves(ps, qs, p)
  BY <1>1, <1>2 DEF Moves
<1>4. InLine(qs, mode)
  BY <1>1, <1>3, MovedLine
<1> QED
  BY <1>4 DEF qs

LEMMA ForkedLine ==
    ASSUME NEW ps \in Tables, NEW mode, InLine(ps, mode), NEW p \in Pids, NEW r, ShapeOK(r),
           Fore(r) => Fore(ps[p]), r.parent = ps[p].parent, Unheld(ps, p),
           ps[p].at # "prompt", r.at # "prompt",
           NEW w \in Pids, w # p, ps[w].at = "nowhere",
           NEW c, ShapeOK(c), c.parent = p, c.at # "prompt",
           Fore(c) => Fore(r) /\ r.at = "wait" /\ r.target = w
    PROVE  InLine([ps EXCEPT ![p] = r, ![w] = c], mode)
<1> DEFINE qs == [ps EXCEPT ![p] = r, ![w] = c]
<1>1. qs[p] = r /\ qs[w] = c /\ \A x \in Pids : x # p /\ x # w => qs[x] = ps[x]
  BY DEF Tables
<1> HIDE DEF qs
<1>2. \A x \in Pids : x # p => MovesOther(ps, qs, p, x)
  BY <1>1 DEF MovesOther, SameLine
<1>3. Moves(ps, qs, p)
  BY <1>1, <1>2 DEF Moves
<1>4. InLine(qs, mode)
  BY <1>1, <1>3, MovedLine
<1> QED
  BY <1>4 DEF qs

LEMMA EmptyStack == Full(<<>>) /\ Len(<<>>) <= 1 /\ ~Leaves(<<>>)
<1>1. DOMAIN <<>> = {} /\ Len(<<>>) = 0
  OBVIOUS
<1> QED
  BY <1>1 DEF Full, Leaves

LEMMA ExitedLine ==
    ASSUME NEW ps, Sound(ps), NEW mode, InLine(ps, mode), NEW p \in Pids, Unheld(ps, p),
           ps[p].at # "prompt"
    PROVE  InLine(Exited(ps, p), mode)
<1> DEFINE qs == Exited(ps, p)
<1>1. ps \in Tables /\ \A x \in Pids : ps[x] \in Process /\ EntryOK(ps[x])
  BY DEF Sound, Tables
<1>2. qs[p].at = "nowhere"
  <2>1. qs[p] = NoProcess \/ qs[p] = Zombie(ps[p].parent)
    BY <1>1, ExitedFields
  <2>2. ps[p].parent \in Pids \cup {init}
    BY <1>1 DEF Process
  <2> HIDE DEF qs
  <2> QED
    BY <2>1, <2>2, Gone
<1>3. ASSUME NEW x \in Pids, x # p PROVE MovesOther(ps, qs, p, x)
  <2>1. CASE ps[x].parent # p
    <3>1. qs[x] = ps[x]
      BY <1>1, <1>3, <2>1, ExitedFields
    <3> HIDE DEF qs
    <3> QED
      BY <3>1 DEF MovesOther, SameLine
  <2>2. CASE ps[x].parent = p /\ ps[x].state = "zombie"
    <3>1. qs[x] = NoProcess
      BY <1>1, <1>3, <2>2, ExitedFields, ZenonT(30)
    <3>2. ps[x].at = "nowhere"
      BY <1>1, <2>2 DEF EntryOK
    <3> HIDE DEF qs
    <3> QED
      BY <3>1, <3>2, Gone DEF MovesOther, Out, Stays
  <2>3. CASE ps[x].parent = p /\ ps[x].state # "zombie"
    <3>1. qs[x] = [Detached(ps[x]) EXCEPT !.parent = init]
      BY <1>1, <1>3, <2>3, ExitedFields
    <3> HIDE DEF qs
    <3>2. CASE ps[x].origin # "foreground"
      <4>1. SameLine(ps[x], qs[x])
        BY <1>1, <3>1, <3>2 DEF Detached, SameLine, Process
      <4> QED
        BY <2>3, <4>1 DEF MovesOther
    <3>3. CASE ps[x].origin = "foreground"
      <4>1. qs[x].at = ps[x].at
        BY <1>1, <3>1 DEF Detached, Process
      <4>2. Out(ps[x])
        <5>1. ps[x].at # "program" => ps[p].at = "wait" /\ ps[p].target = x
          BY <2>3, <3>3 DEF Sound, HeldOK
        <5>2. ~Stays(ps[x])
          BY <2>3, <3>3, <5>1 DEF Unheld, Fore, Stays
        <5>3. ps[x].at # "prompt"
          BY <1>1, <5>2, EmptyStack DEF EntryOK, Stays
        <5> QED
          BY <5>2, <5>3 DEF Out
      <4>3. qs[x].stack = ps[x].stack
        BY <1>1, <3>1 DEF Detached, Process
      <4> QED
        BY <4>1, <4>2, <4>3 DEF MovesOther, Out, Stays
    <3> QED
      BY <3>2, <3>3
  <2> QED
    BY <2>1, <2>2, <2>3
<1> HIDE DEF qs
<1>4. Moves(ps, qs, p)
  BY <1>2, <1>3 DEF Moves, ShapeOK, Fore, Stays
<1>5. InLine(qs, mode)
  BY <1>2, <1>4, MovedLine
<1> QED
  BY <1>5 DEF qs

LEMMA StackTail ==
    ASSUME NEW stack \in Seq(Frames), stack # <<>>, Len(stack) <= 1
    PROVE  Tail(stack) = <<>>
<1>1. Tail(stack) \in Seq(Frames) /\ Len(Tail(stack)) = Len(stack) - 1 /\ Len(stack) \in Nat
      /\ Len(stack) # 0
  BY HeadTailProperties
<1>2. Len(Tail(stack)) = 0
  BY <1>1
<1> QED
  BY <1>1, <1>2

LEMMA ReturnedLine ==
    ASSUME NEW ps, Sound(ps), NEW mode, InLine(ps, mode), NEW p \in Pids, Unheld(ps, p),
           ps[p].at \notin {"program", "nowhere", "prompt"},
           ps[p].stack # <<>> /\ ~Leaves(ps[p].stack) => ps[p].origin \in {"root", "foreground"}
    PROVE  InLine(Returned(ps, p), mode)
<1> DEFINE top == Head(ps[p].stack)
<1>1. ps \in Tables /\ ps[p] \in Process /\ ShapeOK(ps[p])
  BY DEF Sound, Tables, InLine, Shaped
<1>2. ps[p].stack \in Seq(Frames)
  BY <1>1 DEF Process, Frames
<1>3. CASE /\ ps[p].stack = <<>>
           /\ Returned(ps, p) =
                 [ps EXCEPT ![p].at = "main", ![p].cmd = NoCommand, ![p].target = init]
  <2> DEFINE r == [ps[p] EXCEPT !.at = "main", !.cmd = NoCommand, !.target = init]
  <2>1. /\ r.at = "main" /\ r.parent = ps[p].parent /\ r.origin = ps[p].origin
        /\ r.stack = <<>>
    BY <1>1, <1>3 DEF Process
  <2>2. Returned(ps, p) = [ps EXCEPT ![p] = r]
    BY <1>1, <1>3 DEF Tables
  <2> HIDE DEF r
  <2>3. ShapeOK(r)
    BY <2>1, EmptyStack DEF ShapeOK
  <2>4. Fore(r) => Fore(ps[p])
    BY <1>3, <2>1 DEF Fore, Stays
  <2>5. InLine([ps EXCEPT ![p] = r], mode)
    BY <1>1, <2>1, <2>3, <2>4, UpdatedLine
  <2> QED
    BY <2>2, <2>5
<1>4. CASE Returned(ps, p) = Exited(ps, p)
  BY <1>4, ExitedLine
<1>5. CASE /\ ps[p].stack # <<>> /\ top \in Frames /\ top.do = "crontab"
           /\ Returned(ps, p) = Execed([ps EXCEPT ![p].holds = @ \ {<<top.pipe, "w">>},
                                                   ![p].in = top.pipe], p)
  <2> DEFINE r == [ps[p] EXCEPT !.holds = @ \ {<<top.pipe, "w">>}, !.in = top.pipe,
                                !.at = "program", !.stack = <<>>, !.target = init]
  <2>1. r.at = "program" /\ r.parent = ps[p].parent
    BY <1>1 DEF Process
  <2>2. Returned(ps, p) = [ps EXCEPT ![p] = r]
    BY <1>1, <1>5 DEF Execed, Tables
  <2> HIDE DEF r
  <2>3. ShapeOK(r) /\ ~Fore(r)
    BY <2>1 DEF ShapeOK, Fore, Stays
  <2>4. InLine([ps EXCEPT ![p] = r], mode)
    BY <1>1, <2>1, <2>3, UpdatedLine
  <2> QED
    BY <2>2, <2>4
<1>6. CASE /\ ps[p].stack # <<>> /\ top \in Frames /\ top.do = "run"
           /\ Returned(ps, p) =
                 [ps EXCEPT ![p].at = "command", ![p].cmd = top.cmd, ![p].target = init,
                            ![p].stack = Tail(@)]
  <2> DEFINE r == [ps[p] EXCEPT !.at = "command", !.cmd = top.cmd, !.target = init,
                                !.stack = Tail(@)]
  <2>1. /\ r.at = "command" /\ r.parent = ps[p].parent /\ r.origin = ps[p].origin
        /\ r.stack = Tail(ps[p].stack) /\ r.cmd = top.cmd
    BY <1>1 DEF Process
  <2>2. Returned(ps, p) = [ps EXCEPT ![p] = r]
    BY <1>1, <1>6 DEF Tables
  <2> HIDE DEF r
  <2>3. CASE Leaves(ps[p].stack)
    <3>1. Leaves(r.stack)
      BY <1>2, <1>6, <2>1, <2>3, LeavesTail
    <3>2. ShapeOK(r) /\ ~Fore(r)
      BY <3>1 DEF ShapeOK, Fore, Stays
    <3>3. InLine([ps EXCEPT ![p] = r], mode)
      BY <1>1, <2>1, <3>2, UpdatedLine
    <3> QED
      BY <2>2, <3>3
  <2>4. CASE ~Leaves(ps[p].stack)
    <3>1. r.stack = <<>>
      <4>1. Len(ps[p].stack) <= 1
        BY <1>1, <2>4 DEF ShapeOK, Stays
      <4> QED
        BY <1>2, <1>6, <2>1, <4>1, StackTail
    <3>2. ShapeOK(r)
      <4>1. r.origin \in {"root", "foreground"}
        BY <1>6, <2>1, <2>4
      <4>2. r.cmd.stages # <<>>
        <5>1. Full(ps[p].stack)
          BY <1>1, <2>4 DEF ShapeOK, Stays
        <5>2. 1 \in DOMAIN ps[p].stack /\ top = ps[p].stack[1]
          BY <1>2, <1>6
        <5> QED
          BY <2>1, <5>1, <5>2 DEF Full
      <4> QED
        BY <3>1, <4>1, <4>2, EmptyStack DEF ShapeOK
    <3>3. Fore(r) => Fore(ps[p])
      BY <2>1, <2>4 DEF Fore, Stays
    <3>4. InLine([ps EXCEPT ![p] = r], mode)
      BY <1>1, <2>1, <3>2, <3>3, UpdatedLine
    <3> QED
      BY <2>2, <3>4
  <2> QED
    BY <2>3, <2>4
<1> QED
  BY <1>1, <1>3, <1>4, <1>5, <1>6, ReturnedIs, Zenon

\* From command, kill and wait nobody in the background returns to run a script.
LEMMA ReturningLine ==
    ASSUME NEW ps, Sound(ps), NEW mode, InLine(ps, mode), NEW p \in Pids, Unheld(ps, p),
           ps[p].at \in {"command", "kill", "wait", "any"}
    PROVE  InLine(Returned(ps, p), mode)
<1>1. ShapeOK(ps[p])
  BY DEF InLine, Shaped
<1>2. ~Leaves(ps[p].stack) => ps[p].origin \in {"root", "foreground"}
  BY <1>1 DEF ShapeOK, Stays
<1> QED
  BY <1>2, ReturnedLine

LEMMA StoppedLine ==
    ASSUME NEW ps, Sound(ps), NEW mode, InLine(ps, mode), NEW t \in Pids
    PROVE  InLine(Stopped(ps, t), mode) /\ \A x \in Pids : Stopped(ps, t)[x].at = ps[x].at
<1> DEFINE qs == Stopped(ps, t)
<1>1. ps \in Tables /\ ps[t] \in Process
  BY DEF Sound, Tables
<1>2. qs = ps \/ qs = [ps EXCEPT ![t] = [ps[t] EXCEPT !.state = "stopped", !.unreported = TRUE]]
  BY <1>1 DEF Stopped, Tables
<1> HIDE DEF qs
<1>3. ASSUME NEW x \in Pids PROVE SameLine(ps[x], qs[x]) /\ qs[x].parent = ps[x].parent
  <2>1. ps[x] \in Process
    BY <1>1 DEF Tables
  <2>2. qs[x] = ps[x] \/ qs[x] = [ps[x] EXCEPT !.state = "stopped", !.unreported = TRUE]
    BY <1>1, <1>2 DEF Tables
  <2> QED
    BY <2>1, <2>2 DEF Process, SameLine
<1>4. Alike(ps, qs)
  BY <1>3 DEF Alike
<1>5. InLine(qs, mode)
  BY <1>4, AlikeLine
<1> QED
  BY <1>3, <1>5 DEF SameLine, qs

LEMMA ResumedLine ==
    ASSUME NEW ps, Sound(ps), NEW mode, InLine(ps, mode), NEW t \in Pids, NEW by
    PROVE  /\ InLine(Released(Continued(ps, t), t, by), mode)
           /\ \A x \in Pids : Released(Continued(ps, t), t, by)[x].at = ps[x].at
<1> DEFINE mid == Continued(ps, t)
           qs == Released(mid, t, by)
<1>1. ps \in Tables /\ ps[t] \in Process /\ mid \in Tables
  BY ContinuedType DEF Sound, Tables
<1>2. mid = ps \/ mid = [ps EXCEPT ![t] = [ps[t] EXCEPT !.state = "running", !.unreported = FALSE]]
  BY <1>1 DEF Continued, Tables
<1> HIDE DEF mid
<1>3. ASSUME NEW x \in Pids PROVE SameLine(ps[x], mid[x]) /\ mid[x].parent = ps[x].parent
  <2>1. ps[x] \in Process
    BY <1>1 DEF Tables
  <2>2. mid[x] = ps[x] \/ mid[x] = [ps[x] EXCEPT !.state = "running", !.unreported = FALSE]
    BY <1>1, <1>2 DEF Tables
  <2> QED
    BY <2>1, <2>2 DEF Process, SameLine
<1>4. ASSUME NEW x \in Pids PROVE SameLine(mid[x], qs[x]) /\ qs[x].parent = mid[x].parent
  <2>1. mid[x] \in Process
    BY <1>1 DEF Tables
  <2>2. qs[x] = mid[x] \/ qs[x] = [mid[x] EXCEPT !.job = init]
    BY DEF Released
  <2> HIDE DEF qs
  <2> QED
    BY <2>1, <2>2 DEF SameLine, Process
<1> HIDE DEF qs
<1>5. ASSUME NEW x \in Pids PROVE SameLine(ps[x], qs[x]) /\ qs[x].parent = ps[x].parent
  BY <1>3, <1>4 DEF SameLine
<1>6. Alike(ps, qs)
  BY <1>5 DEF Alike
<1>7. InLine(qs, mode)
  BY <1>6, AlikeLine
<1> QED
  BY <1>5, <1>7 DEF SameLine, qs, mid

LEMMA CollectedLine ==
    ASSUME NEW ps, Sound(ps), NEW mode, InLine(ps, mode), NEW z \in Pids, ps[z].state = "zombie"
    PROVE  LET qs == Released([ps EXCEPT ![z] = NoProcess], z, init)
           IN  InLine(qs, mode) /\ \A x \in Pids : qs[x].at = ps[x].at
<1> DEFINE mid == [ps EXCEPT ![z] = NoProcess]
           qs == Released(mid, z, init)
<1>1. ps \in Tables /\ ps[z].at = "nowhere" /\ NoProcess.at = "nowhere"
  BY Gone DEF Sound, EntryOK
<1>2. mid \in Tables /\ mid[z] = NoProcess /\ \A x \in Pids : x # z => mid[x] = ps[x]
  BY <1>1, NoProcessType DEF Tables
<1> HIDE DEF mid
<1>3. ASSUME NEW x \in Pids PROVE SameLine(mid[x], qs[x]) /\ qs[x].parent = mid[x].parent
  <2>1. mid[x] \in Process
    BY <1>2 DEF Tables
  <2>2. qs[x] = mid[x] \/ qs[x] = [mid[x] EXCEPT !.job = init]
    BY DEF Released
  <2> HIDE DEF qs
  <2> QED
    BY <2>1, <2>2 DEF SameLine, Process
<1> HIDE DEF qs
<1>4. Alike(ps, qs) /\ \A x \in Pids : qs[x].at = ps[x].at
  BY <1>1, <1>2, <1>3 DEF Alike, SameLine, Out, Stays
<1>5. InLine(qs, mode)
  BY <1>4, AlikeLine
<1> QED
  BY <1>4, <1>5 DEF qs, mid

-----------------------------------------------------------------------------
(* The line and what the actions do. *)

LEMMA LineAt ==
    ASSUME Sound(proc), NEW mode, InLine(proc, mode), NEW p \in Pids
    PROVE  /\ proc \in Tables /\ proc[p] \in Process /\ EntryOK(proc[p]) /\ ShapeOK(proc[p])
           /\ proc[p].stack \in Seq(Frames)
           /\ proc[p].at # "wait" => Unheld(proc, p)
<1>1. proc \in Tables /\ proc[p] \in Process /\ EntryOK(proc[p])
  BY At
<1>2. proc[p].stack \in Seq(Frames)
  BY <1>1 DEF Process, Frames
<1> QED
  BY <1>1, <1>2 DEF InLine, Shaped, Unheld

LEMMA EndsLine ==
    ASSUME Sound(proc), NEW mode, InLine(proc, mode), NEW p \in Pids, Exit(p)
    PROVE  InLine(proc', mode)
<1>1. proc[p].at = "command" /\ proc' = Exited(proc, p)
  BY DEF Exit, Called, Running
<1>2. Unheld(proc, p)
  BY <1>1, LineAt
<1> QED
  BY <1>1, <1>2, ExitedLine

LEMMA MyBgLine ==
    ASSUME Sound(proc), NEW mode, InLine(proc, mode), NEW p \in Pids, MyBg(p)
    PROVE  InLine(proc', mode)
<1>1. proc[p].at = "command"
  BY DEF MyBg, Called, Running
<1>2. PICK t \in Pids : proc' = Returned(Released(Continued(proc, t), t, init), p)
  BY DEF MyBg
<1> DEFINE ps == Released(Continued(proc, t), t, init)
<1>3. Sound(ps) /\ InLine(ps, mode) /\ ps[p].at = "command"
  BY <1>1, ResumedSound, ResumedLine, ShellConstants
<1> HIDE DEF ps
<1>4. Unheld(ps, p)
  BY <1>3 DEF Unheld
<1> QED
  BY <1>2, <1>3, <1>4, ReturningLine DEF ps

\* Who stops itself is in kill, and still has its place in the line.
LEMMA PauseLine ==
    ASSUME Sound(proc), NEW mode, InLine(proc, mode), NEW p \in Pids, Pause(p)
    PROVE  InLine(proc', mode)
<1>1. /\ proc[p].at = "command" /\ proc \in Tables /\ proc[p] \in Process
      /\ ShapeOK(proc[p]) /\ Unheld(proc, p)
  BY LineAt DEF Pause, Called, Running
<1>2. CASE \E t \in Pids \ {p} : proc' = Returned(Stopped(proc, t), p)
  <2>1. PICK t \in Pids : proc' = Returned(Stopped(proc, t), p)
    BY <1>2
  <2> DEFINE ps == Stopped(proc, t)
  <2>2. Sound(ps) /\ InLine(ps, mode) /\ ps[p].at = "command"
    BY <1>1, StoppedSound, StoppedLine
  <2> HIDE DEF ps
  <2>3. Unheld(ps, p)
    BY <2>2 DEF Unheld
  <2> QED
    BY <2>1, <2>2, <2>3, ReturningLine DEF ps
<1>3. CASE proc' = [Stopped(proc, p) EXCEPT ![p].at = "kill"]
  <2> DEFINE ps == Stopped(proc, p)
             r == [ps[p] EXCEPT !.at = "kill"]
  <2>1. InLine(ps, mode) /\ ps \in Tables /\ ps[p].at = "command"
    BY <1>1, StoppedLine, StoppedType
  <2> HIDE DEF ps
  <2>2. ps[p] \in Process /\ ShapeOK(ps[p]) /\ Unheld(ps, p)
    BY <2>1 DEF Tables, InLine, Shaped, Unheld
  <2>3. /\ r.at = "kill" /\ r.parent = ps[p].parent /\ r.origin = ps[p].origin
        /\ r.stack = ps[p].stack
    BY <2>2 DEF Process
  <2>4. proc' = [ps EXCEPT ![p] = r]
    BY <1>3, <2>1 DEF Tables, ps
  <2> HIDE DEF r
  <2>5. ShapeOK(r) /\ (Fore(r) => Fore(ps[p]))
    BY <2>1, <2>2, <2>3 DEF ShapeOK, Fore, Stays
  <2>6. InLine([ps EXCEPT ![p] = r], mode)
    BY <2>1, <2>2, <2>3, <2>5, UpdatedLine
  <2> QED
    BY <2>4, <2>6
<1> QED
  BY <1>2, <1>3 DEF Pause

LEMMA ResumeLine ==
    ASSUME Sound(proc), NEW mode, InLine(proc, mode), NEW p \in Pids, Resume(p)
    PROVE  InLine(proc', mode)
<1>1. proc[p].at = "kill" /\ proc' = Returned(proc, p)
  BY DEF Resume, Running
<1>2. Unheld(proc, p)
  BY <1>1, LineAt
<1> QED
  BY <1>1, <1>2, ReturningLine

LEMMA HelperLine ==
    ASSUME Sound(proc), NEW mode, InLine(proc, mode), NEW q \in Pids, Helper(q)
    PROVE  InLine(proc', mode)
<1> DEFINE t == proc[q].target
           ps == Released(Continued(proc, t), t, proc[q].parent)
<1>1. proc[q].at = "helper" /\ proc' = Exited(ps, q)
  BY DEF Helper, Running
<1>2. t \in Pids
  BY <1>1, At DEF EntryOK
<1>3. Sound(ps) /\ InLine(ps, mode) /\ ps[q].at = "helper"
  BY <1>1, <1>2, ResumedSound, ResumedLine
<1> HIDE DEF ps
<1>4. Unheld(ps, q)
  BY <1>3 DEF Unheld
<1> QED
  BY <1>1, <1>3, <1>4, ExitedLine

\* A command of a script is never one that process_command knows itself.
LEMMA KnownOutsideScripts ==
    ASSUME NEW r, ShapeOK(r), r.at = "command",
           Head(r.cmd.stages).name \notin {"prog", "missing"}
    PROVE  Leaves(r.stack) \/ r.stack = <<>>
BY DEF ShapeOK, Stays, Scripted

\* A script: the line goes on with a command of it.
LEMMA PushedLine ==
    ASSUME Sound(proc), NEW mode, InLine(proc, mode), NEW p \in Pids, Running(p, "command"),
           Head(proc[p].cmd.stages).name \notin {"prog", "missing"},
           NEW cmd \in Commands, NEW frame \in Frames,
           frame.do = "run" /\ Stays(proc[p]) =>
              cmd.stages # <<>> /\ Scripted(cmd) /\ frame.cmd.stages # <<>>,
           proc' = [proc EXCEPT ![p].cmd = cmd, ![p].stack = <<frame>> \o @]
    PROVE  InLine(proc', mode)
<1> DEFINE r == [proc[p] EXCEPT !.cmd = cmd, !.stack = <<frame>> \o @]
<1>1. /\ proc \in Tables /\ proc[p] \in Process /\ ShapeOK(proc[p]) /\ proc[p].at = "command"
      /\ proc[p].stack \in Seq(Frames) /\ Unheld(proc, p)
  BY LineAt DEF Running
<1>2. proc' = [proc EXCEPT ![p] = r]
  BY <1>1 DEF Tables
<1>3. /\ r.at = "command" /\ r.parent = proc[p].parent /\ r.origin = proc[p].origin
      /\ r.cmd = cmd /\ r.stack = <<frame>> \o proc[p].stack
  BY <1>1 DEF Process
<1> HIDE DEF r
<1>4. CASE Leaves(r.stack)
  <2>1. ShapeOK(r) /\ ~Fore(r)
    BY <1>4 DEF ShapeOK, Fore, Stays
  <2>2. InLine([proc EXCEPT ![p] = r], mode)
    BY <1>1, <1>3, <2>1, UpdatedLine
  <2> QED
    BY <1>2, <2>2
<1>5. CASE ~Leaves(r.stack)
  <2>1. ~Leaves(proc[p].stack) /\ frame.do \notin {"exit", "crontab"}
    BY <1>1, <1>3, <1>5, LeavesPushed
  <2>2. proc[p].stack = <<>> /\ frame.do = "run"
    BY <1>1, <2>1, KnownOutsideScripts DEF Frames
  <2>3. r.stack = <<frame>> /\ DOMAIN r.stack = {1} /\ r.stack[1] = frame /\ Len(r.stack) = 1
    BY <1>3, <2>2
  <2>4. Stays(proc[p])
    BY <1>1, <2>1 DEF Stays
  <2>5. Full(r.stack) /\ Len(r.stack) <= 1
    BY <2>2, <2>3, <2>4 DEF Full
  <2>6. proc[p].origin \in {"root", "foreground"}
    BY <1>1, <2>1 DEF ShapeOK, Stays
  <2>7. ShapeOK(r)
    BY <1>3, <2>2, <2>5, <2>6, <2>4 DEF ShapeOK
  <2>8. Fore(proc[p])
    BY <1>1, <2>1, <2>6 DEF Fore, Stays
  <2>9. InLine([proc EXCEPT ![p] = r], mode)
    BY <1>1, <1>3, <2>7, <2>8, UpdatedLine
  <2> QED
    BY <1>2, <2>9
<1> QED
  BY <1>4, <1>5

LEMMA OneCommand ==
    ASSUME NEW name, NEW name2
    PROVE  LET one == Command(<<Call(name)>>, FALSE)
               two == Command(<<Call(name), Call(name2)>>, FALSE)
           IN  /\ one.stages # <<>> /\ Head(one.stages).name = name /\ Len(one.stages) = 1
               /\ ~one.background
               /\ two.stages # <<>> /\ Head(two.stages).name = name
BY DEF Command, Call

LEMMA RenamedIs ==
    ASSUME NEW cmd \in Commands, NEW name \in Names, cmd.stages # <<>>
    PROVE  Renamed(cmd, name).stages # <<>> /\ Head(Renamed(cmd, name).stages).name = name
<1> DEFINE new == [cmd.stages EXCEPT ![1] = [cmd.stages[1] EXCEPT !.name = name]]
<1>1. cmd.stages \in Seq(Stages) /\ 1 \in DOMAIN cmd.stages /\ cmd.stages[1] \in Stages
  BY DEF Commands
<1>2. Renamed(cmd, name).stages = new
  BY DEF Renamed, Commands
<1>3. [cmd.stages[1] EXCEPT !.name = name] \in Stages
      /\ [cmd.stages[1] EXCEPT !.name = name].name = name
  BY <1>1 DEF Stages
<1>4. new \in Seq(Stages) /\ Len(new) = Len(cmd.stages)
      /\ new[1] = [cmd.stages[1] EXCEPT !.name = name]
  BY <1>1, <1>3, ExceptSeq
<1> HIDE DEF new
<1>5. new # <<>> /\ Head(new) = new[1]
  BY <1>1, <1>4
<1> QED
  BY <1>2, <1>3, <1>4, <1>5

LEMMA ScriptLine ==
    ASSUME Sound(proc), NEW mode, InLine(proc, mode), NEW p \in Pids,
           GitUserCheck(p) \/ Bbc(p) \/ Psvis(p) \/ Psvis2(p)
    PROVE  InLine(proc', mode)
<1>1. /\ Running(p, "command") /\ proc[p].at = "command"
      /\ Head(proc[p].cmd.stages).name \notin {"prog", "missing"}
  BY DEF GitUserCheck, Bbc, Psvis, Psvis2, Called, Running
<1>2. {"prog", "missing"} \subseteq Names
  BY DEF Names
<1>3. proc[p].cmd \in Commands /\ ShapeOK(proc[p])
  BY LineAt DEF Process
<1> DEFINE python == Renamed(proc[p].cmd, "prog")
<1>4. python \in Commands
  BY <1>2, <1>3, RenamedType
<1>5. Stays(proc[p]) => python.stages # <<>> /\ Scripted(python)
  <2>1. Stays(proc[p]) => proc[p].cmd.stages # <<>>
    BY <1>1, <1>3 DEF ShapeOK
  <2> QED
    BY <1>2, <1>3, <2>1, RenamedIs DEF Scripted
<1>6. \A cmd \in Commands : RunFrame(cmd) \in Frames /\ RunFrame(cmd).cmd = cmd
  BY FrameTypes DEF RunFrame, Frame
<1>7. ExitFrame \in Frames /\ ExitFrame.do = "exit"
  BY FrameTypes DEF ExitFrame, Frame
<1>8. CASE GitUserCheck(p)
  <2>1. proc' = [proc EXCEPT ![p].cmd = python, ![p].stack = <<ExitFrame>> \o @]
    BY <1>8, At DEF GitUserCheck, Tables, Process
  <2> HIDE DEF python
  <2> QED
    BY <1>1, <1>4, <1>7, <2>1, PushedLine
<1>9. CASE Bbc(p)
  <2>1. proc' = [proc EXCEPT ![p].cmd = python, ![p].stack = <<RunFrame(python)>> \o @]
    BY <1>9 DEF Bbc
  <2> HIDE DEF python
  <2>2. RunFrame(python) \in Frames /\ RunFrame(python).cmd = python
    BY <1>4, <1>6
  <2> QED
    BY <1>1, <1>4, <1>5, <2>1, <2>2, PushedLine
<1>10. CASE Psvis(p)
  <2>1. PICK name \in {"prog", "missing"} :
             proc' = [proc EXCEPT ![p].cmd = Command(<<Call(name)>>, FALSE),
                        ![p].stack = <<RunFrame(Command(<<Call("prog")>>, FALSE))>> \o @]
    BY <1>10 DEF Psvis
  <2> DEFINE cmd == Command(<<Call(name)>>, FALSE)
             next == Command(<<Call("prog")>>, FALSE)
  <2>2. cmd \in Commands /\ next \in Commands
    BY <1>2, CallsType
  <2>3. cmd.stages # <<>> /\ Scripted(cmd) /\ next.stages # <<>>
    BY OneCommand DEF Scripted
  <2>4. proc' = [proc EXCEPT ![p].cmd = cmd, ![p].stack = <<RunFrame(next)>> \o @]
    BY <2>1
  <2> HIDE DEF cmd, next
  <2>5. RunFrame(next) \in Frames /\ RunFrame(next).cmd = next
    BY <1>6, <2>2
  <2> QED
    BY <1>1, <2>2, <2>3, <2>4, <2>5, PushedLine
<1>11. CASE Psvis2(p)
  <2>1. PICK name \in {"prog", "missing"} :
             proc' = [proc EXCEPT ![p].cmd = Command(<<Call("prog")>>, FALSE),
                        ![p].stack =
                          <<RunFrame(Command(<<Call(name), Call("prog")>>, FALSE))>> \o @]
    BY <1>11 DEF Psvis2
  <2> DEFINE cmd == Command(<<Call("prog")>>, FALSE)
             next == Command(<<Call(name), Call("prog")>>, FALSE)
  <2>2. cmd \in Commands /\ next \in Commands
    BY <1>2, CallsType
  <2>3. cmd.stages # <<>> /\ Scripted(cmd) /\ next.stages # <<>>
    BY OneCommand DEF Scripted
  <2>4. proc' = [proc EXCEPT ![p].cmd = cmd, ![p].stack = <<RunFrame(next)>> \o @]
    BY <2>1
  <2> HIDE DEF cmd, next
  <2>5. RunFrame(next) \in Frames /\ RunFrame(next).cmd = next
    BY <1>6, <2>2
  <2> QED
    BY <1>1, <2>2, <2>3, <2>4, <2>5, PushedLine
<1> QED
  BY <1>8, <1>9, <1>10, <1>11

\* A shell that forks goes on somewhere else than with its command; what the child has in
\* common with it is its stack.
LEMMA ForksLine ==
    ASSUME Sound(proc), NEW mode, InLine(proc, mode), NEW p \in Pids, proc[p].at = "command",
           NEW w \in Pids, proc[w].state = "none", w # p,
           NEW r, r.at \in {"wait", "any"}, r.parent = proc[p].parent,
           r.origin = proc[p].origin, r.stack = proc[p].stack,
           NEW c, ShapeOK(c), c.parent = p, c.at # "prompt",
           Fore(c) => r.at = "wait" /\ r.target = w /\ c.stack = proc[p].stack
    PROVE  InLine([proc EXCEPT ![p] = r, ![w] = c], mode)
<1>1. /\ proc \in Tables /\ ShapeOK(proc[p]) /\ Unheld(proc, p) /\ proc[w].at = "nowhere"
  BY LineAt DEF EntryOK
<1>2. ShapeOK(r) /\ (Fore(r) => Fore(proc[p])) /\ (~Leaves(r.stack) => Fore(r))
  BY <1>1 DEF ShapeOK, Fore, Stays
<1>3. Fore(c) => Fore(r)
  BY <1>2 DEF Fore, Stays
<1> QED
  BY <1>1, <1>2, <1>3, ForkedLine

LEMMA MyFgLine ==
    ASSUME Sound(proc), NEW mode, InLine(proc, mode), NEW p \in Pids, MyFg(p)
    PROVE  InLine(proc', mode)
<1>1. /\ proc \in Tables /\ proc[p] \in Process /\ proc[p].at = "command" /\ Unheld(proc, p)
  BY LineAt DEF MyFg, Called, Running
<1>2. CASE proc' = Exited(proc, p)
  BY <1>1, <1>2, ExitedLine
<1>3. ASSUME NEW q \in Pids, NEW t \in Pids, proc[q].state = "none", q # p,
             proc' = [proc EXCEPT ![p] = WaiterOf(proc[p], t), ![q] = HelperOf(proc[p], p, t)]
      PROVE  InLine(proc', mode)
  <2> DEFINE r == WaiterOf(proc[p], t)
             c == HelperOf(proc[p], p, t)
  <2>1. /\ r.at = "wait" /\ r.parent = proc[p].parent /\ r.origin = proc[p].origin
        /\ r.stack = proc[p].stack
    BY <1>1 DEF WaiterOf, Process
  <2>2. c.at = "helper" /\ c.origin = "helper" /\ c.parent = p /\ c.stack = <<>>
    BY <1>1 DEF HelperOf, Process
  <2>3. proc' = [proc EXCEPT ![p] = r, ![q] = c]
    BY <1>3
  <2> HIDE DEF r, c
  <2>4. ShapeOK(c) /\ ~Fore(c)
    BY <2>2, EmptyStack DEF ShapeOK, Fore
  <2>5. InLine([proc EXCEPT ![p] = r, ![q] = c], mode)
    <3>1. proc[p].at = "command" /\ proc[q].state = "none" /\ q # p
      BY <1>1, <1>3
    <3> QED
      BY <2>1, <2>2, <2>4, <3>1, ForksLine
  <2> QED
    BY <2>3, <2>5
<1> QED
  BY <1>2, <1>3, MyFgIs

LEMMA PlayAlarmLine ==
    ASSUME Sound(proc), NEW mode, InLine(proc, mode), NEW p \in Pids, PlayAlarm(p)
    PROVE  InLine(proc', mode)
<1>1. /\ proc \in Tables /\ proc[p] \in Process /\ proc[p].at = "command" /\ Unheld(proc, p)
      /\ ShapeOK(proc[p])
  BY LineAt DEF PlayAlarm, Called, Running
<1>2. CASE proc' = Exited(proc, p)
  BY <1>1, <1>2, ExitedLine
<1>3. ASSUME NEW q \in Pids, proc[q].state = "none", q # p,
             proc' = [proc EXCEPT ![p] = [proc[p] EXCEPT !.at = "any", !.cmd = NoCommand],
                                  ![q] = AlarmOf(proc[p], p)]
      PROVE  InLine(proc', mode)
  <2> DEFINE r == [proc[p] EXCEPT !.at = "any", !.cmd = NoCommand]
             c == AlarmOf(proc[p], p)
  <2>1. /\ r.at = "any" /\ r.parent = proc[p].parent /\ r.origin = proc[p].origin
        /\ r.stack = proc[p].stack
    BY <1>1 DEF Process
  <2>2. c.at = "alarm" /\ c.origin = "alarm" /\ c.parent = p /\ c.stack = proc[p].stack
    BY <1>1 DEF AlarmOf, Process
  <2>3. proc' = [proc EXCEPT ![p] = r, ![q] = c]
    BY <1>3
  <2> HIDE DEF r, c
  <2>4. ShapeOK(c) /\ ~Fore(c)
    BY <1>1, <2>2 DEF ShapeOK, Fore, Stays
  <2>5. InLine([proc EXCEPT ![p] = r, ![q] = c], mode)
    <3>1. proc[p].at = "command" /\ proc[q].state = "none" /\ q # p
      BY <1>1, <1>3
    <3> QED
      BY <2>1, <2>2, <2>4, <3>1, ForksLine
  <2> QED
    BY <2>3, <2>5
<1> QED
  BY <1>2, <1>3, PlayAlarmIs

LEMMA EchoLineLine ==
    ASSUME Sound(proc), NEW mode, InLine(proc, mode), NEW q \in Pids, EchoLine(q)
    PROVE  InLine(proc', mode)
<1>1. /\ proc \in Tables /\ proc[q] \in Process /\ proc[q].at = "alarm" /\ Unheld(proc, q)
  BY LineAt DEF EchoLine, Running
<1>2. CASE proc' = Exited(proc, q)
  BY <1>1, <1>2, ExitedLine
<1>3. ASSUME NEW pipe \in Pipes
      PROVE  LET r == PipedOf(proc[q], pipe)
             IN  /\ r \in Process /\ r.at # "prompt" /\ r.parent = proc[q].parent
                 /\ ShapeOK(r) /\ ~Fore(r)
  <2> DEFINE r == PipedOf(proc[q], pipe)
  <2>1. r \in Process /\ r.at = "any" /\ r.parent = proc[q].parent /\ Leaves(r.stack)
    BY <1>1, PipedOfIs
  <2> HIDE DEF r
  <2>2. ShapeOK(r) /\ ~Fore(r)
    BY <2>1 DEF ShapeOK, Fore, Stays
  <2> QED
    BY <2>1, <2>2 DEF r
<1>4. ASSUME NEW pipe \in Pipes, proc' = [proc EXCEPT ![q] = PipedOf(proc[q], pipe)]
      PROVE  InLine(proc', mode)
  <2> DEFINE r == PipedOf(proc[q], pipe)
  <2>1. r.at # "prompt" /\ r.parent = proc[q].parent /\ ShapeOK(r) /\ ~Fore(r)
    BY <1>3
  <2>2. proc' = [proc EXCEPT ![q] = r]
    BY <1>4
  <2> HIDE DEF r
  <2>3. InLine([proc EXCEPT ![q] = r], mode)
    BY <1>1, <2>1, UpdatedLine
  <2> QED
    BY <2>2, <2>3
<1>5. ASSUME NEW pipe \in Pipes, NEW e \in Pids, proc[e].state = "none", e # q,
             proc' = [proc EXCEPT ![q] = PipedOf(proc[q], pipe),
                                  ![e] = EchoOf(PipedOf(proc[q], pipe), q, pipe)]
      PROVE  InLine(proc', mode)
  <2> DEFINE r == PipedOf(proc[q], pipe)
             c == EchoOf(r, q, pipe)
  <2>1. r \in Process /\ r.at # "prompt" /\ r.parent = proc[q].parent /\ ShapeOK(r) /\ ~Fore(r)
    BY <1>3
  <2>2. proc' = [proc EXCEPT ![q] = r, ![e] = c]
    BY <1>5
  <2> HIDE DEF r
  <2>3. c.at = "program" /\ c.parent = q
    BY <2>1, EchoOfIs
  <2> HIDE DEF c
  <2>4. ShapeOK(c) /\ ~Fore(c)
    BY <2>3 DEF ShapeOK, Fore, Stays
  <2>5. proc[e].at = "nowhere"
    BY <1>5, LineAt DEF EntryOK
  <2>6. InLine([proc EXCEPT ![q] = r, ![e] = c], mode)
    BY <1>1, <1>5, <2>1, <2>3, <2>4, <2>5, ForkedLine
  <2> QED
    BY <2>2, <2>6
<1> QED
  BY <1>2, <1>4, <1>5, EchoLineIs DEF Unused

LEMMA RunProgramLine ==
    ASSUME Sound(proc), NEW mode, InLine(proc, mode), NEW p \in Pids, RunProgram(p)
    PROVE  InLine(proc', mode)
<1>1. /\ proc \in Tables /\ proc[p] \in Process /\ proc[p].at = "command" /\ Unheld(proc, p)
      /\ ShapeOK(proc[p]) /\ Running(p, "command") /\ proc[p].state = "running"
      /\ EntryOK(proc[p])
  BY LineAt DEF RunProgram, Called, Running
<1>2. CASE proc' = Returned(proc, p)
  BY <1>1, <1>2, ReturningLine
<1>3. ASSUME NEW q \in Pids, proc[q].state = "none", q # p, proc[p].cmd.background,
             proc' = Returned([proc EXCEPT ![p] = proc[p],
                                           ![q] = ChildOf(proc[p], p, "background")], p)
      PROVE  InLine(proc', mode)
  <2> DEFINE c == ChildOf(proc[p], p, "background")
             ps == [proc EXCEPT ![p] = proc[p], ![q] = c]
  <2>1. /\ c.at = "child" /\ c.parent = p /\ c.origin = "background"
        /\ c.stack = proc[p].stack /\ c.cmd = proc[p].cmd
    BY <1>1, ChildOfIs
  <2>2. Sound(ps) /\ ps[p] = proc[p]
    BY <1>1, <1>3, BackgroundSound
  <2>3. proc' = Returned(ps, p)
    BY <1>3
  <2> HIDE DEF c
  <2>4. ShapeOK(c) /\ ~Fore(c)
    BY <1>1, <1>3, <2>1 DEF ShapeOK, Fore, Stays
  <2>5. proc[q].at = "nowhere"
    BY <1>3, LineAt DEF EntryOK
  <2>6. InLine(ps, mode)
    BY <1>1, <1>3, <2>1, <2>4, <2>5, ForkedLine
  <2> HIDE DEF ps
  <2>7. Unheld(ps, p) /\ ps[p].at = "command"
    BY <1>1, <2>2 DEF Unheld
  <2> QED
    BY <2>2, <2>3, <2>6, <2>7, ReturningLine
<1>4. ASSUME NEW q \in Pids, proc[q].state = "none", q # p, ~proc[p].cmd.background,
             proc' = [proc EXCEPT ![p] = WaiterOf(proc[p], q),
                                  ![q] = ChildOf(proc[p], p, "foreground")]
      PROVE  InLine(proc', mode)
  <2> DEFINE r == WaiterOf(proc[p], q)
             c == ChildOf(proc[p], p, "foreground")
  <2>1. /\ r.at = "wait" /\ r.target = q /\ r.parent = proc[p].parent
        /\ r.origin = proc[p].origin /\ r.stack = proc[p].stack
    BY <1>1 DEF WaiterOf, Process
  <2>2. /\ c.at = "child" /\ c.parent = p /\ c.origin = "foreground"
        /\ c.stack = proc[p].stack /\ c.cmd = proc[p].cmd
    BY <1>1, ChildOfIs
  <2>3. proc' = [proc EXCEPT ![p] = r, ![q] = c]
    BY <1>4
  <2> HIDE DEF r, c
  <2>4. ShapeOK(c)
    BY <1>1, <2>2 DEF ShapeOK, Stays
  <2>5. InLine([proc EXCEPT ![p] = r, ![q] = c], mode)
    <3>1. proc[p].at = "command" /\ proc[q].state = "none" /\ q # p
      BY <1>1, <1>4
    <3> QED
      BY <2>1, <2>2, <2>4, <3>1, ForksLine
  <2> QED
    BY <2>3, <2>5
<1> QED
  BY <1>2, <1>3, <1>4, RunProgramIs

LEMMA CompleteLine ==
    ASSUME Sound(proc), NEW mode, InLine(proc, mode), NEW p \in Pids, Complete(p)
    PROVE  InLine(proc', mode)
<1>1. /\ proc \in Tables /\ proc[p] \in Process /\ proc[p].at = "command" /\ Unheld(proc, p)
      /\ ShapeOK(proc[p]) /\ Head(proc[p].cmd.stages).name = "complete"
      /\ proc[p].state = "running"
  BY LineAt DEF Complete, Called, Running
<1>2. CASE proc' = Returned(proc, p)
  BY <1>1, <1>2, ReturningLine
<1>3. CASE proc' = Exited(proc, p)
  BY <1>1, <1>3, ExitedLine
<1>4. CASE Free(proc) # {}
  <2> DEFINE q == Fresh(proc)
             ps == [proc EXCEPT ![q] = Zombie(p)]
  <2>1. q \in Pids /\ proc[q].state = "none" /\ q # p
    BY <1>1, <1>4, FreshIsFree
  <2> HIDE DEF q
  <2>2. ps \in Tables /\ ps[p] = proc[p] /\ Sound(ps)
    BY <1>1, <2>1, PopenSound DEF Sound, Tables
  <2>3. ps[q] = Zombie(p) /\ \A x \in Pids : x # q => ps[x] = proc[x]
    BY <1>1, <2>1 DEF Tables
  <2> HIDE DEF ps
  <2>4. proc[q].at = "nowhere" /\ ps[q].at = "nowhere"
    BY <2>1, <2>3, LineAt, Gone DEF EntryOK
  <2>5. Alike(proc, ps)
    BY <2>3, <2>4 DEF Alike, SameLine, Out, Stays
  <2>6. InLine(ps, mode) /\ Unheld(ps, p) /\ ps[p].at = "command"
    BY <1>1, <2>2, <2>5, AlikeLine DEF Unheld
  <2>7. CASE proc' = Returned(ps, p)
    BY <2>2, <2>6, <2>7, ReturningLine
  <2>8. CASE proc' = [ps EXCEPT ![p].cmd = Command(<<Call("prog")>>, FALSE)]
    <3> DEFINE cmd == Command(<<Call("prog")>>, FALSE)
    <3>1. cmd.stages # <<>> /\ Head(cmd.stages).name = "prog"
      BY OneCommand
    <3> HIDE DEF cmd
    <3> DEFINE r == [ps[p] EXCEPT !.cmd = cmd]
    <3>2. /\ r.at = "command" /\ r.parent = ps[p].parent /\ r.origin = ps[p].origin
          /\ r.stack = ps[p].stack /\ r.cmd = cmd
      BY <1>1, <2>2 DEF Process
    <3>3. proc' = [ps EXCEPT ![p] = r]
      BY <2>2, <2>8 DEF Tables, cmd
    <3> HIDE DEF r
    <3>4. ShapeOK(r) /\ (Fore(r) => Fore(ps[p]))
      BY <1>1, <2>2, <3>1, <3>2 DEF ShapeOK, Fore, Stays, Scripted
    <3>5. InLine([ps EXCEPT ![p] = r], mode)
      BY <2>2, <2>6, <3>2, <3>4, UpdatedLine
    <3> QED
      BY <3>3, <3>5
  <2> QED
    BY <1>2, <1>3, <2>7, <2>8 DEF Complete, q, ps
<1> QED
  BY <1>2, <1>3, <1>4 DEF Complete

LEMMA ChildLine ==
    ASSUME Sound(proc), NEW mode, InLine(proc, mode), NEW q \in Pids, Child(q)
    PROVE  InLine(proc', mode)
<1> DEFINE x == Redirected(proc, q)[q]
<1>1. /\ proc \in Tables /\ proc[q].at = "child" /\ proc[q].state = "running"
      /\ Running(q, "child") /\ ShapeOK(proc[q]) /\ Unheld(proc, q)
  BY LineAt DEF Child, Running
<1>2. /\ x \in Process /\ EntryOK(x) /\ Redirected(proc, q) = [proc EXCEPT ![q] = x]
      /\ x.at = "child" /\ x.state = "running" /\ x.parent = proc[q].parent
      /\ x.origin = proc[q].origin /\ x.job = proc[q].job /\ x.late = proc[q].late
      /\ x.stack = proc[q].stack /\ x.cmd = proc[q].cmd
  BY <1>1, RedirectedEntry
<1> HIDE DEF x
<1>3. ShapeOK(x) /\ (Fore(x) => Fore(proc[q]))
  BY <1>1, <1>2 DEF ShapeOK, Fore, Stays
<1>4. CASE proc' = [proc EXCEPT ![q] = [x EXCEPT !.at = "exec"]]
  <2> DEFINE r == [x EXCEPT !.at = "exec"]
  <2>1. /\ r.at = "exec" /\ r.parent = proc[q].parent /\ r.origin = x.origin
        /\ r.stack = x.stack /\ r.cmd = x.cmd
    BY <1>2 DEF Process
  <2>2. proc' = [proc EXCEPT ![q] = r]
    BY <1>4
  <2> HIDE DEF r
  <2>3. ShapeOK(r) /\ (Fore(r) => Fore(proc[q]))
    BY <1>2, <1>3, <2>1 DEF ShapeOK, Fore, Stays
  <2>4. InLine([proc EXCEPT ![q] = r], mode)
    BY <1>1, <2>1, <2>3, UpdatedLine
  <2> QED
    BY <2>2, <2>4
<1>5. CASE proc' = Exited(Redirected(proc, q), q)
  <2> DEFINE ps == [proc EXCEPT ![q] = x]
  <2>1. ps[q] = x
    BY <1>1 DEF Tables
  <2>2. Sound(ps)
    BY <1>1, <1>2, GoesOnSound
  <2>3. InLine(ps, mode)
    BY <1>1, <1>2, <1>3, UpdatedLine
  <2>4. proc' = Exited(ps, q)
    BY <1>2, <1>5
  <2> HIDE DEF ps
  <2>5. Unheld(ps, q) /\ ps[q].at # "prompt"
    BY <1>2, <2>1 DEF Unheld
  <2> QED
    BY <2>2, <2>3, <2>4, <2>5, ExitedLine
<1>6. ASSUME NEW w \in Pids, NEW pipe \in Unused, NEW next \in Commands,
             proc[w].state = "none", w # q, Len(proc[q].cmd.stages) > 1,
             proc' = [proc EXCEPT ![q] = ReaderOf(x, pipe, next), ![w] = WriterOf(x, q, pipe)]
      PROVE  InLine(proc', mode)
  <2> DEFINE r == ReaderOf(x, pipe, next)
             c == WriterOf(x, q, pipe)
  <2>1. /\ r.at = "command" /\ r.parent = proc[q].parent /\ r.stack = <<ExitFrame>> \o x.stack
    BY <1>2 DEF ReaderOf, Process
  <2>2. /\ c.at = "exec" /\ c.parent = q /\ c.origin = "stage" /\ c.stack = x.stack
        /\ c.cmd = x.cmd
    BY <1>2 DEF WriterOf, Process
  <2>3. Leaves(r.stack)
    <3>1. x.stack \in Seq(Frames) /\ ExitFrame \in Frames /\ ExitFrame.do = "exit"
      BY <1>2, FrameTypes DEF Process, Frames, ExitFrame, Frame
    <3> QED
      BY <2>1, <3>1, LeavesPushed
  <2>4. proc' = [proc EXCEPT ![q] = r, ![w] = c]
    BY <1>6
  <2>5. w # q /\ Len(proc[q].cmd.stages) > 1 /\ proc[w].at = "nowhere"
    BY <1>6, LineAt DEF EntryOK
  <2> HIDE DEF r, c
  <2>6. ShapeOK(r) /\ ~Fore(r)
    BY <2>3 DEF ShapeOK, Fore, Stays
  <2>7. ShapeOK(c) /\ ~Fore(c)
    BY <1>2, <1>3, <2>2, <2>5 DEF ShapeOK, Fore, Stays
  <2>8. InLine([proc EXCEPT ![q] = r, ![w] = c], mode)
    BY <1>1, <2>1, <2>2, <2>5, <2>6, <2>7, ForkedLine
  <2> QED
    BY <2>4, <2>8
<1> QED
  BY <1>4, <1>5, <1>6, ChildIs DEF x

\* Who executes a command of a script in the background is at the head of a pipeline, and
\* the first word of a line that names no program is the only one.
LEMMA ExecuteLine ==
    ASSUME Sound(proc), NEW mode, InLine(proc, mode), NEW q \in Pids, Execute(q)
    PROVE  InLine(proc', mode)
<1>1. /\ proc \in Tables /\ proc[q] \in Process /\ proc[q].at = "exec" /\ ShapeOK(proc[q])
      /\ Unheld(proc, q)
  BY LineAt DEF Execute, Running
<1>2. CASE proc' = Execed(proc, q)
  <2> DEFINE r == [proc[q] EXCEPT !.at = "program", !.stack = <<>>, !.target = init]
  <2>1. r.at = "program" /\ r.parent = proc[q].parent
    BY <1>1 DEF Process
  <2>2. proc' = [proc EXCEPT ![q] = r]
    BY <1>1, <1>2 DEF Execed, Tables
  <2> HIDE DEF r
  <2>3. ShapeOK(r) /\ ~Fore(r)
    BY <2>1 DEF ShapeOK, Fore, Stays
  <2>4. InLine([proc EXCEPT ![q] = r], mode)
    BY <1>1, <2>1, <2>3, UpdatedLine
  <2> QED
    BY <2>2, <2>4
<1>3. CASE proc' = Exited(proc, q)
  BY <1>1, <1>3, ExitedLine
<1>4. CASE /\ Head(proc[q].cmd.stages).name \in {"missing", "overlong"}
           /\ proc' = Returned(proc, q)
  <2>1. ASSUME proc[q].stack # <<>>, ~Leaves(proc[q].stack)
        PROVE  proc[q].origin \in {"root", "foreground"}
    <3>1. Stays(proc[q])
      BY <1>1, <2>1 DEF Stays
    <3>2. Len(proc[q].cmd.stages) = 1 /\ ~proc[q].cmd.background
      BY <1>1, <1>4, <2>1, <3>1 DEF ShapeOK, Scripted
    <3> QED
      BY <1>1, <3>1, <3>2 DEF ShapeOK
  <2> QED
    BY <1>1, <1>4, <2>1, ReturnedLine
<1> QED
  BY <1>2, <1>3, <1>4 DEF Execute

\* Who is still to get back to main and is a child of the shell that waits for it makes
\* waitid wait, until it is stopped; then the shell lets it go.
LEMMA WaitidLine ==
    ASSUME Sound(proc), NEW mode, InLine(proc, mode), NEW p \in Pids, Waitid(p), ~shared'
    PROVE  InLine(proc', mode)
<1> DEFINE t == proc[p].target
           ps == WaitedTable(p)
<1>1. /\ proc' = Returned(ps, p) /\ t \in Pids /\ (Reported(t) \/ Fails(p, t))
      /\ proc[p].at = "wait"
  BY WaitidIs DEF Waitid, Running
<1>2. ASSUME NEW y \in Pids
      PROVE  /\ ps[y].parent = proc[y].parent /\ ps[y].at = proc[y].at
             /\ ps[y].stack = proc[y].stack /\ ps[y].target = proc[y].target
             /\ ps[y].cmd = proc[y].cmd /\ ps[y].in = proc[y].in
             /\ ps[y].backup = proc[y].backup
             /\ ps[y].origin = IF y = t /\ proc[t].parent = p
                               THEN Detached(proc[t]).origin ELSE proc[y].origin
  BY WaitidIs
<1>3. Sound(ps) /\ NoHeld(ps, p)
  BY WaitedSound
<1>4. ~LetGo(p, t)
  BY DEF Waitid
<1> HIDE DEF ps
<1>5. Detached(proc[t]).origin = IF proc[t].origin = "foreground"
                                 THEN "background" ELSE proc[t].origin
  BY <1>1, LineAt, DetachedType
<1> HIDE DEF t
<1>6. ASSUME NEW y \in Pids, ~(SameLine(proc[y], ps[y]) /\ ps[y].parent = proc[y].parent)
      PROVE  Out(proc[y]) /\ Out(ps[y])
  <2>1. y = t /\ proc[t].parent = p /\ proc[t].origin = "foreground"
    BY <1>2, <1>5, <1>6 DEF SameLine
  <2>2. proc[t].at # "nowhere" /\ proc[t].state # "zombie"
    BY <1>1, <2>1, LineAt DEF EntryOK
  <2>3. proc[t].at = "program"
    BY <1>1, <1>4, <2>1, <2>2 DEF LetGo, Reported, Fails
  <2> QED
    BY <1>2, <2>1, <2>3 DEF Out, Stays
<1>7. InLine(ps, mode)
  BY <1>6, AlikeLine DEF Alike
<1>8. Unheld(ps, p)
  <2> SUFFICES ASSUME Fore(ps[t]), ps[t].parent = p PROVE FALSE
    BY <1>1, <1>2 DEF Unheld, t
  <2>1. ps[t].origin # "foreground"
    BY <1>1, <1>3 DEF NoHeld, Fore, Stays
  <2>2. ps[t].origin = "root"
    BY <2>1 DEF Fore
  <2>3. ps[t].parent = init
    BY <1>1, <1>3, <2>2 DEF Sound, EntryOK
  <2> QED
    BY <2>3, ShellConstants
<1> QED
  BY <1>1, <1>2, <1>3, <1>7, <1>8, ReturningLine

LEMMA WaitAnyLine ==
    ASSUME Sound(proc), NEW mode, InLine(proc, mode), NEW p \in Pids, WaitAny(p)
    PROVE  InLine(proc', mode)
<1>1. proc[p].at = "any" /\ Unheld(proc, p)
  BY LineAt DEF WaitAny, Running
<1>2. CASE proc' = Returned(proc, p)
  BY <1>1, <1>2, ReturningLine
<1>3. ASSUME NEW z \in Pids, proc[z].state = "zombie",
             proc' = Returned(Released([proc EXCEPT ![z] = NoProcess], z, init), p)
      PROVE  InLine(proc', mode)
  <2> DEFINE ps == Released([proc EXCEPT ![z] = NoProcess], z, init)
  <2>1. Sound(ps) /\ InLine(ps, mode) /\ ps[p].at = "any"
    BY <1>1, <1>3, CollectedSound, CollectedLine
  <2>2. proc' = Returned(ps, p)
    BY <1>3
  <2> HIDE DEF ps
  <2>3. Unheld(ps, p)
    BY <2>1 DEF Unheld
  <2> QED
    BY <2>1, <2>2, <2>3, ReturningLine
<1> QED
  BY <1>2, <1>3 DEF WaitAny, Children

LEMMA WorldLine ==
    ASSUME Sound(proc), NEW mode, InLine(proc, mode), NEW p \in Pids,
           Ends(p) \/ StoppedFromOutside(p) \/ ContinuedFromOutside(p)
    PROVE  InLine(proc', mode)
<1>1. CASE Ends(p)
  <2>1. proc[p].at = "program" /\ proc' = Exited(proc, p)
    BY <1>1 DEF Ends, Running
  <2>2. Unheld(proc, p)
    BY <2>1, LineAt
  <2> QED
    BY <2>1, <2>2, ExitedLine
<1>2. CASE StoppedFromOutside(p)
  BY <1>2, StoppedLine DEF StoppedFromOutside
<1>3. CASE ContinuedFromOutside(p)
  BY <1>3, ResumedLine DEF ContinuedFromOutside
<1> QED
  BY <1>1, <1>2, <1>3

LEMMA CodeLine ==
    ASSUME Sound(proc), NEW mode, InLine(proc, mode), NEW p \in Pids, Code(p) \/ World(p)
    PROVE  InLine(proc', mode)
BY EndsLine, PauseLine, ResumeLine, MyBgLine, MyFgLine, HelperLine, ScriptLine, CompleteLine,
   PlayAlarmLine, EchoLineLine, RunProgramLine, ChildLine, ExecuteLine, WaitAnyLine, WorldLine
   DEF Code, World

-----------------------------------------------------------------------------
(* The line and the prompt. *)

\* Only the last of the line does not wait.
LEMMA OneAtTheEnd ==
    ASSUME NEW ps, Chained(ps), NEW x \in Pids, NEW y \in Pids, Fore(ps[x]), Fore(ps[y]),
           ps[x].at # "wait", ps[y].at # "wait"
    PROVE  x = y
<1>1. PICK n \in Nat : \E c \in [1 .. n -> Pids] : Chain(ps, n, c)
  BY DEF Chained
<1>2. PICK c \in [1 .. n -> Pids] : Chain(ps, n, c)
  BY <1>1
<1>3. ASSUME NEW z \in Pids, Fore(ps[z]), ps[z].at # "wait" PROVE z = c[n]
  <2>1. PICK i \in 1 .. n : c[i] = z
    BY <1>2, <1>3 DEF Chain
  <2>2. i \notin 1 .. n - 1
    BY <1>2, <1>3, <2>1 DEF Chain
  <2>3. i = n
    BY <2>2
  <2> QED
    BY <2>1, <2>3
<1> QED
  BY <1>3

\* A step of p to or from its prompt.
LEMMA PromptedLine ==
    ASSUME NEW ps \in Tables, NEW mode, InLine(ps, mode), NEW p \in Pids, ps[p].at # "wait",
           NEW r, ShapeOK(r), Fore(r) => Fore(ps[p]), r.parent = ps[p].parent
    PROVE  Shaped([ps EXCEPT ![p] = r]) /\ Chained([ps EXCEPT ![p] = r])
<1> DEFINE qs == [ps EXCEPT ![p] = r]
<1>1. qs[p] = r /\ \A x \in Pids : x # p => qs[x] = ps[x]
  BY DEF Tables
<1> HIDE DEF qs
<1>2. \A x \in Pids : x # p => MovesOther(ps, qs, p, x)
  BY <1>1 DEF MovesOther, SameLine
<1>3. Unheld(ps, p)
  BY DEF Unheld
<1>4. Moves(ps, qs, p)
  BY <1>1, <1>2, <1>3 DEF Moves
<1>5. Shaped(qs) /\ Chained(qs)
  BY <1>4, MovedShapes, MovedChain DEF InLine
<1> QED
  BY <1>5 DEF qs

\* No other shell prompts: what p puts back in the end is the mode of the user.
LEMMA ShowPromptLine ==
    ASSUME TypeOK, Sound(proc), InLine(proc, tty), NEW p \in Pids, ShowPrompt(p), ~shared'
    PROVE  InLine(proc', tty')
<1>1. /\ proc \in Tables /\ proc[p] \in Process /\ proc[p].at = "main" /\ proc[p].stack = <<>>
      /\ proc[p].origin \in {"root", "foreground"}
  BY LineAt DEF ShowPrompt, Running, EntryOK
<1>2. Fore(proc[p])
  BY <1>1, EmptyStack DEF Fore, Stays
<1> DEFINE backup == IF proc[p].in = "tty" THEN tty ELSE proc[p].backup
           r == [proc[p] EXCEPT !.at = "prompt", !.backup = backup]
<1>3. /\ r.at = "prompt" /\ r.parent = proc[p].parent /\ r.origin = proc[p].origin
      /\ r.stack = <<>> /\ r.in = proc[p].in /\ r.backup = backup
  BY <1>1 DEF Process
<1>4. proc' = [proc EXCEPT ![p] = r]
  <2>1. CASE proc[p].in = "tty"
    BY <1>1, <2>1 DEF ShowPrompt, Tables
  <2>2. CASE proc[p].in # "tty"
    <3>1. proc' = [proc EXCEPT ![p] = [proc[p] EXCEPT !.at = "prompt"]]
      BY <1>1, <2>2 DEF ShowPrompt, Tables
    <3>2. r = [proc[p] EXCEPT !.at = "prompt"]
      BY <1>1, <2>2 DEF Process
    <3> QED
      BY <3>1, <3>2
  <2> QED
    BY <2>1, <2>2
<1> HIDE DEF r
<1>5. proc'[p] = r /\ \A x \in Pids : x # p => proc'[x] = proc[x]
  BY <1>1, <1>4 DEF Tables
<1>6. ShapeOK(r) /\ Fore(r)
  BY <1>1, <1>3, EmptyStack DEF ShapeOK, Fore, Stays
<1>7. Shaped(proc') /\ Chained(proc')
  BY <1>1, <1>2, <1>3, <1>4, <1>6, PromptedLine
<1>8. ASSUME NEW x \in Pids, proc[x].at = "prompt" PROVE FALSE
  <2>1. Fore(proc[x])
    BY <1>8 DEF InLine, Terminal
  <2>2. x = p
    BY <1>1, <1>2, <1>8, <2>1, OneAtTheEnd DEF InLine
  <2> QED
    BY <1>1, <1>8, <2>2
<1>9. tty = "cooked"
  BY <1>8 DEF InLine, Terminal, TypeOK
<1>10. tty' = "raw" => proc[p].in = "tty"
  BY <1>9 DEF ShowPrompt
<1>11. Terminal(proc', tty')
  <2>1. tty' = "raw" => \E x \in Pids : proc'[x].at = "prompt" /\ proc'[x].in = "tty"
    BY <1>3, <1>5, <1>10
  <2>2. ASSUME NEW x \in Pids, proc'[x].at = "prompt"
        PROVE  Fore(proc'[x]) /\ (proc'[x].in = "tty" => proc'[x].backup = "cooked")
    <3>1. x = p
      BY <1>5, <1>8, <2>2
    <3> QED
      BY <1>3, <1>5, <1>6, <1>9, <3>1
  <2> QED
    BY <2>1, <2>2 DEF Terminal
<1> QED
  BY <1>7, <1>11 DEF InLine

LEMMA ReadsLine ==
    ASSUME Sound(proc), NEW mode, InLine(proc, mode), NEW p \in Pids, Running(p, "prompt"),
           NEW line \in Commands, line.stages # <<>>, Reads(p, line)
    PROVE  /\ Shaped(proc') /\ Chained(proc') /\ proc'[p].at = "command"
           /\ \A x \in Pids : x # p => proc'[x] = proc[x]
<1>1. /\ proc \in Tables /\ proc[p] \in Process /\ proc[p].at = "prompt"
      /\ proc[p].stack = <<>> /\ Fore(proc[p])
  BY LineAt DEF Running, EntryOK, InLine, Terminal
<1> DEFINE r == [proc[p] EXCEPT !.at = "command", !.cmd = line, !.job = init, !.late = FALSE]
<1>2. proc' = [proc EXCEPT ![p] = r]
  BY <1>1 DEF Reads, Tables
<1>3. /\ r.at = "command" /\ r.parent = proc[p].parent /\ r.origin = proc[p].origin
      /\ r.stack = <<>> /\ r.cmd = line
  BY <1>1 DEF Process
<1> HIDE DEF r
<1>4. proc'[p] = r /\ \A x \in Pids : x # p => proc'[x] = proc[x]
  BY <1>1, <1>2 DEF Tables
<1>5. ShapeOK(r)
  BY <1>1, <1>3, EmptyStack DEF ShapeOK, Fore
<1>6. Shaped(proc') /\ Chained(proc')
  BY <1>1, <1>2, <1>3, <1>5, PromptedLine
<1> QED
  BY <1>3, <1>4, <1>6

LEMMA ReadLineLine ==
    ASSUME Sound(proc), InLine(proc, tty), NEW p \in Pids, ReadLine(p)
    PROVE  InLine(proc', tty')
<1>1. Running(p, "prompt") /\ proc[p].at = "prompt" /\ proc[p].in = "tty"
  BY DEF ReadLine, Running
<1>2. PICK line \in Lines : Reads(p, line)
  BY DEF ReadLine
<1>3. line \in Commands /\ line.stages # <<>>
  BY ShellConstants
<1>4. /\ Shaped(proc') /\ Chained(proc') /\ proc'[p].at = "command"
      /\ \A x \in Pids : x # p => proc'[x] = proc[x]
  BY <1>1, <1>2, <1>3, ReadsLine
<1>5. tty' = "cooked"
  BY <1>1 DEF ReadLine, InLine, Terminal
<1>6. Terminal(proc', tty')
  BY <1>4, <1>5 DEF InLine, Terminal
<1> QED
  BY <1>4, <1>6 DEF InLine

LEMMA ReadNothingLine ==
    ASSUME Sound(proc), InLine(proc, tty), NEW p \in Pids, ReadNothing(p)
    PROVE  InLine(proc', tty')
<1>1. Running(p, "prompt") /\ proc[p].in # "tty" /\ tty' = tty
  BY DEF ReadNothing
<1> DEFINE line == Command(<<Call("overlong")>>, FALSE)
<1>2. line \in Commands /\ line.stages # <<>>
  <2>1. "overlong" \in Names
    BY DEF Names
  <2> QED
    BY <2>1, CallsType, OneCommand
<1>3. Reads(p, line)
  BY DEF ReadNothing
<1> HIDE DEF line
<1>4. /\ Shaped(proc') /\ Chained(proc') /\ proc'[p].at = "command"
      /\ \A x \in Pids : x # p => proc'[x] = proc[x]
  BY <1>1, <1>2, <1>3, ReadsLine
<1>5. Terminal(proc', tty')
  <2>1. tty' = "raw" => \E x \in Pids : proc'[x].at = "prompt" /\ proc'[x].in = "tty"
    BY <1>1, <1>4 DEF InLine, Terminal
  <2>2. \A x \in Pids : proc'[x].at = "prompt" =>
           Fore(proc'[x]) /\ (proc'[x].in = "tty" => proc'[x].backup = "cooked")
    BY <1>4 DEF InLine, Terminal
  <2> QED
    BY <2>1, <2>2 DEF Terminal
<1> QED
  BY <1>4, <1>5 DEF InLine

-----------------------------------------------------------------------------
(* The theorem. *)

OneLine == SoundTables /\ (~shared => InLine(proc, tty))

LEMMA InitialLine == Init => InLine(proc, tty)
<1> SUFFICES ASSUME Init PROVE InLine(proc, tty)
  OBVIOUS
<1>1. /\ proc[root].at = "main" /\ proc[root].origin = "root" /\ proc[root].stack = <<>>
      /\ root \in Pids /\ tty = "cooked"
  BY ShellConstants DEF Init, NoProcess
<1>2. \A x \in Pids : x # root => proc[x].at = "nowhere"
  BY DEF Init, NoProcess
<1>3. ASSUME NEW x \in Pids PROVE ShapeOK(proc[x]) /\ (Fore(proc[x]) <=> x = root)
  BY <1>1, <1>2, EmptyStack DEF ShapeOK, Fore, Stays
<1>4. Chained(proc)
  <2> DEFINE c == [i \in 1 .. 1 |-> root]
  <2>1. /\ c \in [1 .. 1 -> Pids] /\ 1 \in Nat /\ 1 \in 1 .. 1
        /\ \A i \in 1 .. 1 : c[i] = root /\ i = 1
    BY <1>1
  <2>2. 1 .. 1 - 1 = {}
    OBVIOUS
  <2> HIDE DEF c
  <2>3. Chain(proc, 1, c)
    BY <1>3, <2>1, <2>2 DEF Chain
  <2> QED
    BY <2>1, <2>3 DEF Chained
<1>5. Terminal(proc, tty)
  BY <1>1, <1>2 DEF Terminal
<1> QED
  BY <1>3, <1>4, <1>5 DEF InLine, Shaped

LEMMA StepLine == OneLine /\ [Next]_vars => OneLine'
<1> SUFFICES ASSUME OneLine, [Next]_vars PROVE OneLine'
  OBVIOUS
<1>1. SoundTables'
  BY StepSound DEF OneLine
<1>2. ASSUME ~shared' PROVE InLine(proc', tty')
  <2>1. ~shared /\ TypeOK /\ Sound(proc) /\ InLine(proc, tty)
    <3>1. shared => shared'
      BY DEF OneLine, Next, ShowPrompt, ReadLine, ReadNothing, EndOfInput, CrashingLine, Code,
             Waitid, World, ShellStopped, ShellKilled, vars
    <3> QED
      BY <1>2, <3>1 DEF OneLine, SoundTables
  <2>2. ASSUME NEW p \in Pids, ShowPrompt(p) PROVE InLine(proc', tty')
    BY <1>2, <2>1, <2>2, ShowPromptLine
  <2>3. ASSUME NEW p \in Pids, ReadLine(p) \/ ReadNothing(p) PROVE InLine(proc', tty')
    BY <2>1, <2>3, ReadLineLine, ReadNothingLine
  <2>4. ASSUME NEW p \in Pids, EndOfInput(p) \/ CrashingLine(p) \/ ShellKilled(p) PROVE FALSE
    BY <1>2, <2>4 DEF EndOfInput, CrashingLine, ShellKilled
  <2>5. ASSUME NEW p \in Pids, Code(p) \/ World(p) PROVE InLine(proc', tty')
    <3>1. tty' = tty
      BY <2>5 DEF Code, World
    <3> QED
      BY <2>1, <2>5, <3>1, CodeLine
  <2>6. CASE UNCHANGED vars
    BY <2>1, <2>6 DEF vars
  <2>7. ASSUME NEW p \in Pids, Waitid(p) PROVE InLine(proc', tty')
    <3>1. tty' = tty
      BY <2>7 DEF Waitid
    <3> QED
      BY <1>2, <2>1, <2>7, <3>1, WaitidLine
  <2>8. ASSUME NEW p \in Pids, ShellStopped(p) PROVE InLine(proc', tty')
    <3>1. tty' = tty /\ proc' = Stopped(proc, p)
      BY <2>8 DEF ShellStopped
    <3> QED
      BY <2>1, <3>1, StoppedLine
  <2> QED
    BY <2>2, <2>3, <2>4, <2>5, <2>6, <2>7, <2>8 DEF Next
<1>3. (~shared => InLine(proc, tty))'
  BY <1>2 DEF InLine, Shaped, Chained, Terminal
<1> QED
  BY <1>1, <1>3 DEF OneLine

\* While a shell prompts, whoever the shells in front wait for is a shell as well.
LEMMA LineEndsAtPrompt ==
    ASSUME SoundTables, InLine(proc, tty), tty = "raw",
           NEW p \in Pids, InFront(p), proc[p].at = "wait"
    PROVE  proc[p].target \in Pids /\ Fore(proc[proc[p].target])
<1>1. PICK x \in Pids : proc[x].at = "prompt"
  BY DEF InLine, Terminal
<1>2. Fore(proc[x])
  BY <1>1 DEF InLine, Terminal
<1>3. PICK n \in Nat : \E c \in [1 .. n -> Pids] : Chain(proc, n, c)
  BY DEF InLine, Chained
<1>4. PICK c \in [1 .. n -> Pids] : Chain(proc, n, c)
  BY <1>3
<1>5. /\ \A y \in Pids : Fore(proc[y]) <=> \E i \in 1 .. n : c[i] = y
      /\ n > 0 => c[1] = root
      /\ \A i \in 1 .. n - 1 : proc[c[i]].at = "wait" /\ proc[c[i]].target = c[i + 1]
  BY <1>4 DEF Chain
<1> DEFINE S == {c[i] : i \in 1 .. n}
<1>6. PICK k \in 1 .. n : c[k] = x
  BY <1>2, <1>5
<1>7. k = n /\ n > 0
  <2>1. k \notin 1 .. n - 1
    BY <1>1, <1>5, <1>6
  <2> QED
    BY <2>1
<1>8. ASSUME NEW i \in 1 .. n, proc[c[i]].at = "wait"
      PROVE  i + 1 \in 1 .. n /\ proc[c[i]].target = c[i + 1]
  <2>1. i # n
    BY <1>1, <1>6, <1>7, <1>8
  <2>2. i \in 1 .. n - 1 /\ i + 1 \in 1 .. n
    BY <2>1
  <2> QED
    BY <1>5, <2>2
<1>9. S \in SUBSET Pids /\ root \in S /\ \A s \in S : proc[s].at = "wait" => proc[s].target \in S
  <2>1. 1 \in 1 .. n /\ c[1] = root
    BY <1>5, <1>7
  <2> QED
    BY <1>8, <2>1
<1>10. PICK i \in 1 .. n : c[i] = p
  <2> HIDE DEF S
  <2>1. p \in S
    BY <1>9 DEF InFront
  <2> QED
    BY <2>1 DEF S
<1>11. i + 1 \in 1 .. n /\ proc[p].target = c[i + 1]
  BY <1>8, <1>10
<1> QED
  BY <1>5, <1>11

\* Whatever the user types and however many shells prompt one inside the other: the mode of
\* the terminal has been put back when a program is in front.
THEOREM TerminalAsTheUserHadIt == Spec => []TerminalForPrograms
<1>1. Init => OneLine
  BY InitialTypes, InitiallySound, InitialLine DEF OneLine, SoundTables
<1>2. OneLine => TerminalForPrograms
  <2> SUFFICES ASSUME SoundTables, InLine(proc, tty), NEW p \in Pids, proc[p].at = "wait",
                      proc[p].target \in Programs, InFront(p), tty # "cooked"
               PROVE  FALSE
    BY DEF OneLine, TerminalForPrograms
  <2>1. tty = "raw"
    BY DEF SoundTables, TypeOK
  <2>2. Fore(proc[proc[p].target])
    BY <2>1, LineEndsAtPrompt
  <2> QED
    BY <2>2 DEF Programs, Fore, Stays
<1> QED
  BY <1>1, <1>2, StepLine, PTL DEF Spec
===============================================================================
