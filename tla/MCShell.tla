------------------------------ MODULE MCShell ------------------------------
(***************************************************************************)
(* Instances of Shell: the command lines its user may type.                *)
(***************************************************************************)
EXTENDS Shell

Line(names) == Command([i \in DOMAIN names |-> Call(names[i])], FALSE)
InBackground(names) == [Line(names) EXCEPT !.background = TRUE, !.amp = TRUE]
From(line, i) == [line EXCEPT !.stages[i].from = "file"]
To(line, i) == [line EXCEPT !.stages[i].to = "file"]

\* Every command of process_command, alone; programs and unknown names in front, in the
\* background and in a pipeline.
EveryCommand ==
    {Line(<<name>>) : name \in Names}
    \cup {From(Line(<<"missing">>), 1), InBackground(<<"prog">>), InBackground(<<"missing">>),
          Line(<<"prog", "prog">>), Line(<<"missing", "prog">>), Line(<<"prog", "missing">>),
          InBackground(<<"prog", "myfg">>)}

\* Pipelines of three commands and of two with redirections, and other jobs beside them.
Pipelines ==
    {Line(<<"prog", "prog", "prog">>), From(To(Line(<<"prog", "missing">>), 1), 1),
     Line(<<"alarm">>), Line(<<"prog">>), Line(<<"myfg">>), Line(<<"pause">>)}

\* A job in the background that is taken to the front.
ToForeground == {InBackground(<<"prog">>), Line(<<"pause">>), Line(<<"myfg">>)}
=============================================================================
