----------------------------- MODULE MCScripts ------------------------------
(***************************************************************************)
(* The execution of scripts for TLC: the loop over pipelines (Execution),  *)
(* the stages of one pipeline (Stages), and what turns the text of a       *)
(* script into commands (Shell).  Each is composed of what it needs of the *)
(* others; they share no state here: each initial state sets one going and *)
(* leaves the others at rest.                                              *)
(***************************************************************************)
EXTENDS Execution, TLC

CONSTANTS MaxWork,                           \* bound of Stages
          Unset,                             \* Pending of Stages
          MayPanic                           \* Panics of Stages

VARIABLES subject,
          plan, spawned, pc, work, code, buffer, readers, writers, broken, outcomes, status, timings,
          program, shell

stagesVars == <<plan, spawned, pc, work, code, buffer, readers, writers, broken, outcomes, status, timings>>
shellVars == <<program, shell>>

P(op, size) == [op |-> op, size |-> size]

\* Every way to join up to three single commands, and longer pipelines at
\* the edge of the command budget.
ThreePipelines ==
  {<<>>} \union
  {<<P("list", 1), P(a, 1), P(b, 1)>> : a, b \in {"list", "and", "or"}} \union
  {<<P("list", 2), P(a, 2)>> : a \in {"list", "and", "or"}}

\* One program of each kind, for two executions.
TwoPrograms == {<<P("list", 1), P("or", 2)>>, <<P("list", 1), P("list", 1)>>}

ExecSymmetry == Permutations(Execs)

SC == INSTANCE ScriptCases WITH MaxFd <- 12

Piped == INSTANCE Stages WITH
    Plans <- SC!MCPlans, Capacity <- 1, Codes <- {0, 2}, Panics <- MayPanic, Pending <- Unset
Text == INSTANCE Shell WITH MaxFd <- 12, CommandSize <- 5, FieldSize <- 2, Programs <- SC!MCPrograms

ASSUME StagesAssumption == Piped!StagesAssumption

StagesRest ==
    /\ plan = 0 /\ spawned = 0 /\ pc = 0 /\ work = 0 /\ code = 0 /\ buffer = 0 /\ readers = 0
    /\ writers = 0 /\ broken = 0 /\ outcomes = 0 /\ status = 0 /\ timings = 0
ShellRests == program = 0 /\ shell = 0

MCInit ==
    /\ Init
    /\ \/ subject = "exec" /\ StagesRest /\ ShellRests
       \/ subject = "stages" /\ Piped!Init /\ ShellRests
       \/ subject = "shell" /\ Text!ShellInit /\ StagesRest

MCNext ==
    \/ subject = "exec" /\ Next /\ UNCHANGED <<subject, stagesVars, shellVars>>
    \/ subject = "stages" /\ Piped!Next /\ UNCHANGED <<subject, vars, shellVars>>
    \/ subject = "shell" /\ Text!ShellNext /\ UNCHANGED <<subject, vars, stagesVars>>

\* The fairness of Execution!FairSpec and Stages!FairSpec.
MCSpec ==
    /\ MCInit /\ [][MCNext]_<<subject, vars, stagesVars, shellVars>>
    /\ \A e \in Execs : WF_vars(subject = "exec" /\ Expire(e)) /\ WF_vars(subject = "exec" /\ Advance(e))
    /\ \A i \in 1 .. 3 :
         /\ WF_stagesVars(subject = "stages" /\ Piped!Spawn(i))
         /\ WF_stagesVars(subject = "stages" /\ Piped!Advance(i))
         /\ WF_stagesVars(subject = "stages" /\ (Piped!Join(i) \/ Piped!JoinError(i)))
    /\ WF_stagesVars(subject = "stages" /\ Piped!Collect)

\* One component by itself.
ExecAlone == subject = "exec" /\ MCInit /\ [][MCNext]_<<subject, vars, stagesVars, shellVars>>
StagesAlone == subject = "stages" /\ MCInit /\ [][MCNext]_<<subject, vars, stagesVars, shellVars>>

-----------------------------------------------------------------------------
\* Every variable of an execution, of the stages of a pipeline and of the
\* shell has its type; a pipe holds at most its capacity.
Types ==
    /\ TypeOK
    /\ subject = "stages" => Piped!TypeOK
    /\ subject = "shell" => Text!ShellTypeOK

\* Whatever the stages of a pipeline do and in whatever order they end, its
\* status is the code of the last one, and the timings of the stages that
\* ended as themselves are kept in order.
PipelineResult == subject = "stages" => Piped!StatusIsLast /\ Piped!TimingsKept

\* "Per-command timings in pipeline order": the timings of a pipeline are those
\* of its stages, also when a stage's task panics.
TimingsInOrder == subject = "stages" => Piped!TimingsInOrder

\* Every execution returns once it is called, and a pipeline whose commands
\* wait for nothing but their pipes ends.
ScriptsEnd == []<>(NoneRunning /\ (subject = "stages" => status # Unset))

\* lex and parse take a quoted text for what was quoted, in a word, a value and
\* a target, and read each line of a program, errors and their places included,
\* as they would read it alone.
ShellReads == subject = "shell" => Text!ShellQuoting /\ Text!ShellLines

\* expand splits unquoted values, and nothing else, into fields, and charges
\* what the fields of a pipeline hold to its budget before it makes them.
ShellFields == subject = "shell" => Text!ShellFields
=============================================================================
