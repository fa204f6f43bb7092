------------------------------- MODULE Stages -------------------------------
(***************************************************************************)
(* The stages of one pipeline: Sandbox::run_pipeline_stages and            *)
(* run_stage_task (src/src/sandbox/mod.rs).                                *)
(*                                                                         *)
(* Pipe k joins stage k to stage k + 1; PipeWake has its wake-ups, here it *)
(* is its contents and its two ends.  The stages are spawned one by one    *)
(* while the earlier ones already run, and joined in the order in which    *)
(* they end.  A command is any program that makes at most MaxWork reads    *)
(* and writes and then ends with some code; it waits only for its pipes.   *)
(* A deadline that cuts the pipeline short is in Execution.  stdin_for and *)
(* writer_for_destination return no error, so their error paths have no    *)
(* action.                                                                 *)
(***************************************************************************)
EXTENDS Integers, Sequences

CONSTANTS
  Plans,     \* pipelines: sequences of Shapes
  Capacity,  \* PIPE_CAPACITY_BYTES
  MaxWork,   \* bound: reads and writes a command makes
  Codes,     \* exit codes of commands
  Panics,    \* stages whose command may panic
  Pending

BrokenPipe == 141

\* What prepare_stage leaves of a stage: what it does, where its input comes
\* from, whether a descriptor leads into the pipe, whether one leads into a
\* redirect file, and whether it has a command name.
Shapes ==
  [kind : {"command", "assign", "failed"}, fromFile : BOOLEAN, toPipe : BOOLEAN,
   sink : BOOLEAN, counts : BOOLEAN]

StagesAssumption ==
  /\ Plans \subseteq Seq(Shapes) \ {<<>>}
  /\ Capacity \in Nat \ {0} /\ MaxWork \in Nat
  /\ Codes \subseteq 0..255
  /\ Pending \notin 0..255

VARIABLES
  plan,      \* the prepared stages
  spawned,   \* how many of them the loop has spawned
  pc,        \* where each stage is
  work,      \* what each command has left to do
  code,      \* its exit code so far
  buffer,    \* bytes in each pipe
  readers,   \* pipes whose reading end is held
  writers,   \* pipes whose writing end is held
  broken,    \* pipes a write has found without reader
  outcomes,  \* outcomes[i]: the outcome recorded for stage i
  status,    \* the status of the pipeline
  timings    \* the stages in ExecMetrics::commands, 0 for "<task>"

stages == <<pc, work, code>>
pipes == <<buffer, readers, writers, broken>>
results == <<outcomes, status, timings>>
vars == <<plan, spawned, stages, pipes, results>>

Stage == DOMAIN plan
Pipe == 1..(Len(plan) - 1)
Nothing == [code |-> Pending, counts |-> FALSE, name |-> 0]

Init ==
  /\ plan \in Plans
  /\ spawned = 0
  /\ pc = [i \in Stage |-> "prepared"]
  /\ work = [i \in Stage |-> MaxWork]
  /\ code = [i \in Stage |-> Pending]
  /\ buffer = [k \in Pipe |-> 0]
  /\ readers = Pipe /\ writers = Pipe /\ broken = {}
  /\ outcomes = [i \in Stage |-> Nothing]
  /\ status = Pending /\ timings = <<>>

Goto(i, where) == pc' = [pc EXCEPT ![i] = where]

\* Stage i reads its input from a pipe.
Piped(i) == i > 1 /\ ~plan[i].fromFile

-----------------------------------------------------------------------------
(***************************************************************************)
(* Mutants: each is a plausible slip in the definition it stands for.      *)
(***************************************************************************)
WriteUntilTaken(i) ==
  /\ pc[i] = "write"
  /\ \/ i \notin writers /\ Goto(i, "command") /\ UNCHANGED <<buffer, broken>>
     \/ /\ i \in writers \intersect readers /\ buffer[i] < Capacity
        /\ buffer' = [buffer EXCEPT ![i] = @ + 1]
        /\ Goto(i, "command")
        /\ UNCHANGED broken
     \/ /\ i \in writers \ readers
        /\ broken' = broken \union {i}
        /\ UNCHANGED <<pc, buffer>>
  /\ UNCHANGED <<plan, spawned, work, code, readers, writers, results>>

CollectFailure ==
  LET all == [i \in Stage |-> outcomes[i]]
      recorded == SelectSeq(all, LAMBDA o : o # Nothing)
      counted == SelectSeq(recorded, LAMBDA o : o.counts)
      failures == SelectSeq(recorded, LAMBDA o : o.code # 0)
  IN  /\ status = Pending
      /\ \A i \in Stage : pc[i] = "joined"
      /\ status' = IF failures = <<>> THEN 0 ELSE failures[Len(failures)].code
      /\ timings' = [n \in DOMAIN counted |-> counted[n].name]
      /\ UNCHANGED <<plan, spawned, stages, pipes, outcomes>>

-----------------------------------------------------------------------------
(***************************************************************************)
(* Spawning.                                                               *)
(***************************************************************************)
\* A stage with redirected input lets go of the pipe it would read, one
\* without a descriptor on its pipe of the pipe it would write.
Spawn(i) ==
  /\ i = spawned + 1
  /\ spawned' = i
  /\ Goto(i, "start")
  /\ readers' = IF plan[i].fromFile THEN readers \ {i - 1} ELSE readers
  /\ writers' = IF plan[i].toPipe THEN writers ELSE writers \ {i}
  /\ UNCHANGED <<plan, work, code, buffer, broken, results>>

\* The streams of a stage are dropped.
LetGo(i) ==
  /\ readers' = readers \ {i - 1}
  /\ writers' = writers \ {i}

-----------------------------------------------------------------------------
(***************************************************************************)
(* run_stage_task.                                                         *)
(***************************************************************************)
Start(i) ==
  /\ pc[i] = "start" /\ plan[i].kind = "command"
  /\ Goto(i, "command")
  /\ UNCHANGED <<plan, spawned, work, code, pipes, results>>

\* A null command drops its streams; one whose redirects failed reports it.
StartNothing(i) ==
  /\ pc[i] = "start" /\ plan[i].kind # "command"
  /\ code' = [code EXCEPT ![i] = IF plan[i].kind = "assign" THEN 0 ELSE 1]
  /\ LetGo(i)
  /\ Goto(i, "sinks")
  /\ UNCHANGED <<plan, spawned, work, buffer, broken, results>>

\* The command decides to read or to write ...
Choose(i, what) ==
  /\ pc[i] = "command" /\ work[i] > 0
  /\ work' = [work EXCEPT ![i] = @ - 1]
  /\ Goto(i, what)
  /\ UNCHANGED <<plan, spawned, code, pipes, results>>

\* ... or ends, or panics.
Exit(i) ==
  /\ pc[i] = "command"
  /\ \E c \in Codes : code' = [code EXCEPT ![i] = c]
  /\ LetGo(i)
  /\ Goto(i, "sinks")
  /\ UNCHANGED <<plan, spawned, work, buffer, broken, results>>

Panic(i) ==
  /\ pc[i] = "command" /\ i \in Panics
  /\ LetGo(i)
  /\ Goto(i, "panicked")
  /\ UNCHANGED <<plan, spawned, work, code, buffer, broken, results>>

\* A read waits for bytes or for the end of the pipe.
Read(i) ==
  /\ pc[i] = "read"
  /\ \/ ~Piped(i) /\ UNCHANGED buffer
     \/ Piped(i) /\ buffer[i - 1] > 0 /\ buffer' = [buffer EXCEPT ![i - 1] = @ - 1]
     \/ Piped(i) /\ buffer[i - 1] = 0 /\ i - 1 \notin writers /\ UNCHANGED buffer
  /\ Goto(i, "command")
  /\ UNCHANGED <<plan, spawned, work, code, readers, writers, broken, results>>

\* A write waits for room, and fails when nobody reads the pipe.
Write(i) ==
  /\ pc[i] = "write"
  /\ \/ i \notin writers /\ UNCHANGED <<buffer, broken>>
     \/ /\ i \in writers \intersect readers /\ buffer[i] < Capacity
        /\ buffer' = [buffer EXCEPT ![i] = @ + 1]
        /\ UNCHANGED broken
     \/ /\ i \in writers \ readers
        /\ broken' = broken \union {i}
        /\ UNCHANGED buffer
  /\ Goto(i, "command")
  /\ UNCHANGED <<plan, spawned, work, code, readers, writers, results>>

\* The redirect files are finished; one that failed makes the code 1, and
\* otherwise a failure after a broken pipe is 141.
Settle(i) ==
  /\ pc[i] = "sinks"
  /\ \/ /\ plan[i].sink
        /\ code' = [code EXCEPT ![i] = 1]
     \/ code' = IF code[i] # 0 /\ i \in broken THEN [code EXCEPT ![i] = BrokenPipe] ELSE code
  /\ Goto(i, "ended")
  /\ UNCHANGED <<plan, spawned, work, pipes, results>>

-----------------------------------------------------------------------------
(***************************************************************************)
(* Joining.                                                                *)
(***************************************************************************)
\* join_next returns the outcome of a stage that has ended.
Join(i) ==
  /\ spawned = Len(plan) /\ pc[i] = "ended"
  /\ outcomes' = [outcomes EXCEPT ![i] =
                    [code |-> code[i], counts |-> plan[i].counts, name |-> i]]
  /\ Goto(i, "joined")
  /\ UNCHANGED <<plan, spawned, work, code, pipes, status, timings>>

\* It does not say which task has panicked.
JoinError(i) ==
  /\ spawned = Len(plan) /\ pc[i] = "panicked"
  /\ outcomes' = [outcomes EXCEPT ![1] = [code |-> 1, counts |-> TRUE, name |-> 0]]
  /\ Goto(i, "joined")
  /\ UNCHANGED <<plan, spawned, work, code, pipes, status, timings>>

\* The outcomes that were recorded, in order; the last gives the status.
Collect ==
  LET all == [i \in Stage |-> outcomes[i]]
      recorded == SelectSeq(all, LAMBDA o : o # Nothing)
      counted == SelectSeq(recorded, LAMBDA o : o.counts)
  IN  /\ status = Pending
      /\ \A i \in Stage : pc[i] = "joined"
      /\ status' = recorded[Len(recorded)].code
      /\ timings' = [n \in DOMAIN counted |-> counted[n].name]
      /\ UNCHANGED <<plan, spawned, stages, pipes, outcomes>>

Finished == status # Pending /\ UNCHANGED vars

Advance(i) ==
  \/ Start(i) \/ StartNothing(i) \/ Choose(i, "read") \/ Choose(i, "write")
  \/ Exit(i) \/ Panic(i) \/ Read(i) \/ Write(i) \/ Settle(i)

Next ==
  \/ \E i \in Stage : Spawn(i) \/ Advance(i) \/ Join(i) \/ JoinError(i)
  \/ Collect
  \/ Finished

Spec == Init /\ [][Next]_vars

\* The runtime polls every task that is ready: a stage stops only where it
\* waits for a pipe.
FairSpec ==
  /\ Spec
  /\ \A i \in UNION {DOMAIN p : p \in Plans} :
       /\ WF_vars(i \in Stage /\ Spawn(i))
       /\ WF_vars(i \in Stage /\ Advance(i))
       /\ WF_vars(i \in Stage /\ (Join(i) \/ JoinError(i)))
  /\ WF_vars(Collect)

-----------------------------------------------------------------------------
(***************************************************************************)
(* Properties.                                                             *)
(***************************************************************************)
\* Every variable has its type; a pipe holds at most its capacity.
TypeOK ==
  /\ plan \in Plans /\ spawned \in 0..Len(plan)
  /\ pc \in [Stage -> {"prepared", "start", "command", "read", "write", "sinks",
                       "ended", "panicked", "joined"}]
  /\ work \in [Stage -> 0..MaxWork]
  /\ code \in [Stage -> 0..255 \union {Pending}]
  /\ buffer \in [Pipe -> 0..Capacity]
  /\ readers \subseteq Pipe /\ writers \subseteq Pipe /\ broken \subseteq Pipe
  /\ status \in 0..255 \union {Pending}

\* The status of a pipeline is the code its last stage ended with, in whatever
\* order the stages end, unless a task has panicked.
StatusIsLast ==
  status # Pending /\ (\A i \in Stage : code[i] # Pending) => status = code[Len(plan)]

\* ExecMetrics::commands: "Per-command timings in pipeline order", one for
\* every stage that has a command.
TimingsInOrder ==
  status # Pending =>
    timings = SelectSeq([i \in Stage |-> i], LAMBDA i : plan[i].counts)

\* Whatever happens to the other stages, a stage that ended as itself has its
\* timing, unless it is the first, whose place a panicked task may take; and
\* the timings are in pipeline order.
TimingsKept ==
  status # Pending =>
    SelectSeq(timings, LAMBDA i : i > 1)
      = SelectSeq([i \in Stage |-> i], LAMBDA i : i > 1 /\ plan[i].counts /\ code[i] # Pending)

\* A pipeline whose commands wait for nothing but their pipes ends: whatever
\* they read and write, and whether they end early, panic, take their input
\* from a file or send their output to one, no stage waits for ever for an end
\* of a pipe that nobody serves.
PipelineEnds == []<>(status # Pending)
=============================================================================
