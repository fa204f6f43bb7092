------------------------------ MODULE Execution -----------------------------
(***************************************************************************)
(* Sandbox::exec (src/sandbox/mod.rs): executions of shell programs that   *)
(* run concurrently against one sandbox, each with a deadline, a command   *)
(* budget and a copy of the stored shell session.                          *)
(*                                                                         *)
(* A program is a sequence of pipelines.  A pipeline is joined to what is  *)
(* before it by && or || (AndOrOp), or starts a list after a ; or newline, *)
(* and has a number of commands.  What a command does is left open: it ends with any status,   *)
(* may change the session when it is not part of a longer pipeline, or     *)
(* never ends.  A session is abstracted to the execution that changed it   *)
(* last and to its $?.                                                     *)
(*                                                                         *)
(* An execution is a future.  Between two awaits it cannot be stopped, yet *)
(* the clock goes on: is_cancelled compares the clock with the deadline at *)
(* each check, so every check is a step of its own.                        *)
(***************************************************************************)
EXTENDS Integers, Sequences

CONSTANTS
  Execs,          \* calls of exec
  Programs,       \* parsed programs
  Statuses,       \* exit statuses of commands
  MaxCommands,    \* Limits::max_commands
  PersistSession, \* SandboxBuilder::persist_session
  Nobody          \* who changed the base session of the builder

\* Exit codes.
Codes == 0..255

ASSUME ProgramAssumption ==
  /\ \A p \in Programs :
       /\ p \in Seq([op : {"list", "and", "or"}, size : Nat \ {0}])
       /\ p # <<>> => p[1].op = "list"
  /\ Statuses \subseteq Codes /\ MaxCommands \in Nat
  /\ PersistSession \in BOOLEAN /\ Nobody \notin Execs

VARIABLES
  run,         \* exec -> its local state
  expired,     \* exec -> the clock is past its deadline
  stored,      \* Sandbox::session
  commandsRun  \* Sandbox::commands_run

vars == <<run, expired, stored, commandsRun>>

\* The codes of the shell itself; Pending is no code yet.
TimedOut == 124
LimitHit == 125
SyntaxError == 2
Pending == -1

\* Local state before anything has run.  ran and late are history: the place
\* and status of each pipeline that ran, and the number of pipelines that
\* started after the deadline.
Fresh(pc, prog, status, by) ==
  [pc |-> pc, prog |-> prog, pos |-> 1, status |-> status, by |-> by, count |-> 0,
   limit |-> FALSE, result |-> Pending, ran |-> <<>>, late |-> 0]

Init ==
  /\ run = [e \in Execs |-> Fresh("idle", <<>>, 0, Nobody)]
  /\ expired = [e \in Execs |-> FALSE]
  /\ stored = [by |-> Nobody, status |-> 0]
  /\ commandsRun = 0

At(e, pc) == run[e].pc = pc
Current(e) == run[e].prog[run[e].pos]

Put(e, r) ==
  /\ run' = [run EXCEPT ![e] = r]
  /\ UNCHANGED <<expired, stored, commandsRun>>

-----------------------------------------------------------------------------
(***************************************************************************)
(* Mutants: each is a plausible slip in the definition it stands for.      *)
(***************************************************************************)

BudgetLeftOffByOne(e) == MaxCommands - run[e].count + 1

AfterLastToo(r) ==
  LET last == r.limit \/ r.pos > Len(r.prog)
  IN  [r EXCEPT !.pc = IF last THEN "check" ELSE "item", !.pos = IF last THEN @ ELSE @ + 1]

DecideUnchecked(e) ==
  /\ At(e, "decide")
  /\ Put(e, [run[e] EXCEPT !.pc = "done", !.result = run[e].status])

-----------------------------------------------------------------------------
(***************************************************************************)
(* The clock.                                                              *)
(***************************************************************************)
\* ExecutionControl::is_cancelled while the execution's guard is alive: only
\* the deadline can cancel it.
IsCancelled(e) == expired[e]

Expire(e) ==
  /\ run[e].pc \notin {"idle", "done", "dropped"} /\ ~expired[e]
  /\ expired' = [expired EXCEPT ![e] = TRUE]
  /\ UNCHANGED <<run, stored, commandsRun>>

-----------------------------------------------------------------------------
(***************************************************************************)
(* exec_inner and what it calls.                                           *)
(***************************************************************************)
\* session_snapshot and ExecState::new.
Start(e, p) ==
  /\ At(e, "idle")
  /\ Put(e, Fresh(IF p = <<>> THEN "check" ELSE "item", p, stored.status, stored.by))

\* The input is too long or does not parse.
Reject(e) ==
  /\ At(e, "idle")
  /\ \E status \in {LimitHit, SyntaxError} :
       Put(e, Fresh("decide", <<>>, status, Nobody))

\* r after its current pipeline was skipped or has ended: the next one, or
\* the end of the loops over lists and over the items of a list.
After(r) ==
  LET last == r.limit \/ r.pos = Len(r.prog)
  IN  [r EXCEPT !.pc = IF last THEN "check" ELSE "item", !.pos = IF last THEN @ ELSE @ + 1]

\* The current pipeline ends with a status that the shell itself gives it.
Refuse(e, status) == Put(e, After([run[e] EXCEPT !.status = status, !.limit = status = LimitHit]))

\* A list starts after a look at the clock; within a list the status so far
\* decides whether a pipeline runs.
Item(e) ==
  /\ At(e, "item")
  /\ LET op == Current(e).op
         runs == op = "list" \/ (op = "and" <=> run[e].status = 0)
     IN  Put(e, IF op = "list" /\ IsCancelled(e) THEN [run[e] EXCEPT !.pc = "check"]
                ELSE IF runs THEN [run[e] EXCEPT !.pc = "pipeline"]
                ELSE After(run[e]))

\* max_commands.saturating_sub(command_count).
BudgetLeft(e) == MaxCommands - run[e].count

\* exec_pipeline, up to the command budget.
Pipeline(e) ==
  /\ At(e, "pipeline")
  /\ \/ IsCancelled(e) /\ Refuse(e, TimedOut)
     \/ ~IsCancelled(e) /\ Current(e).size > BudgetLeft(e) /\ Refuse(e, LimitHit)
     \/ /\ ~IsCancelled(e) /\ Current(e).size <= BudgetLeft(e)
        /\ Put(e, [run[e] EXCEPT !.pc = "expand"])

\* Every command is expanded, within one budget.
Expand(e) ==
  /\ At(e, "expand")
  /\ \/ IsCancelled(e) /\ Refuse(e, TimedOut)
     \/ ~IsCancelled(e) /\ Refuse(e, LimitHit)
     \/ /\ ~IsCancelled(e)
        /\ Put(e, [run[e] EXCEPT !.pc = IF Current(e).size = 1 THEN "begin" ELSE "prepare"])

\* The stages of a longer pipeline are prepared.
Prepare(e) ==
  /\ At(e, "prepare")
  /\ \/ IsCancelled(e) /\ Refuse(e, TimedOut)
     \/ ~IsCancelled(e) /\ Put(e, [run[e] EXCEPT !.pc = "redirect"])

\* The redirects of its stages are open.
OpenRedirects(e) ==
  /\ At(e, "redirect")
  /\ Put(e, [run[e] EXCEPT !.pc = "begin"])

\* The commands are counted and started.  exec_single_simple looks at the
\* budget once more, in vain: nothing has been counted since Pipeline did.
Begin(e) ==
  /\ At(e, "begin")
  /\ Put(e, [run[e] EXCEPT !.pc = "running", !.count = @ + Current(e).size,
                           !.late = IF expired[e] THEN @ + 1 ELSE @])

\* The pipeline ends by itself.  The stages of a longer pipeline work on
\* copies of the session.
Complete(e) ==
  /\ At(e, "running")
  /\ \E status \in Statuses, by \in {run[e].by} \union (IF Current(e).size = 1 THEN {e} ELSE {}) :
       Put(e, After([run[e] EXCEPT !.status = status, !.by = by,
                                   !.ran = Append(@, [pos |-> run[e].pos, status |-> status])]))

\* Is the session to be kept?
Check(e) ==
  /\ At(e, "check")
  /\ Put(e, [run[e] EXCEPT !.pc = IF PersistSession /\ ~IsCancelled(e) THEN "store" ELSE "count"])

StoreSession(e) ==
  /\ At(e, "store")
  /\ stored' = [by |-> run[e].by, status |-> run[e].status]
  /\ run' = [run EXCEPT ![e].pc = "count"]
  /\ UNCHANGED <<expired, commandsRun>>

Count(e) ==
  /\ At(e, "count")
  /\ commandsRun' = commandsRun + run[e].count
  /\ run' = [run EXCEPT ![e].pc = "decide"]
  /\ UNCHANGED <<expired, stored>>

-----------------------------------------------------------------------------
(***************************************************************************)
(* exec.                                                                   *)
(***************************************************************************)
\* The inner future has a result, which counts if the deadline is not past.
Decide(e) ==
  /\ At(e, "decide")
  /\ Put(e, [run[e] EXCEPT !.pc = "done", !.result = IF IsCancelled(e) THEN TimedOut ELSE run[e].status])

\* Where the inner future awaits and can be dropped.
Awaits(e) ==
  \/ run[e].pc \in {"pipeline", "expand", "prepare", "redirect", "running"}
  \/ At(e, "item") /\ Current(e).op = "list"

\* The timer of time::timeout finds the inner future waiting.
Timeout(e) ==
  /\ Awaits(e) /\ expired[e]
  /\ Put(e, [run[e] EXCEPT !.pc = "done", !.result = TimedOut])

\* The caller drops the future of exec.
DropExec(e) ==
  /\ Awaits(e)
  /\ Put(e, [run[e] EXCEPT !.pc = "dropped"])

\* What the runtime does with an execution, apart from what may hang.
Advance(e) ==
  \/ Item(e) \/ Pipeline(e) \/ Expand(e) \/ Prepare(e) \/ Begin(e)
  \/ Check(e) \/ StoreSession(e) \/ Count(e) \/ Decide(e) \/ Timeout(e)

Ended(e) == run[e].pc \in {"done", "dropped"}

Finished == (\A e \in Execs : Ended(e)) /\ UNCHANGED vars

Next ==
  \/ \E e \in Execs :
       \/ \E p \in Programs : Start(e, p)
       \/ Reject(e) \/ Advance(e) \/ OpenRedirects(e) \/ Complete(e) \/ DropExec(e) \/ Expire(e)
  \/ Finished

Spec == Init /\ [][Next]_vars

\* Time passes, and the runtime polls what can go on.  Commands and the file
\* system under a redirect may hang, and nobody has to call exec.
FairSpec == Spec /\ \A e \in Execs : WF_vars(Expire(e)) /\ WF_vars(Advance(e))

-----------------------------------------------------------------------------
(***************************************************************************)
(* Properties.                                                             *)
(***************************************************************************)
PCs ==
  {"idle", "item", "pipeline", "expand", "prepare", "redirect", "begin", "running",
   "check", "store", "count", "decide", "done", "dropped"}

Histories == Seq([pos : Nat, status : Codes])

Local ==
  [pc : PCs, prog : Programs \union {<<>>}, pos : Nat, status : Codes,
   by : Execs \union {Nobody}, count : Nat, limit : BOOLEAN, result : Codes \union {Pending},
   ran : Histories, late : Nat]

\* Every variable has its type, and an execution never runs off its program.
TypeOK ==
  /\ run \in [Execs -> Local]
  /\ \A e \in Execs : run[e].pos \in 1..(IF run[e].prog = <<>> THEN 1 ELSE Len(run[e].prog))
  /\ expired \in [Execs -> BOOLEAN]
  /\ stored \in [by : Execs \union {Nobody}, status : Codes]
  /\ commandsRun \in Nat

\* No execution runs more commands than its limit, however its lists and
\* pipelines divide the budget.
CommandBudget == \A e \in Execs : run[e].count <= MaxCommands

\* Of the pipelines that ran, the last one before the n-th succeeded.
LastSucceeded(ran, n) ==
  LET Before == {k \in DOMAIN ran : ran[k].pos < n}
  IN  \E k \in Before : ran[k].status = 0 /\ \A j \in Before : j <= k

\* What the shell's grammar says of the n-th pipeline.
Selected(prog, ran, n) ==
  \/ prog[n].op = "list"
  \/ prog[n].op = "and" /\ LastSucceeded(ran, n)
  \/ prog[n].op = "or" /\ ~LastSucceeded(ran, n)

Ran(ran, n) == \E k \in DOMAIN ran : ran[k].pos = n

\* A result that is neither a timeout nor a limit is that of the whole
\* program: exactly the pipelines that ;, && and || select ran, and the exit
\* code is the status of the last.  A run cut short by the deadline never
\* passes for a complete one.
ResultIsComplete ==
  \A e \in Execs :
    LET r == run[e]
    IN  r.pc = "done" /\ r.result \notin {TimedOut, LimitHit} /\ r.prog # <<>> =>
          /\ \A n \in DOMAIN r.prog : Ran(r.ran, n) <=> Selected(r.prog, r.ran, n)
          /\ r.result = r.ran[Len(r.ran)].status

\* After the deadline an execution starts at most the one pipeline whose last
\* look at the clock came before it.
OneLateStart == \A e \in Execs : run[e].late <= 1

\* The limits of an execution hold: however its lists and pipelines divide
\* max_commands, and whenever the deadline passes between two looks at it.
LimitsHold == CommandBudget /\ OneLateStart

\* What the documentation of exec says: the session changes of an execution
\* that ends with 124 because its time is up are discarded.
TimeoutDiscardsSession ==
  \A e \in Execs : At(e, "done") /\ expired[e] /\ run[e].result = TimedOut => stored.by # e

\* Every execution returns once called, also when its commands hang, unless
\* its caller drops it.
NoneRunning == \A e \in Execs : At(e, "idle") \/ Ended(e)
ExecReturns == []<>NoneRunning
=============================================================================
