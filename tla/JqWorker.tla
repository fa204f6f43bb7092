------------------------------ MODULE JqWorker ------------------------------
(***************************************************************************)
(* The jq command: what it asks its guest to do, and the worker that runs  *)
(* the guest.                                                              *)
(***************************************************************************)
EXTENDS Naturals, Sequences, Functions, FiniteSets

(***************************************************************************)
(* What a jq command asks its guest to do: the command line                *)
(* (src/sandbox/jq_protocol.rs), the inputs read for it                    *)
(* (src/sandbox/builtins.rs) and the program the guest runs on them        *)
(* (guests/jq/src/lib.rs).  A document is the sequence of its values; a    *)
(* value is named for what the filter does with it: "true" and "false" are *)
(* emitted, "error" fails, "halt" ends the run with a status of the        *)
(* filter's choice, "bad" does not parse, "deep" is nested beyond the      *)
(* limit, "memory" and "trap" end the guest and "loop" never returns.      *)
(***************************************************************************)

Refused == [ok |-> FALSE, filter |-> <<>>, files |-> <<>>, flags |-> {}, vars |-> <<>>, ended |-> FALSE, want |-> <<>>]
Parsing == [Refused EXCEPT !.ok = TRUE]

\* parse_jq_args.  An argument is a record: k says how it reads ("word", "-",
\* "--", "flags", "tab", "indent", "var" for --arg and --argjson, "long"),
\* good whether it is a valid variable name, indent or JSON text.
ParseArg(acc, arg) ==
    IF ~acc.ok THEN acc
    ELSE IF acc.want # <<>> /\ Head(acc.want) = "value" THEN [acc EXCEPT !.want = <<>>, !.vars = Append(@, arg.good)]
    ELSE IF acc.want # <<>> THEN IF arg.good THEN [acc EXCEPT !.want = Tail(@)] ELSE Refused
    ELSE IF acc.filter # <<>> THEN [acc EXCEPT !.files = Append(@, arg.k)]
    ELSE IF acc.ended \/ arg.k \in {"word", "-"} THEN [acc EXCEPT !.filter = <<arg>>]
    ELSE IF arg.k = "--" THEN [acc EXCEPT !.ended = TRUE]
    ELSE IF arg.k = "tab" THEN acc
    ELSE IF arg.k = "indent" THEN [acc EXCEPT !.want = <<"indent">>]
    ELSE IF arg.k = "var" THEN [acc EXCEPT !.want = <<"name", "value">>]
    ELSE IF arg.k = "flags" /\ arg.set \subseteq {"r", "j", "c", "e", "n", "s", "S"} THEN [acc EXCEPT !.flags = @ \cup arg.set]
    ELSE Refused
ParseJqArgs(args) ==
    LET parsed[n \in 0..Len(args)] == IF n = 0 THEN Parsing ELSE ParseArg(parsed[n - 1], args[n])
        options == parsed[Len(args)]
    IN  IF options.want # <<>> \/ options.filter = <<>> THEN Refused ELSE options

\* read_jq_inputs: the named documents, or standard input; the limit bounds
\* them together, what was read from standard input is read once, and a
\* document that is nested too deeply is refused (push_jq_input).
Named(options) == IF options.files = <<>> THEN <<"-">> ELSE options.files
ReadJqInputs(options, docs, limit) ==
    LET names == IF "n" \in options.flags THEN <<>> ELSE Named(options)
        Drained(n) == names[n] = "-" /\ \E m \in 1..(n - 1) : names[m] = "-"
        read[n \in 0..Len(names)] ==
            IF n = 0 THEN <<>> ELSE read[n - 1] \o IF Drained(n) THEN <<>> ELSE docs[names[n]]
        Accepted(values) == Len(values) <= limit /\ "deep" \notin Range(values)
    IN  IF Range(names) \subseteq DOMAIN docs /\ Accepted(read[Len(names)])
        THEN [ok |-> TRUE, values |-> read[Len(names)]]
        ELSE [ok |-> FALSE, values |-> <<>>]

-----------------------------------------------------------------------------
\* What the guest does, in order: values it emits, then how it ends.
Emit(v) == [k |-> "out", v |-> v]
End(code) == [k |-> "end", code |-> code]
Fails(code) == [k |-> "fails", code |-> code]      \* ends with a message on stderr

\* run_jq_input_value and jq_exit_code; the filter's halt names status 7.
Ends(v) == CASE v = "bad" -> Fails(5) [] v = "error" -> Fails(5) [] v = "halt" -> Fails(7) [] v = "memory" -> [k |-> "memory"] [] v = "trap" -> [k |-> "trap"]
             [] v = "loop" -> [k |-> "loop"]
ExitCode(options, emitted) ==
    IF "e" \notin options.flags THEN 0 ELSE IF emitted = <<>> THEN 4 ELSE IF emitted[Len(emitted)] = "true" THEN 0 ELSE 1

\* run_program
RunValues(options, values) ==
    LET stops == {i \in DOMAIN values : values[i] \notin {"true", "false"}}
        n == IF stops = {} THEN Len(values) ELSE CHOOSE i \in stops : \A j \in stops : i <= j
        emitted == SubSeq(values, 1, IF stops = {} THEN n ELSE n - 1)
    IN  [i \in 1 .. Len(emitted) |-> Emit(emitted[i])]
        \o <<IF stops = {} THEN End(ExitCode(options, emitted)) ELSE Ends(values[n])>>
RunProgram(options, values) ==
    IF \E i \in DOMAIN options.vars : ~options.vars[i] THEN <<Fails(2)>>
    ELSE IF ~options.filter[1].good THEN <<Fails(3)>>
    ELSE IF "n" \in options.flags THEN RunValues(options, <<"true">>)
    ELSE IF "s" \in options.flags THEN IF "bad" \in Range(values) THEN <<Fails(5)>> ELSE RunValues(options, <<"true">>)
    ELSE RunValues(options, values)

-----------------------------------------------------------------------------
(***************************************************************************)
(* jq commands and their workers (jq_cmd in src/sandbox/builtins.rs and    *)
(* src/sandbox/jq_runtime.rs).  A command takes a permit, starts a thread  *)
(* that runs the guest and passes its output through a bounded channel;    *)
(* the thread keeps the permit until it has exited.  The command may stop  *)
(* polling at any time, and its execution may be dropped.                  *)
(***************************************************************************)

CONSTANTS Jobs,           \* jq commands
          JobLines,       \* functions from Jobs to [args, docs]
          JqWorkers,      \* permits of the pool
          Room,           \* capacity of the channel (4 in the code)
          InputLimit,     \* jq_input_bytes
          MaxBreaks       \* bound on closed pipes, panics and failed spawns

\* What a filter may do with a value, and what a document may hold.
GuestValues == {"true", "false", "bad", "error", "halt", "memory", "trap", "loop"}
JqValues == GuestValues \cup {"deep"}

JqAssumption ==
    /\ JqWorkers \in Nat \ {0} /\ Room \in Nat \ {0}
    /\ IsFiniteSet(Jobs)
    /\ \A lines \in JobLines : \A j \in Jobs :
          /\ lines[j].args \in Seq(Range(lines[j].args))
          /\ \A name \in DOMAIN lines[j].docs : lines[j].docs[name] \in Seq(JqValues)

VARIABLES job,            \* the command's side
          worker,         \* the thread's side
          chan,           \* messages between them
          permits,        \* free permits
          late,           \* jobs whose deadline has passed
          breaks

jqVars == <<job, worker, chan, permits, late, breaks>>

NewJob(line) == [pc |-> "parse", line |-> line, todo |-> <<>>, code |-> 0, held |-> <<>>, written |-> <<>>, why |-> "own"]
NoWorker == [pc |-> "none", todo |-> <<>>, code |-> 0, blocked |-> FALSE, panicked |-> FALSE]

JqInit ==
    /\ job \in {[j \in Jobs |-> NewJob(line[j])] : line \in JobLines}
    /\ worker = [j \in Jobs |-> NoWorker]
    /\ chan = [j \in Jobs |-> <<>>]
    /\ permits = JqWorkers
    /\ late = {}
    /\ breaks = 0

Over(j) == job[j].pc \in {"done", "dropped"}        \* the receiver is gone
Cancelled(j) == Over(j)                             \* JqCancelOnDrop
Interrupted(j) == Cancelled(j) \/ j \in late        \* State::checkpoint
Exited(j) == worker[j].pc \in {"none", "exited"}    \* no sender is left
Finish(j, code, why) == job' = [job EXCEPT ![j].pc = "done", ![j].code = code, ![j].why = why]

-----------------------------------------------------------------------------
(* jq_cmd                                                                   *)
Parse(j) ==
    LET options == ParseJqArgs(job[j].line.args)
        read == ReadJqInputs(options, job[j].line.docs, InputLimit)
        unread == ~read.ok \/ (j \in late /\ \E i \in DOMAIN options.files : options.files[i] # "-")
    IN  /\ job[j].pc = "parse"
        /\ IF ~options.ok \/ (options.ok /\ "n" \notin options.flags /\ unread) THEN Finish(j, 2, "own")
           ELSE job' = [job EXCEPT ![j].pc = "permit", ![j].todo = RunProgram(options, read.values)]
        /\ UNCHANGED <<worker, chan, permits, late, breaks>>
Acquire(j) ==
    /\ job[j].pc = "permit"
    /\ permits > 0
    /\ permits' = permits - 1
    /\ job' = [job EXCEPT ![j].pc = "spawn"]
    /\ UNCHANGED <<worker, chan, late, breaks>>
Spawn(j) ==
    /\ job[j].pc = "spawn"
    /\ IF j \in late THEN Finish(j, 124, "timeout") /\ permits' = permits + 1 /\ UNCHANGED worker
       ELSE /\ job' = [job EXCEPT ![j].pc = "receive"]
            /\ worker' = [worker EXCEPT ![j] = [NoWorker EXCEPT !.pc = "begin", !.todo = job[j].todo]]
            /\ UNCHANGED permits
    /\ UNCHANGED <<chan, late, breaks>>
SpawnFails(j) ==
    /\ job[j].pc = "spawn"
    /\ j \notin late
    /\ breaks < MaxBreaks
    /\ breaks' = breaks + 1
    /\ Finish(j, 5, "break")
    /\ permits' = permits + 1
    /\ UNCHANGED <<worker, chan, late>>

Receive(j) ==
    LET message == Head(chan[j])
    IN  /\ job[j].pc = "receive"
        /\ chan[j] # <<>>
        /\ chan' = [chan EXCEPT ![j] = Tail(@)]
        /\ IF message.k = "done" THEN Finish(j, message.code, "own")
           ELSE job' = [job EXCEPT ![j].pc = "write", ![j].held = <<message>>]
        /\ UNCHANGED <<worker, permits, late, breaks>>
WriteOut(j) ==
    /\ job[j].pc = "write"
    /\ job' = [job EXCEPT ![j].pc = "receive", ![j].held = <<>>, ![j].written = @ \o job[j].held]
    /\ UNCHANGED <<worker, chan, permits, late, breaks>>
OutputBreaks(j) ==
    /\ job[j].pc = "write"
    /\ breaks < MaxBreaks
    /\ breaks' = breaks + 1
    /\ \E code \in {1} \cup (IF job[j].held[1].k = "out" THEN {5} ELSE {}) : Finish(j, code, "break")
    /\ UNCHANGED <<worker, chan, permits, late>>
Silence(j) ==
    /\ job[j].pc = "receive"
    /\ chan[j] = <<>>
    /\ worker[j].pc = "exited"
    /\ IF j \in late THEN Finish(j, 124, "timeout") ELSE Finish(j, 1, "silence")
    /\ UNCHANGED <<worker, chan, permits, late, breaks>>

\* The execution drops the command: a permit it holds is given back, one the
\* thread has is not.
DropJob(j) ==
    /\ ~Over(j)
    /\ job' = [job EXCEPT ![j].pc = "dropped"]
    /\ permits' = IF job[j].pc = "spawn" THEN permits + 1 ELSE permits
    /\ UNCHANGED <<worker, chan, late, breaks>>
Expire(j) ==
    /\ j \notin late
    /\ late' = late \cup {j}
    /\ UNCHANGED <<job, worker, chan, permits, breaks>>

-----------------------------------------------------------------------------
(* The worker thread: run, run_inner and send.                              *)
Is(j, pc) == worker[j].pc = pc
Result(w, code, failed) == [w EXCEPT !.pc = IF failed THEN "error" ELSE "result", !.code = code, !.blocked = FALSE]
WorkerOnly(j, w) == worker' = [worker EXCEPT ![j] = w] /\ UNCHANGED <<job, chan, permits, late, breaks>>

BeginRun(j) ==
    LET w == worker[j]
    IN  /\ Is(j, "begin")
        /\ WorkerOnly(j, IF Interrupted(j) THEN Result(w, 124, FALSE) ELSE [w EXCEPT !.pc = "run"])

\* The guest comes to an end of its own; a run that does so keeps its code.
GuestEnds(j) ==
    LET w == worker[j]
        event == Head(w.todo)
    IN  /\ Is(j, "run")
        /\ event.k \in {"end", "memory", "trap"}
        /\ WorkerOnly(j, CASE event.k = "end" -> Result(w, event.code, FALSE)
                           [] event.k = "memory" -> Result(w, 5, TRUE)
                           [] event.k = "trap" -> IF Interrupted(j) THEN Result(w, 124, FALSE) ELSE Result(w, 5, TRUE))

\* The engine's epoch callback ends a guest that goes on.
GuestInterrupted(j) == Is(j, "run") /\ Interrupted(j) /\ WorkerOnly(j, Result(worker[j], 124, FALSE))

\* What the worker has to send, and where it goes on once that is sent, or
\* the receiver is gone, or the wait was interrupted.
Sending(j) == Is(j, "error") \/ Is(j, "result") \/ (Is(j, "run") /\ Head(worker[j].todo).k \in {"out", "fails"})
Message(w) == IF w.pc = "result" THEN [k |-> "done", code |-> w.code] ELSE IF w.pc = "run" /\ Head(w.todo).k = "out" THEN Head(w.todo) ELSE [k |-> "err"]
SendEnds(w, outcome) ==
    CASE w.pc = "error" -> [w EXCEPT !.pc = "result", !.blocked = FALSE]
      [] w.pc = "result" -> [w EXCEPT !.pc = "exiting", !.blocked = FALSE]
      [] w.pc = "run" /\ outcome = "trapped" -> Result(w, 124, FALSE)
      [] w.pc = "run" /\ outcome # "trapped" /\ Head(w.todo).k = "fails" -> Result(w, Head(w.todo).code, FALSE)
      [] w.pc = "run" /\ outcome = "sent" /\ Head(w.todo).k = "out" -> [w EXCEPT !.todo = Tail(@), !.blocked = FALSE]
      [] OTHER -> Result(w, 1, FALSE)

Send(j) ==
    /\ Sending(j)
    /\ ~Over(j)
    /\ Len(chan[j]) < Room
    /\ chan' = [chan EXCEPT ![j] = Append(@, Message(worker[j]))]
    /\ worker' = [worker EXCEPT ![j] = SendEnds(@, "sent")]
    /\ UNCHANGED <<job, permits, late, breaks>>
SendClosed(j) == Sending(j) /\ Over(j) /\ WorkerOnly(j, SendEnds(worker[j], "closed"))
SkipsWhenFull(j) == Sending(j) /\ ~Over(j) /\ Len(chan[j]) = Room /\ WorkerOnly(j, SendEnds(worker[j], "sent"))
WaitForRoom(j) ==
    /\ Sending(j)
    /\ ~worker[j].blocked
    /\ ~Over(j)
    /\ Len(chan[j]) = Room
    /\ WorkerOnly(j, [worker[j] EXCEPT !.blocked = TRUE])
GivesUp(j) == Interrupted(j) /\ (Is(j, "run") \/ worker[j].blocked)
SendInterrupted(j) == Sending(j) /\ GivesUp(j) /\ WorkerOnly(j, SendEnds(worker[j], "trapped"))

\* The thread ends: its sender and then its permit are dropped.
Exit(j) ==
    /\ Is(j, "exiting")
    /\ worker' = [worker EXCEPT ![j].pc = "exited"]
    /\ permits' = permits + 1
    /\ UNCHANGED <<job, chan, late, breaks>>
Panic(j) ==
    /\ worker[j].pc \in {"begin", "run"}
    /\ breaks < MaxBreaks
    /\ breaks' = breaks + 1
    /\ worker' = [worker EXCEPT ![j].pc = "exited", ![j].panicked = TRUE]
    /\ permits' = permits + 1
    /\ UNCHANGED <<job, chan, late>>

WorkerStep(j) ==
    BeginRun(j) \/ GuestEnds(j) \/ GuestInterrupted(j) \/ Send(j) \/ SendClosed(j) \/ WaitForRoom(j) \/ SendInterrupted(j) \/ Exit(j)
JobStep(j) == Parse(j) \/ Acquire(j) \/ Spawn(j) \/ Receive(j) \/ WriteOut(j) \/ Silence(j)
Breaks(j) == SpawnFails(j) \/ OutputBreaks(j) \/ Panic(j) \/ DropJob(j)

JqDone == \A j \in Jobs : Over(j) /\ Exited(j)
JqEnd == JqDone /\ UNCHANGED jqVars
JqNext == (\E j \in Jobs : JobStep(j) \/ WorkerStep(j) \/ Breaks(j) \/ Expire(j)) \/ JqEnd
JqSpec == JqInit /\ [][JqNext]_jqVars /\ \A j \in Jobs : WF_jqVars(WorkerStep(j)) /\ WF_jqVars(Expire(j))

-----------------------------------------------------------------------------
(* Every permit is free, with a command that is about to start its thread,  *)
(* or with a thread that has not exited, and the channel keeps its bound.   *)
JqTypeOK ==
    /\ permits = JqWorkers - Cardinality({j \in Jobs : job[j].pc = "spawn"}) - Cardinality({j \in Jobs : ~Exited(j)})
    /\ \A j \in Jobs : Len(chan[j]) <= Room

(* What is written of the guest's values is written in their order; a status *)
(* of the guest's own is reported only after all of them, and one that the   *)
(* deadline cut short after some.  (jq_cmd returns at the Done message, which *)
(* may be lost.)                                                            *)
JqComplete ==
    \A j \in Jobs : job[j].pc = "done" /\ job[j].why = "own" /\ job[j].todo # <<>> =>
        LET todo == job[j].todo
            written == job[j].written
            Shown(n) == n \in DOMAIN written /\ written[n] = todo[n]
        IN  /\ \A n \in DOMAIN written : written[n].k = "out" => n \in DOMAIN todo /\ Shown(n)
            /\ job[j].code # 124 => \A n \in DOMAIN todo : todo[n].k = "out" => Shown(n)

(* A worker that went silent without having panicked is reported as the     *)
(* timeout it is ("a consumer still writing when that deadline passes can   *)
(* lose the result rather than the worker failing.  That is a timeout").    *)
JqSilence == \A j \in Jobs : job[j].why = "silence" => worker[j].panicked

(* Both: what jq reports is what its guest did.                             *)
JqHonest == JqComplete /\ JqSilence

(* A worker that was started exits and gives its permit back, even if the   *)
(* command never polls its channel again: the deadline bounds every wait.   *)
NoneWorking == \A j \in Jobs : Exited(j)
JqWorkersExit == []<>NoneWorking
=============================================================================
