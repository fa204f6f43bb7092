----------------------------- MODULE JsRuntime ------------------------------
(***************************************************************************)
(* The js command: the host calls of a script, and the worker that runs    *)
(* it.                                                                     *)
(***************************************************************************)
EXTENDS Naturals, Sequences, FiniteSets, Functions, SequencesExt, TLC

(***************************************************************************)
(* What the host does for a script's file system calls                     *)
(* (handle_host_call_result in src/js/mod.rs, with Fs::read_file_bounded   *)
(* and Fs::write_file).  A call is a list of requests to the file system   *)
(* still to be made: Ask makes the first, After says what the answer       *)
(* leaves to be done.                                                      *)
(***************************************************************************)

CONSTANTS Chunk,          \* STREAM_CHUNK_BYTES
          HostInput,      \* host_input_bytes
          HostRead,       \* host_read_bytes
          HostResponse,   \* host_response_bytes
          MaxOpenFiles,   \* max_open_files
          MaxFd,          \* i32::MAX
          BinCommands, MaxPathDepth

F == INSTANCE SandboxFs
V == INSTANCE Vfs

Least(a, b) == IF a <= b THEN a ELSE b

\* HostState: the descriptors, and the call being served.
NewHost == [fds |-> <<>>, next |-> 3, todo |-> <<>>, force |-> FALSE, handle |-> 0, buf |-> <<>>, off |-> 0, err |-> "ok"]

OpenMode(flags) ==
    CASE flags = "r" -> V!ReadOnly
      [] flags = "r+" -> V!ReadWrite
      [] flags = "w" -> V!Truncate(V!Create(V!WriteOnly))
      [] flags \in {"wx", "xw"} -> V!Truncate(V!CreateNew(V!WriteOnly))
      [] flags = "w+" -> V!Truncate(V!Create(V!ReadWrite))
      [] flags \in {"wx+", "w+x", "xw+", "x+w"} -> V!Truncate(V!CreateNew(V!ReadWrite))
      [] flags = "a" -> V!AppendTo(V!Create(V!WriteOnly))
      [] flags \in {"ax", "xa"} -> V!AppendTo(V!CreateNew(V!WriteOnly))
      [] flags = "a+" -> V!AppendTo(V!Create(V!ReadWrite))
      [] flags \in {"ax+", "a+x", "xa+", "x+a"} -> V!AppendTo(V!CreateNew(V!ReadWrite))
      [] OTHER -> V!NoMode

\* The requests a call starts with; rmdir with "recursive" is an rm.
Source(path, limit) == [op |-> "source", path |-> path, limit |-> limit]
Sink(path, append) == [op |-> "sink", path |-> path, append |-> append]
RemoveTree(path, recursive) == [op |-> "remove", path |-> path, recursive |-> recursive]
Requests(call) ==
    CASE call.op = "readFile" -> <<Source(call.path, HostRead)>>
      [] call.op = "copyFile" -> <<Source(call.path, HostInput), Sink(call.to, FALSE)>>
      [] call.op = "writeFile" -> <<Sink(call.path, FALSE)>>
      [] call.op = "appendFile" -> <<Sink(call.path, TRUE)>>
      [] call.op = "mkdirp" -> [n \in 1 .. Len(call.path) |-> [op |-> "mkdirp", path |-> SubSeq(call.path, 1, n)]]
      [] call.op = "rm" -> <<RemoveTree(call.path, call.recursive)>>
      [] OTHER -> <<call>>
Begin(h, call) ==
    [h EXCEPT !.todo = Requests(call), !.force = call.op = "rm" /\ call.force, !.err = "ok",
              !.buf = IF call.op \in {"writeFile", "appendFile"} THEN call.data ELSE <<>>]

-----------------------------------------------------------------------------
\* open under the execution's own limit on open files
Opened(m, stopped, p, mode) ==
    IF F!Refused(stopped, p) = "ok" /\ ~F!IsBin(p) /\ Cardinality(DOMAIN m.handles) >= MaxOpenFiles THEN F!Error(m, "ENOSPC")
    ELSE F!Open(m, stopped, p, mode)

\* A descriptor's own position, unless the call names one.
Position(h, w) == IF w.at = <<>> THEN h.fds[w.fd].pos ELSE w.at[1]
OnFd(m, h, w, a) == IF w.fd \in DOMAIN h.fds THEN a ELSE F!Error(m, "EBADF")

Ask(m, stopped, h) ==
    LET w == h.todo[1]
    IN  CASE w.op \in {"stat", "exists", "remove", "isdir"} -> F!Stat(m, stopped, w.path)
          [] w.op \in {"readdir", "list"} -> F!Readdir(m, stopped, w.path)
          [] w.op \in {"mkdir", "mkdirp"} -> F!Mkdir(m, stopped, w.path)
          [] w.op = "rename" -> F!Rename(m, stopped, w.path, w.to)
          [] w.op = "unlink" -> F!UnlinkFile(m, stopped, w.path)
          [] w.op = "rmdir" -> F!Rmdir(m, stopped, w.path)
          [] w.op = "open" -> IF Cardinality(DOMAIN h.fds) >= MaxOpenFiles \/ h.next = MaxFd THEN F!Error(m, "ENOSPC")
                              ELSE IF OpenMode(w.flags) = V!NoMode THEN F!Error(m, "EINVAL")
                              ELSE Opened(m, stopped, w.path, OpenMode(w.flags))
          [] w.op = "read" -> OnFd(m, h, w, F!ReadAt(m, stopped, h.fds[w.fd].handle, Position(h, w), Least(w.len, HostRead)))
          [] w.op = "write" -> OnFd(m, h, w, F!WriteAt(m, stopped, h.fds[w.fd].handle, Position(h, w), w.data))
          [] w.op = "ftruncate" -> OnFd(m, h, w, F!TruncateTo(m, stopped, h.fds[w.fd].handle, w.len))
          [] w.op = "close" -> OnFd(m, h, w, F!Close(m, stopped, h.fds[w.fd].handle))
          [] w.op = "source" -> IF F!IsBin(w.path) THEN F!Stat(m, stopped, w.path) ELSE Opened(m, stopped, w.path, V!ReadOnly)
          [] w.op = "fill" -> F!ReadAt(m, stopped, h.handle, Len(h.buf), Least(Chunk, w.limit - Len(h.buf) + 1))
          [] w.op = "sink" -> IF Len(h.buf) > HostInput THEN F!Error(m, "EFBIG")
                              ELSE Opened(m, stopped, w.path, IF w.append THEN OpenMode("a") ELSE OpenMode("w"))
          [] w.op = "drain" -> F!WriteAt(m, stopped, h.handle, h.off, SubSeq(h.buf, h.off + 1, Least(Len(h.buf), h.off + Chunk)))
          [] w.op = "shut" -> F!Close(m, stopped, h.handle)
          [] w.op = "discard" -> F!Abort(m, h.handle)

\* The answer when the backend fails: a handle that was to be closed is gone all the same.
Fault(m, h) ==
    LET w == h.todo[1]
        gone == IF w.op \in {"shut", "discard"} THEN F!Abort(m, h.handle).v
                ELSE IF w.op = "close" /\ w.fd \in DOMAIN h.fds THEN F!Abort(m, h.fds[w.fd].handle).v ELSE m
    IN  F!Error(gone, "EIO")

-----------------------------------------------------------------------------
Answer(h, res) == [h EXCEPT !.todo = <<>>, !.handle = 0, !.off = 0, !.err = IF h.force /\ res = "ENOENT" THEN "ok" ELSE res]
Then(h, requests) == [h EXCEPT !.todo = requests \o Tail(@)]
Todo(op) == [op |-> op]

\* read_file_bounded
Sourced(h, w, a) ==
    IF F!IsBin(w.path)
    THEN IF a.val.kind = "dir" THEN Answer(h, "EISDIR") ELSE [Then(h, <<>>) EXCEPT !.buf = <<>>]
    ELSE [Then(h, <<[op |-> "fill", limit |-> w.limit]>>) EXCEPT !.handle = a.val, !.buf = <<>>]
Filled(h, w, a) ==
    CASE a.res # "ok" -> [Then(h, <<Todo("shut")>>) EXCEPT !.err = a.res]
      [] a.res = "ok" /\ a.val = <<>> -> Then(h, <<Todo("shut")>>)
      [] a.res = "ok" /\ Len(a.val) > w.limit - Len(h.buf) -> [Then(h, <<Todo("shut")>>) EXCEPT !.err = "EFBIG"]
      [] OTHER -> [h EXCEPT !.buf = @ \o a.val]

\* write_file
Drain(h) == IF h.off < Len(h.buf) THEN Then(h, <<Todo("drain")>>) ELSE Then(h, <<Todo("shut")>>)
Drained(h, a) ==
    IF a.res # "ok" \/ a.val = 0 THEN [Then(h, <<Todo("discard")>>) EXCEPT !.err = IF a.res # "ok" THEN a.res ELSE "ENOSPC"]
    ELSE Drain([h EXCEPT !.off = @ + a.val])
Shut(h, a) == IF h.err # "ok" \/ a.res # "ok" THEN Answer(h, IF h.err # "ok" THEN h.err ELSE a.res)
              ELSE [Then(h, <<>>) EXCEPT !.handle = 0, !.off = 0]

\* remove_path stats every entry; mkdir_recursive accepts a directory that exists.
Removing(h, w, a) ==
    IF a.val.kind = "file" THEN Then(h, <<[op |-> "unlink", path |-> w.path]>>)
    ELSE IF ~w.recursive THEN Answer(h, "EISDIR") ELSE Then(h, <<[op |-> "list", path |-> w.path]>>)
Listed(h, w, a) ==
    Then(h, SetToSeq({RemoveTree(Append(w.path, name), TRUE) : name \in a.val}) \o <<[op |-> "rmdir", path |-> w.path]>>)

\* Only a call that names no position moves the descriptor's.
Moved(h, w, n) == IF w.at = <<>> THEN [h EXCEPT !.fds[w.fd].pos = @ + n] ELSE h
Without(h, fd) == [h EXCEPT !.fds = Restrict(@, DOMAIN @ \ {fd})]

\* The requests that deal with a failure themselves.
Handled == {"fill", "drain", "shut", "discard", "exists", "close"}
After(h, a) ==
    LET w == h.todo[1]
    IN  CASE w.op = "fill" -> Filled(h, w, a)
          [] w.op = "drain" -> Drained(h, a)
          [] w.op = "shut" -> Shut(h, a)
          [] w.op = "discard" -> Answer(h, h.err)
          [] w.op = "exists" -> Then(h, <<>>)
          [] w.op = "close" -> IF a.res = "ok" THEN Then(Without(h, w.fd), <<>>) ELSE Answer(Without(h, w.fd), a.res)
          [] w.op \notin Handled /\ a.res # "ok" ->
                IF w.op = "mkdirp" /\ a.res = "EEXIST" THEN Then(h, <<[op |-> "isdir", path |-> w.path]>>) ELSE Answer(h, a.res)
          [] a.res = "ok" /\ w.op = "isdir" -> IF a.val.kind = "dir" THEN Then(h, <<>>) ELSE Answer(h, "EEXIST")
          [] a.res = "ok" /\ w.op = "remove" -> Removing(h, w, a)
          [] a.res = "ok" /\ w.op = "list" -> Listed(h, w, a)
          [] a.res = "ok" /\ w.op = "source" -> Sourced(h, w, a)
          [] a.res = "ok" /\ w.op = "sink" -> Drain([h EXCEPT !.handle = a.val, !.off = 0])
          [] a.res = "ok" /\ w.op = "open" -> [Then(h, <<>>) EXCEPT !.fds = h.next :> [handle |-> a.val, pos |-> 0] @@ @, !.next = @ + 1]
          [] a.res = "ok" /\ w.op = "read" -> Then(Moved(h, w, Len(a.val)), <<>>)
          [] a.res = "ok" /\ w.op = "write" -> Then(Moved(h, w, a.val), <<>>)
          [] OTHER -> Then(h, <<>>)

-----------------------------------------------------------------------------
(***************************************************************************)
(* The js command (src/js/mod.rs): the command future on one side, and on  *)
(* the other the thread that runs the script, serves its host calls and    *)
(* owns the worker's permit until it exits.  Output crosses a channel of   *)
(* one chunk that is acknowledged after the write downstream.  A script    *)
(* that ends by itself has its open descriptors closed; one that the host  *)
(* cut short has them aborted.                                             *)
(***************************************************************************)

CONSTANTS Scripts,        \* the command lines considered
          Start,          \* the mount table they start with
          SourceBytes,    \* source_bytes
          MaxBreaks       \* bound on failures of the host

VARIABLES fs,             \* the mount table
          host,           \* the descriptors and the call being served
          cmd,            \* the command future
          js,             \* the worker thread
          chunk,          \* the output channel: at most one chunk
          permit,         \* who holds the worker's permit
          stopped,        \* the execution is cancelled or past its deadline
          breaks          \* failures of the host so far

jsVars == <<fs, host, cmd, js, chunk, permit, stopped, breaks>>

JsInit ==
    /\ fs = Start
    /\ host = NewHost
    /\ \E line \in Scripts : cmd = [pc |-> "permit", line |-> line, code |-> 0, shown |-> <<>>]
    /\ js = [pc |-> "none", todo |-> <<>>, out |-> <<>>, code |-> 0, said |-> <<>>, cut |-> FALSE, mark |-> <<>>, left |-> {}, lost |-> {}]
    /\ chunk = <<>>
    /\ permit \in {"free", "other"}
    /\ stopped = FALSE
    /\ breaks = 0

Breaks == breaks < MaxBreaks /\ breaks' = breaks + 1
Gone == cmd.pc \in {"done", "dropped"}

\* What a reader of the file system sees.
Seen(m) == [n \in DOMAIN m.mounts |-> <<m.mounts[n].tree, Restrict(m.mounts[n].data, V!Linked(m.mounts[n]))>>]
InnerOf(handle) == LET f == fs.handles[handle] IN fs.mounts[f.mount].open[f.inner]
Published(m, l) == V!Kind(m.mounts[l.mount], l.path) = "file" /\ V!Ino(m.mounts[l.mount], l.path) = l.ino

-----------------------------------------------------------------------------
(* The command: js_command and Invocation::parse.                          *)
Return(code) == cmd' = [cmd EXCEPT !.pc = "done", !.code = code]
Refuse == Return(IF stopped THEN 124 ELSE 1) /\ permit' = "free"

Acquire ==
    /\ cmd.pc = "permit" /\ permit = "free"
    /\ permit' = "command"
    /\ cmd' = [cmd EXCEPT !.pc = "parse"]
    /\ UNCHANGED <<fs, host, js, chunk, stopped, breaks>>
AcquireTimesOut ==
    /\ cmd.pc = "permit" /\ stopped
    /\ Return(124)
    /\ UNCHANGED <<fs, host, js, chunk, permit, stopped, breaks>>

\* "-e" carries its source; a file is read first; anything else is a usage error.
Parse ==
    /\ cmd.pc = "parse"
    /\ \/ /\ cmd.line.kind = "file"
          /\ cmd' = [cmd EXCEPT !.pc = "source"]
          /\ host' = [host EXCEPT !.todo = <<Source(cmd.line.path, SourceBytes)>>]
          /\ UNCHANGED permit
       \/ cmd.line.kind = "eval" /\ cmd.line.len <= SourceBytes /\ cmd' = [cmd EXCEPT !.pc = "spawn"] /\ UNCHANGED <<host, permit>>
       \/ cmd.line.kind = "eval" /\ cmd.line.len > SourceBytes /\ Refuse /\ UNCHANGED host
       \/ cmd.line.kind = "usage" /\ Refuse /\ UNCHANGED host
    /\ UNCHANGED <<fs, js, chunk, stopped, breaks>>

ReadSource ==
    /\ cmd.pc = "source" /\ host.todo # <<>>
    /\ \E a \in {Ask(fs, stopped, host)} : fs' = a.v /\ host' = After(host, a)
    /\ UNCHANGED <<cmd, js, chunk, permit, stopped, breaks>>
SourceRead ==
    /\ cmd.pc = "source" /\ host.todo = <<>>
    /\ IF host.err = "ok" /\ cmd.line.utf8 THEN cmd' = [cmd EXCEPT !.pc = "spawn"] /\ UNCHANGED permit ELSE Refuse
    /\ host' = NewHost
    /\ UNCHANGED <<fs, js, chunk, stopped, breaks>>

Spawn ==
    /\ cmd.pc = "spawn"
    /\ cmd' = [cmd EXCEPT !.pc = "receive"]
    /\ js' = [js EXCEPT !.pc = "begin", !.todo = cmd.line.script]
    /\ permit' = "worker"
    /\ UNCHANGED <<fs, host, chunk, stopped, breaks>>
SpawnFails ==
    /\ cmd.pc = "spawn" /\ Breaks
    /\ Return(1) /\ permit' = "free"
    /\ UNCHANGED <<fs, host, js, chunk, stopped>>

\* The acknowledgement reaches a worker that still waits for it.
Settle(state) == chunk' = IF js.pc = "ack" THEN <<[chunk[1] EXCEPT !.state = state]>> ELSE <<>>
Receive ==
    /\ cmd.pc = "receive" /\ chunk # <<>> /\ chunk[1].state = "sent"
    /\ chunk' = <<[chunk[1] EXCEPT !.state = "taken"]>>
    /\ UNCHANGED <<fs, host, cmd, js, permit, stopped, breaks>>
WriteOut ==
    /\ cmd.pc = "receive" /\ chunk # <<>> /\ chunk[1].state = "taken"
    /\ \/ /\ cmd' = [cmd EXCEPT !.shown = Append(@, chunk[1].data)]
          /\ Settle("acked")
          /\ UNCHANGED breaks
       \/ Breaks /\ UNCHANGED cmd /\ \E state \in {"broken", "failed"} : Settle(state)
    /\ UNCHANGED <<fs, host, js, permit, stopped>>
Result ==
    /\ cmd.pc = "receive" /\ chunk = <<>> /\ js.pc = "exited"
    /\ Return(js.code)
    /\ UNCHANGED <<fs, host, js, chunk, permit, stopped, breaks>>

\* The future is dropped, and ExecutionGuard with it or later: it cancels, which abandons every handle.
DropCommand ==
    /\ ~Gone /\ Breaks
    /\ cmd' = [cmd EXCEPT !.pc = "dropped"]
    /\ permit' = IF permit = "command" THEN "free" ELSE permit
    /\ UNCHANGED <<fs, host, js, chunk, stopped>>
Abandoned(m) == FoldSet(LAMBDA h, n : F!Abort(n, h).v, m, DOMAIN m.handles)
Cancel ==
    /\ Gone /\ (~stopped \/ fs.handles # <<>>)
    /\ stopped' = TRUE
    /\ fs' = Abandoned(fs)
    /\ UNCHANGED <<host, cmd, js, chunk, permit, breaks>>
Expire ==
    /\ ~stopped
    /\ stopped' = TRUE
    /\ UNCHANGED <<fs, host, cmd, js, chunk, permit, breaks>>
OtherExits ==
    /\ permit = "other"
    /\ permit' = "free"
    /\ UNCHANGED <<fs, host, cmd, js, chunk, stopped, breaks>>

-----------------------------------------------------------------------------
(* The worker: run_quickjs_inner and run_guest.                            *)
Worker(next) == js' = next /\ UNCHANGED <<cmd, permit, stopped>>
WorkerOnly(next) == Worker(next) /\ UNCHANGED <<fs, host, chunk, breaks>>

\* The host ends the run: what is open is aborted by HostState::drop.
Cut(code) == [js EXCEPT !.pc = "drop", !.code = code, !.cut = TRUE, !.mark = Seen(fs)]
Interrupt == Cut(124)
Failed(code) == Cut(IF stopped THEN 124 ELSE code)
Finished(code) == [js EXCEPT !.pc = "ended", !.code = code]
Step == js.todo[1]
Advance == [js EXCEPT !.todo = Tail(@), !.pc = "run"]
\* An error the script does not catch ends it, by itself, with status 1.
Answered(res) == IF res = "ok" \/ Step.caught THEN Advance ELSE Finished(1)

BeginRun ==
    /\ js.pc = "begin"
    /\ \/ WorkerOnly(IF stopped THEN Interrupt ELSE [js EXCEPT !.pc = "run"])
       \/ ~stopped /\ Breaks /\ Worker(Cut(1)) /\ UNCHANGED <<fs, host, chunk>>

Running == js.pc = "run" /\ host.todo = <<>>
Guest(op) == Running /\ js.todo # <<>> /\ Step.op = op

EndScript == Running /\ js.todo = <<>> /\ WorkerOnly(Finished(0))
ExitScript == Guest("exit") /\ WorkerOnly(Finished(Step.code))
\* The guest's own code runs for ever, or until the epoch or should_interrupt stops it.
Interrupted == Running /\ stopped /\ WorkerOnly(Interrupt)
Trapped == Guest("trap") /\ WorkerOnly(Failed(1))
MemoryLimit == Guest("memory") /\ WorkerOnly(Cut(1))

HostCall ==
    /\ Running /\ js.todo # <<>> /\ Step.op \notin {"exit", "trap", "memory", "spin", "print", "sleep", "callback"}
    /\ IF stopped THEN Worker(Interrupt) /\ UNCHANGED host ELSE Worker(js) /\ host' = Begin(host, Step)
    /\ UNCHANGED <<fs, chunk, breaks>>
\* The answer goes back to the script, even when the execution has been stopped meanwhile.  One
\* that carries more bytes or names than a response holds is replaced by an error, whatever the
\* call has done.
Carries(h, a) ==
    CASE Step.op = "readFile" -> Len(h.buf)
      [] Step.op = "read" -> Len(a.val)
      [] Step.op = "readdir" -> Cardinality(a.val)
      [] OTHER -> 0
Response(h, a) == IF h.err = "ok" /\ Carries(h, a) > HostResponse THEN "E2BIG" ELSE h.err
Request ==
    /\ js.pc = "run" /\ host.todo # <<>>
    /\ \E fails \in BOOLEAN : \E a \in {IF fails THEN Fault(fs, host) ELSE Ask(fs, stopped, host)} : \E h \in {After(host, a)} :
          /\ IF fails THEN Breaks ELSE UNCHANGED breaks
          /\ fs' = a.v
          /\ host' = h
          /\ Worker(IF h.todo = <<>> THEN Answered(Response(h, a)) ELSE js)
    /\ UNCHANGED chunk

\* block_on_host_timeout: a global or fetch, under a deadline before the execution's own.
CallBack == Guest("callback") /\ WorkerOnly(IF stopped THEN Interrupt ELSE [js EXCEPT !.pc = "calling"])
CallReturns == js.pc = "calling" /\ ~stopped /\ \E res \in {"ok", "error"} : WorkerOnly(Answered(res))
CallWaits == js.pc = "calling" /\ WorkerOnly(js)
CallTimesOut == js.pc = "calling" /\ WorkerOnly(Answered("error"))
CallPanics == js.pc = "calling" /\ Breaks /\ Worker(Cut(1)) /\ UNCHANGED <<fs, host, chunk>>

\* sleep_until_timer
Sleep == Guest("sleep") /\ WorkerOnly([js EXCEPT !.pc = "asleep"])
Wake == js.pc = "asleep" /\ WorkerOnly(IF stopped THEN Interrupt ELSE Advance)

\* capture_output
PrintOut == Guest("print") /\ WorkerOnly([js EXCEPT !.pc = "print", !.out = Step.data, !.said = @ \o Step.data])
Send ==
    /\ js.pc = "print" /\ js.out # <<>> /\ (chunk = <<>> \/ Gone)
    /\ CASE stopped -> Worker(Interrupt) /\ UNCHANGED chunk
         [] ~stopped /\ cmd.pc # "receive" -> Worker(Failed(141)) /\ UNCHANGED chunk
         [] OTHER -> chunk' = <<[data |-> js.out[1], state |-> "sent"]>> /\ Worker([js EXCEPT !.pc = "ack", !.out = Tail(@)])
    /\ UNCHANGED <<fs, host, breaks>>
Printed == js.pc = "print" /\ js.out = <<>> /\ WorkerOnly(Advance)
\* A write that failed ends the run: a broken pipe with 141, any other error with 1.
Settled(state) ==
    CASE state = "acked" -> [js EXCEPT !.pc = "print"]
      [] state = "failed" -> Failed(1)
      [] state = "broken" \/ (state \in {"sent", "taken"} /\ Gone) -> Failed(141)
      [] OTHER -> Interrupt
Answers == {"acked", "broken", "failed"}
\* A slip: the chunk is acknowledged when it is received, before it is written.
AckOnReceive ==
    /\ js.pc = "ack"
    /\ chunk[1].state \in Answers \cup {"taken"} \/ Gone \/ stopped
    /\ Worker(Settled(IF chunk[1].state = "taken" THEN "acked" ELSE chunk[1].state))
    /\ chunk' = IF chunk[1].state \in Answers \/ Gone THEN <<>> ELSE chunk
    /\ UNCHANGED <<fs, host, breaks>>
Ack ==
    /\ js.pc = "ack"
    /\ chunk[1].state \in Answers \/ Gone \/ stopped
    /\ Worker(Settled(chunk[1].state))
    /\ chunk' = IF chunk[1].state \in Answers \/ Gone THEN <<>> ELSE chunk
    /\ UNCHANGED <<fs, host, breaks>>

-----------------------------------------------------------------------------
(* The end: finish_files, with the descriptors closed or aborted in turn.  *)
Staging(h) == h \in DOMAIN fs.handles /\ fs.mounts[fs.handles[h].mount].staged /\ InnerOf(h).mode.write /\ InnerOf(h).dirty
Unpublished == {[mount |-> fs.handles[h].mount, path |-> InnerOf(h).path, ino |-> InnerOf(h).ino] :
                   h \in {host.fds[fd].handle : fd \in {d \in DOMAIN host.fds : Staging(host.fds[d].handle)}}}
EndRun ==
    /\ js.pc = "ended"
    /\ WorkerOnly(IF stopped THEN Interrupt ELSE [js EXCEPT !.pc = "finish", !.left = Unpublished])

FirstFd == Min(DOMAIN host.fds)
CloseFd(a, failed) ==
    /\ fs' = a.v
    /\ host' = Without(host, FirstFd)
    /\ Worker([js EXCEPT !.code = IF failed THEN 1 ELSE @,
                         !.lost = IF failed THEN @ \cup {l \in js.left : ~Published(a.v, l)} ELSE @])
    /\ UNCHANGED chunk
FinishFiles ==
    /\ js.pc = "finish" /\ host.fds # <<>>
    /\ \E handle \in {host.fds[FirstFd].handle} :
          \/ \E a \in {F!Close(fs, stopped, handle)} : CloseFd(a, a.res # "ok") /\ UNCHANGED breaks
          \/ Breaks /\ CloseFd(F!Abort(fs, handle), TRUE)
AbortFiles ==
    /\ js.pc = "drop" /\ host.fds # <<>>
    /\ CloseFd(F!Abort(fs, host.fds[FirstFd].handle), FALSE) /\ UNCHANGED breaks
Exit ==
    /\ js.pc \in {"finish", "drop"} /\ host.fds = <<>>
    /\ js' = [js EXCEPT !.pc = "exited"]
    /\ permit' = "free"
    /\ UNCHANGED <<fs, host, cmd, chunk, stopped, breaks>>

-----------------------------------------------------------------------------
CommandStep == Acquire \/ AcquireTimesOut \/ Parse \/ ReadSource \/ SourceRead \/ Spawn \/ Receive \/ WriteOut \/ Result
WorkerStep == BeginRun \/ EndScript \/ ExitScript \/ Trapped \/ MemoryLimit \/ HostCall \/ Request \/ CallBack \/ CallTimesOut \/ Sleep \/ Wake
              \/ PrintOut \/ Send \/ Printed \/ Ack \/ EndRun \/ FinishFiles \/ AbortFiles \/ Exit
JsDone == Gone /\ js.pc \in {"none", "exited"} /\ stopped /\ permit = "free"
JsEnd == JsDone /\ UNCHANGED jsVars
JsNext == CommandStep \/ WorkerStep \/ Interrupted \/ CallReturns \/ CallPanics \/ SpawnFails \/ DropCommand \/ Cancel \/ Expire \/ OtherExits \/ JsEnd

\* The threads run and the deadline passes; nothing is assumed of the other worker.
JsSpec == JsInit /\ [][JsNext]_jsVars /\ WF_jsVars(CommandStep) /\ WF_jsVars(WorkerStep) /\ WF_jsVars(Interrupted) /\ WF_jsVars(Expire)

-----------------------------------------------------------------------------
(* Properties.                                                             *)

\* The worker's permit has one holder and is back when the worker exited, whatever became of
\* the command (js_command moves it into the thread); every open handle belongs to one
\* descriptor or to the call being served, and none is left when the worker is gone.
JsTypeOK ==
    /\ permit \in {"free", "other", "command", "worker"}
    /\ permit = "worker" <=> js.pc \notin {"none", "exited"}
    /\ permit = "command" => cmd.pc \in {"parse", "source", "spawn"}
    /\ DOMAIN host.fds \subseteq 3 .. host.next - 1
    /\ Cardinality(DOMAIN fs.handles) <= MaxOpenFiles
    /\ \A h \in DOMAIN fs.handles : h = host.handle \/ \E fd \in DOMAIN host.fds : host.fds[fd].handle = h
    /\ \A a, b \in DOMAIN host.fds : host.fds[a].handle = host.fds[b].handle => a = b
    /\ js.pc = "exited" \/ (cmd.pc = "done" /\ js.pc = "none") => fs.handles = <<>>

\* A run the host cut short (deadline, cancellation, broken pipe, trap, memory limit, panic of a
\* callback) changes nothing more that a reader sees: what its descriptors staged is rolled
\* back.  A script that ended by itself in time, whatever status it chose, has every staged
\* descriptor it left open published, or reports the failure with status 1.
JsSettled ==
    /\ js.cut => Seen(fs) = js.mark
    /\ js.pc = "exited" /\ ~js.cut /\ ~stopped => \A l \in js.left : Published(fs, l) \/ (l \in js.lost /\ js.code = 1)

\* Output reaches its destination in the order the script printed it, and all of it when the
\* script ended by itself: print returns after the write downstream.
JsOutput ==
    /\ IsPrefix(cmd.shown, js.said)
    /\ js.pc = "exited" /\ ~js.cut => cmd.shown = js.said

\* A worker that was started exits, even when its command is dropped or a callback never
\* returns, and a command that is not dropped returns.
JsOver == Gone /\ js.pc \in {"none", "exited"}
JsEnds == []<>JsOver
=============================================================================
