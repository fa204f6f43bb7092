------------------------------ MODULE Redirect ------------------------------
(***************************************************************************)
(* One redirect file of a stage: RedirectFile and RedirectWriter           *)
(* (src/src/sandbox/mod.rs).  Several descriptors may write to it (>file   *)
(* 2>&1), and each of them is a sink that the stage finishes at its end.   *)
(*                                                                         *)
(* poll_write waits for the lock of the file, takes one chunk from its     *)
(* caller and returns; a spawned task that owns the lock then writes the   *)
(* chunk.  The error of a write is therefore kept for later calls.  The    *)
(* lock is tokio's: first come, first served, and a RedirectWriter whose   *)
(* write was given up keeps its place.                                     *)
(*                                                                         *)
(* A byte is <<descriptor, chunk, position>>.  The handle below is the one *)
(* whose life HandleLifecycle models.                                      *)
(***************************************************************************)
EXTENDS Integers, Sequences, Functions

CONSTANTS
  Writers,    \* descriptors of the file
  Sinks,      \* FileSinks of the file
  MaxChunks,  \* bound: chunks a descriptor writes
  ChunkSize,  \* STREAM_CHUNK_BYTES
  Nobody, Task

RedirectAssumption ==
  /\ MaxChunks \in Nat /\ ChunkSize \in Nat \ {0}
  /\ Writers \intersect Sinks = {}
  /\ Nobody # Task /\ {Nobody, Task} \intersect (Writers \union Sinks) = {}

VARIABLES
  writer,     \* what each descriptor does
  chunks,     \* chunks each descriptor has written
  queue,      \* who waits for the lock
  holder,     \* who has it
  task,       \* the bytes the spawned task has still to write
  checking,   \* it has written some of them and is at its checkpoint
  handle,     \* RedirectState::handle: "open" until a finish takes it
  offset,     \* RedirectState::offset
  error,      \* RedirectState::error, present or not
  sink,       \* where each finish is, and what it returned
  file,       \* the contents the backend has for the handle
  full,       \* the file system accepts no more bytes
  cancelled,  \* the execution is cancelled, or its time is up
  accepted    \* history: the chunks that poll_write has accepted

locking == <<queue, holder>>
state == <<handle, offset, error>>
world == <<full, cancelled>>
vars == <<writer, chunks, locking, task, checking, state, sink, file, world, accepted>>

\* prepare_redirects opens the file, truncated.
Init ==
  /\ writer = [w \in Writers |-> "idle"]
  /\ chunks = [w \in Writers |-> 0]
  /\ queue = <<>> /\ holder = Nobody
  /\ task = <<>> /\ checking = FALSE
  /\ handle = "open" /\ offset = 0 /\ error = FALSE
  /\ sink = [s \in Sinks |-> "idle"]
  /\ file = <<>> /\ full = FALSE /\ cancelled = FALSE
  /\ accepted = <<>>

Bytes(w, n) == [k \in 1..ChunkSize |-> <<w, n, k>>]

\* The lock goes to the first that waits.
Granted(x) == holder = Nobody /\ queue # <<>> /\ Head(queue) = x

\* write_at of the backend.
Overlay(old, at, new) ==
  [k \in 1..(IF Len(old) > at + Len(new) THEN Len(old) ELSE at + Len(new)) |->
     IF k > at /\ k <= at + Len(new) THEN new[k - at] ELSE old[k]]

-----------------------------------------------------------------------------
(***************************************************************************)
(* Mutants: each is a plausible slip in the definition it stands for.      *)
(***************************************************************************)

AcceptUnlocked(w) ==
  /\ writer[w] = "waiting" /\ Granted(w) /\ ~error /\ handle = "open"
  /\ chunks[w] < MaxChunks
  /\ task' = Bytes(w, chunks[w] + 1)
  /\ chunks' = [chunks EXCEPT ![w] = @ + 1]
  /\ accepted' = Append(accepted, <<w, chunks[w] + 1>>)
  /\ error' = TRUE
  /\ writer' = [writer EXCEPT ![w] = "idle"]
  /\ queue' = Tail(queue)
  /\ UNCHANGED <<holder, checking, handle, offset, sink, file, world>>

FinishUnreported(s) ==
  /\ sink[s] \in {"close", "abort"}
  /\ \E fails \in BOOLEAN :
       handle' = IF sink[s] = "abort" \/ cancelled THEN "aborted" ELSE IF fails THEN "lost" ELSE "closed"
  /\ sink' = [sink EXCEPT ![s] = IF error THEN "failed" ELSE "succeeded"]
  /\ holder' = Nobody
  /\ UNCHANGED <<error, offset, writer, chunks, queue, task, checking, file, world, accepted>>

-----------------------------------------------------------------------------
(***************************************************************************)
(* The descriptors.                                                        *)
(***************************************************************************)
\* poll_write or poll_flush waits for the lock, in the place it already has.
Wait(w) ==
  /\ writer[w] = "idle"
  /\ writer' = [writer EXCEPT ![w] = "waiting"]
  /\ queue' = IF w \in Range(queue) THEN queue ELSE Append(queue, w)
  /\ UNCHANGED <<chunks, holder, task, checking, state, sink, file, world, accepted>>

\* The command drops the future of the call.
GiveUp(w) ==
  /\ writer[w] = "waiting"
  /\ writer' = [writer EXCEPT ![w] = "idle"]
  /\ UNCHANGED <<chunks, locking, task, checking, state, sink, file, world, accepted>>

\* poll_write takes a chunk and hands the lock to the task it spawns; the
\* error stands until the task has written the whole chunk.
Accept(w) ==
  /\ writer[w] = "waiting" /\ Granted(w) /\ ~error /\ handle = "open"
  /\ chunks[w] < MaxChunks
  /\ task' = Bytes(w, chunks[w] + 1)
  /\ chunks' = [chunks EXCEPT ![w] = @ + 1]
  /\ accepted' = Append(accepted, <<w, chunks[w] + 1>>)
  /\ error' = TRUE
  /\ writer' = [writer EXCEPT ![w] = "idle"]
  /\ queue' = Tail(queue) /\ holder' = Task
  /\ UNCHANGED <<checking, handle, offset, sink, file, world>>

\* poll_write returns the error or finds no handle; poll_flush returns.
Answer(w) ==
  /\ writer[w] = "waiting" /\ Granted(w)
  /\ writer' = [writer EXCEPT ![w] = "idle"]
  /\ queue' = Tail(queue)
  /\ UNCHANGED <<chunks, holder, task, checking, state, sink, file, world, accepted>>

\* A dropped RedirectWriter leaves the queue.
DropWriter(w) ==
  /\ writer[w] \in {"idle", "waiting"}
  /\ writer' = [writer EXCEPT ![w] = "dropped"]
  /\ queue' = SelectSeq(queue, LAMBDA x : x # w)
  /\ UNCHANGED <<chunks, holder, task, checking, state, sink, file, world, accepted>>

-----------------------------------------------------------------------------
(***************************************************************************)
(* The spawned task.                                                       *)
(***************************************************************************)
\* write_at writes some of the bytes, or none when there is no room or the
\* execution is cancelled; the task then ends and the error stays.
WriteAt ==
  /\ holder = Task /\ ~checking
  /\ \/ /\ ~cancelled /\ ~full
        /\ \E n \in 1..Len(task) :
             /\ file' = Overlay(file, offset, SubSeq(task, 1, n))
             /\ offset' = offset + n
             /\ task' = SubSeq(task, n + 1, Len(task))
        /\ checking' = TRUE
        /\ UNCHANGED holder
     \/ /\ cancelled \/ full
        /\ task' = <<>> /\ holder' = Nobody
        /\ UNCHANGED <<file, offset, checking>>
  /\ UNCHANGED <<writer, chunks, queue, handle, error, sink, world, accepted>>

\* The checkpoint ends the task when the execution is cancelled; otherwise it
\* goes on, and after the last byte the error goes.
Checkpoint ==
  /\ holder = Task /\ checking
  /\ checking' = FALSE
  /\ \/ /\ cancelled
        /\ task' = <<>> /\ holder' = Nobody
        /\ UNCHANGED error
     \/ /\ ~cancelled /\ task = <<>>
        /\ error' = FALSE /\ holder' = Nobody
        /\ UNCHANGED task
     \/ /\ ~cancelled /\ task # <<>>
        /\ UNCHANGED <<error, holder, task>>
  /\ UNCHANGED <<writer, chunks, queue, handle, offset, sink, file, world, accepted>>

\* The backend fails, or the task panics or is discarded with the runtime.
LoseTask ==
  /\ holder = Task
  /\ task' = <<>> /\ checking' = FALSE /\ holder' = Nobody
  /\ UNCHANGED <<writer, chunks, queue, state, sink, file, world, accepted>>

-----------------------------------------------------------------------------
(***************************************************************************)
(* RedirectFile::finish, called for one sink after the other.              *)
(***************************************************************************)
Returned == {"succeeded", "failed"}

\* The command has returned; it may have left a descriptor to a task of its own.
FinishCall(s) ==
  /\ sink[s] = "idle"
  /\ \A t \in Sinks : sink[t] \in {"idle"} \union Returned
  /\ sink' = [sink EXCEPT ![s] = "waiting"]
  /\ queue' = Append(queue, s)
  /\ UNCHANGED <<writer, chunks, holder, task, checking, state, file, world, accepted>>

\* The first finish takes the handle, to discard or to commit the file.
FinishTake(s) ==
  /\ sink[s] = "waiting" /\ Granted(s) /\ handle = "open"
  /\ handle' = "taken"
  /\ sink' = [sink EXCEPT ![s] = IF error \/ cancelled THEN "abort" ELSE "close"]
  /\ queue' = Tail(queue) /\ holder' = s
  /\ UNCHANGED <<writer, chunks, task, checking, offset, error, file, world, accepted>>

\* Fs::abort or Fs::close (which aborts when the execution is cancelled); each
\* may fail, and the error is kept.
FinishHandle(s) ==
  /\ sink[s] \in {"close", "abort"}
  /\ \E fails \in BOOLEAN :
       /\ handle' = IF sink[s] = "abort" \/ cancelled THEN "aborted" ELSE IF fails THEN "lost" ELSE "closed"
       /\ error' = (error \/ fails)
  /\ sink' = [sink EXCEPT ![s] = IF error' THEN "failed" ELSE "succeeded"]
  /\ holder' = Nobody
  /\ UNCHANGED <<offset, writer, chunks, queue, task, checking, file, world, accepted>>

\* A later finish only returns what is known.
FinishAgain(s) ==
  /\ sink[s] = "waiting" /\ Granted(s) /\ handle # "open"
  /\ sink' = [sink EXCEPT ![s] = IF error THEN "failed" ELSE "succeeded"]
  /\ queue' = Tail(queue)
  /\ UNCHANGED <<writer, chunks, holder, task, checking, state, file, world, accepted>>

-----------------------------------------------------------------------------
Fill ==
  /\ ~full /\ full' = TRUE
  /\ UNCHANGED <<writer, chunks, locking, task, checking, state, sink, file, cancelled, accepted>>

Cancel ==
  /\ ~cancelled /\ cancelled' = TRUE
  /\ UNCHANGED <<writer, chunks, locking, task, checking, state, sink, file, full, accepted>>

Finished ==
  /\ \A s \in Sinks : sink[s] \in Returned
  /\ \A w \in Writers : writer[w] = "dropped"
  /\ UNCHANGED vars

TaskRuns == WriteAt \/ Checkpoint
FinishRuns(s) == FinishTake(s) \/ FinishHandle(s) \/ FinishAgain(s)

Next ==
  \/ \E w \in Writers : Wait(w) \/ GiveUp(w) \/ Accept(w) \/ Answer(w) \/ DropWriter(w)
  \/ TaskRuns \/ LoseTask
  \/ \E s \in Sinks : FinishCall(s) \/ FinishRuns(s)
  \/ Fill \/ Cancel
  \/ Finished

Spec == Init /\ [][Next]_vars

\* The runtime runs the spawned task and the stage's task; the backend
\* answers.  Nothing is assumed of the command.
FairSpec ==
  /\ Spec
  /\ WF_vars(TaskRuns)
  /\ \A s \in Sinks : WF_vars(FinishRuns(s))

-----------------------------------------------------------------------------
(***************************************************************************)
(* Properties.                                                             *)
(***************************************************************************)
\* Every variable has its type, nobody waits twice, and the lock is the
\* task's exactly while there is one.
TypeOK ==
  /\ writer \in [Writers -> {"idle", "waiting", "dropped"}]
  /\ chunks \in [Writers -> 0..MaxChunks]
  /\ IsInjective(queue) /\ Range(queue) \subseteq Writers \union Sinks
  /\ holder \in {Nobody, Task} \union Sinks
  /\ (task # <<>> \/ checking) <=> holder = Task
  /\ handle \in {"open", "taken", "closed", "lost", "aborted"}
  /\ offset \in Nat /\ {error, full, cancelled, checking} \subseteq BOOLEAN
  /\ sink \in [Sinks -> {"idle", "waiting", "close", "abort"} \union Returned]

\* A file that is committed holds every chunk that poll_write accepted from
\* any descriptor, whole, once and in the order of acceptance, and nothing
\* else: descriptors that share it never overwrite or split each other's
\* chunks, and a chunk that was lost is never hidden by a later success.
Holds(f, given) ==
  /\ Len(f) = ChunkSize * Len(given)
  /\ \A n \in 1..Len(given) : \A k \in 1..ChunkSize :
       f[ChunkSize * (n - 1) + k] = Bytes(given[n][1], given[n][2])[k]
CommitIsComplete == handle = "closed" => Holds(file, accepted)

\* A stage whose redirect reports success has its file committed, unless the
\* execution is over anyway, and every sink of the file reports the same.
LossIsReported ==
  \A s \in Sinks : sink[s] \in Returned =>
    /\ sink[s] = "succeeded" => handle = "closed" \/ (cancelled /\ handle = "aborted")
    /\ \A t \in Sinks : sink[t] \in Returned => sink[s] = sink[t]

\* Both: no byte that a redirect accepted is lost without a report.
RedirectsWhole == CommitIsComplete /\ LossIsReported

\* Finishing a redirect ends once the command has dropped its descriptors,
\* whatever the writes before it did: the spawned task always gives the lock
\* back.  (A descriptor that is kept and not polled keeps its place in the
\* queue.)
NoneFinishing ==
  (\A w \in Writers : writer[w] = "dropped") => \A s \in Sinks : sink[s] \in {"idle"} \union Returned
FinishReturns == []<>NoneFinishing
=============================================================================
