# A verification development of tinysandbox

tinysandbox runs shell scripts, JavaScript and jq inside a process, over a
virtual file system, under limits on time, memory, commands and open files.
This directory holds TLA+ models of its stateful parts, the configurations TLC
checks them with, and proofs that TLAPS checks. The code is the reference:
every definition was translated from the lines `PROJECT.json` gives for it
(`map`; the repository is `src/`, so its Rust crate is `src/src/`).

## Inventory

| part | source (under `src/src/`) | state | what makes it hard |
| --- | --- | --- | --- |
| VFS handle ownership | `sandbox/fs.rs`, `control.rs`, `pools.rs` | registry of handles, two admission counters, cancellation flag, cleanup queue | dropped futures, cancel() during an open, double release, admissions held across threads |
| In-memory file system | `vfs/mem.rs`, `vfs/path.rs` | tree, inode table, handles, totals, snapshots | files without a name, rename over a target, restore under open handles, quotas |
| Copy-on-write buffers | `vfs/mem.rs` | `Arc`-shared contents | a write in place to something a snapshot shares |
| Local file system | `vfs/local.rs` | totals, open files | the host changes the directory too; paths walked before the lock |
| S3 file system | `vfs/s3.rs` | staged files, multipart uploads | requests that fail half-way, conditional commits, copy-then-delete renames |
| Mounts, `Fs` facade | `vfs/mount.rs`, `sandbox/fs.rs` | outer handle table | two handle numberings, renames between mounts |
| Conformance suite | `vfs/conformance.rs`, `vfs/mod.rs` | - | what every backend must answer |
| Shell lexer, parser, expansion | `shell/`, `sandbox/expansion.rs` | - | quoting, positions of errors, a budget that every field is charged to |
| Script execution | `sandbox/mod.rs`, `control.rs` | status, command count, deadline, session | a clock that runs between checks, hanging commands, overlapping executions |
| Pipeline stages | `sandbox/mod.rs` 711-960, 1894-2010 | ends of the pipes, stage outcomes | stages that end early or panic, joined in any order |
| Pipes | `sandbox/mod.rs` 1605-1711 | waiters, stream, counters | one waker for several descriptors, wake-ups between the steps of a poll |
| Redirects | `sandbox/mod.rs` 1713-1892, 2012-2201 | destinations, redirect files | shared offsets, writes that outlive their call, errors after some files were opened |
| Captured output | `sandbox/mod.rs` 1407-1551 | head, tail, total | boundaries of head and tail, caps below the marker |
| Commands on files | `sandbox/builtins.rs` | - | copies that fail half-way, trees that others change |
| Commands on text | `sandbox/builtins.rs` | line buffers, windows | inputs cut anywhere, failing inputs, broken pipes |
| JavaScript runtime | `js/mod.rs` | descriptor table, worker, host calls | timeouts inside host calls, commit of several files |
| jq runtime | `sandbox/jq_runtime.rs`, `jq_protocol.rs`, `guests/jq` | worker, bounded channel | a receiver that stops polling, a lost last message |
| Host context | `sandbox/control.rs` 112-213 | wakers of `cancelled()` | cancellation between check and registration |
| JS globals | `sandbox/mod.rs` 206-313 | registry of names | not modelled |
| Bindings, guest library, prompts, engine set-up | `tinysandbox-node`, `tinysandbox-js-runtime`, `prompts.rs`, `wasm.rs` | outside the library | not modelled |

They interact as follows. `exec` creates an `ExecutionControl` with a deadline,
parses the script and runs its pipelines one after the other. Each stage is a
task with standard streams that are pipes, captures or redirect files, and an
`Fs` that shares the control and the pools. Every file handle goes through
`Fs`, which admits it against both counters and releases it exactly once, into
the mounted file systems. When the deadline passes or the caller goes away,
`cancel()` takes every handle of the execution back.

## Modules

### Handle ownership: `HandleLifecycle`, `Admission`

`HandleLifecycle` has one element of `Tasks` for each open call, and gives the
handle that call obtains the same name. The variables are the fields of
`Pools`, `ExecutionControl` and `HandleRegistry`, and a program counter each for
the open calls, the close and abort calls, the fallback cleanup of a handle and
`cancel()`. Every mutex section, every atomic operation and every backend call
is an action. Memory orderings weaker than sequential consistency are not
modelled: the mutex of `files` orders an insertion before the look at the
cancellation flag, and the taking of the files after the flag was set.

`Admission` is the abstract specification of a ceiling: admitted before open,
released after close, and a counter that follows. `AdmissionImplemented` says
that the pool's counter and the counter of each execution implement it.

Not in this model: a backend that panics.

### In-memory file system: `MemVfs`

The tree is the set of the paths of its directories and a function from the
paths of its files to inodes. Every operation of `Vfs` and `VfsSnapshot` that
changes state is one action, because it runs under one mutex; the guard is the
conjunction of the checks after which the call succeeds, and a call that fails
stutters. A file's contents are its length. `branch` is a restore into a file
system of its own, which the model continues with.

### Copy-on-write: `MemCow`, `MemCopies`

`MemCow` has heap buffers and, for each file system and snapshot, the buffer of
each inode. Writes and truncations change a buffer in place when the reference
count is one and replace it otherwise. `MemCopies` is the abstract
specification: everybody has copies of their own. `CopiesImplemented` is the
refinement.

### Local directory: `LocalVfs`

The directory is a set of nodes; an entry of a directory leads to a node, and a
node without an entry lives as long as a handle has it. A call first walks its
path (`resolve`, without the lock) and then, in a later step, does its work
under the lock, on the directory node the walk found, wherever that is by then.
The host may resize or remove a file between two steps, and a write may fail in
the host. A symbolic link is an entry that is neither file nor directory.
`used`, `count` and `openFiles` are fields of `State`; `skewed` (the host changed
something since the last scan) and `moved` (a directory was renamed while a call
held it open) are history.

### S3: `S3Store`, `S3Paths`, `S3Vfs`

`S3Store` is the bucket: objects with entity tags, preconditions, multipart
uploads; every request is an operator from a bucket to a bucket and an answer.
It also has the state of the callers. `S3Paths` has the calls on paths
(`open`, `stat`, `readdir`, `mkdir`, `rmdir`, `unlink`, `rename`,
`preserve_directory`), and `S3Vfs` the ones on handles and the drop of the file
system. A call is a sequence of requests, one step each, and other callers run
between two of them. A request may fail before the bucket applied it, or after,
when only the answer is lost. A delete of a key that has no object is answered
either way, as buckets differ in it. `want` and `log` are history: what a handle's
contents should be, and what was read or published. A listing in pages is one
request; entity tags are numbers.

### The contract: `VfsPath`, `Vfs`, `VfsConformance`, `VfsContract`

`Vfs` states what the trait promises as functions from a file system to a file
system and an answer, with contents, quotas, open handles, and the choice
whether writes show at once or at `close` (the staged backends).
`VfsConformance` has the tests of `conformance.rs` as sequences of calls with
the answers the tests assert. `VfsContract` runs them on `Vfs`; `FileCases`
runs them on `LocalVfs`. `SuitePasses` is the agreement of both with the suite,
which makes `Vfs` a file system the commands can be composed with.

### Mounts and `Fs`: `MountedVfs`, `SandboxFs`

`MountedVfs` is `vfs/mount.rs` over mounts that are values of `Vfs`: a read-only
root, the first component of a path that names the mount, the outer handle
table, renames that stay within one mount. The sum of the mounts' statistics,
which only `Sandbox::stats` reports, is left out. `SandboxFs` adds what `Fs` does before and after: path
checks, `/bin`, and the cancellation that turns a close into an abort.

### Shell: `ShellSyntax`, `Shell`

`ShellSyntax` has the scanners of `lex.rs` and the productions of `parse.rs`,
with the kind and the position of each error; a text is a sequence of
characters from an alphabet that has every character the code tells apart.
`Shell` adds the expansion of words and the machine that takes a program from
its text to the arguments of its commands, one token, list, pipeline or command at
a time, with the budget every pipeline has. `NextPipeline` lets `&&` and `||` skip
a pipeline; `RunPipeline` ends one with a status and, when it is a null command by
itself, makes its assignments the session's, also when its redirect fails. The
next pipeline is expanded under that environment and status. The properties have
reference definitions of their own: what a quotation stands for, what the fields of
a word or of a redirect target are (`FieldsOf`, by separators instead of the code's
loop), under which environment (`EnvBefore`), and what an expansion holds (`Held`).

### Execution: `Execution`

A program is a sequence of pipelines, each with its operator (`;`, `&&`, `||`,
written `list`, `and`, `or`) and its number of commands. An execution walks
through `exec_inner`, `exec_and_or_list` and `exec_pipeline`, one action from
each point where the clock is looked at, or the task yields, to the next.
`Expire` passes the deadline at any moment. Expansion, redirects and commands
may fail, commands return any status of `Statuses` and may hang. `ran` and
`late` are history variables: what was run with which status, and how many
pipelines started after the deadline.

### Pipes: `PipeWake`

`poll_write` of a descriptor is three steps (enter the waker, poll the stream
under the shared lock, withdraw the waker), and `PipeWake::wake` is one step
that takes the waiters and one for each it wakes. The stream (tokio's
`DuplexStream`) and the task wake-ups are external: the stream has a capacity
and remembers one waker, and may refuse a poll because the task has used up its
turn, in which case it calls the waker later. A read calls the waker in a
separate step, although tokio keeps the stream locked meanwhile; this only adds
interleavings. A descriptor that is dropped withdraws its waker and its share of
the stream in one step; its task is awake then.

### Pipeline stages: `Stages`

`Spawn` is one turn of the loop in `run_pipeline_stages`, with what it does to
the ends of the two pipes of the stage; stages run as soon as they are spawned.
A command reads and writes as it likes, ends with any code or panics, and
`Settle` is the rest of `run_stage_task` (sinks, the 141 rule). `Join` and
`JoinError` are `join_next`, in the order in which the stages end, and `Collect`
the loop after it. A pipe is its contents and the sets of pipes whose ends are
held; its wake-ups are in `PipeWake`. The deadline is in `Execution`.

### Redirects: `RedirectSetup`, `Redirect`

`RedirectSetup` is `prepare_redirects`: one action for each kind of redirect,
the two ways out of the loop, one step of the loop that finishes files, and the
return. `Arc::strong_count(&file) == 1` is "no descriptor leads to the file".

`Redirect` is what happens to one such file afterwards. A descriptor waits for
the tokio lock of the file (first come, first served; external) and hands it,
with a chunk, to a spawned task. The task writes part by part, with the
checkpoint as a step of its own. `RedirectState::error` is present from the
acceptance of a chunk to the last byte written. Each sink calls `finish`; the
first takes the handle. A lost task stands for a panic, for a failing backend
and for a runtime that shuts down.

### Captured output: `Capture`

`CaptureWriter` with `CappedOutput`: the bytes before truncation, the head, the
tail and the total, one write at a time. `Captured` is the reference: a cut of
the whole output.

### Host context: `HostContext`

`cancel` sets a flag and notifies in two steps. A future of
`HostContext::cancelled` registers with its own state and that of its
execution, looks at both flags, polls one and then the other, and sleeps; tokio's
`Notify` and the task wake-ups are external (`heard`, `woken`).

### Commands on files: `FileTools`

`cp`, `mv`, `rm`, `mkdir` and `touch` as programs over `SandboxFs`, one step for
each call. `Stop` cancels the execution of a command between two steps,
`DropTool` drops it, and a read, a write or a close of the backend may fail.
The close of a copy is two steps, as in `Fs::finish`: `Commit` looks at the
cancellation, `Finish` closes or aborts, and a cancellation may come in between.
`due`, `complete`, `good` and `alone` are history: the paths a walk has found and not
dealt with, whether an operand ended with none left, whether it was done as asked,
and whether another command changed the files meanwhile.

### Commands on text: `TextTools`, `TextReference`

`TextTools` reads inputs in chunks of any size up to the limit, through
the line buffer with its compaction, the window of `tail` and the checkpoints of
`sort`. Output breaks as a pipe does or fails as a redirect file does, which the
commands report differently. `TextReference` says what each command prints for whole
inputs. A regular expression is one byte, and a number has two decimals at most.

### JavaScript: `JsRuntime`

A script is the sequence of its host calls, each with whether the script
catches its error. A host call is a list of requests to `SandboxFs` still to be
made, as in `handle_host_call_result`. The command future and the worker thread
are two processes; output passes through a channel of one chunk with an
acknowledgement; the deadline, a callback that fails or never returns, a trap,
and a dropped command may come at any step. `HostResponse` is the most a response
carries: an answer beyond it becomes E2BIG, whatever the call did. `MaxFd` stands for
the last descriptor number.

### jq: `JqWorker`

The arguments, the inputs, and what the guest's loop does with them
(`guests/jq/src/lib.rs`); the command future and the worker thread with a
bounded channel. A value of an input is named for what the filter does with it
(`halt` ends the program with a code of its own), or `deep` when its input is nested
deeper than `push_jq_input` accepts.

### Instances: `FileCases`, `ScriptCases`, `CommandCases`

The starting trees, the calls of each caller, the programs and the command lines
that the runs enumerate. They hold data and no behaviour.

## Runs

| run | checks | distinct states |
| --- | --- | --- |
| `handles_mixed` | `TypeOK`, `ConsumedOnce`, `AdmissionCoversBackend`, `NoneStranded`, `NothingLeaks` | 1,431,580 |
| `handles_live` | `Releases`, `AdmissionImplemented` | 119,604 |
| `mem_cow` | `TypeOK`, `CopiesImplemented` | 51,981 |
| `streams` | `Types`, `NoLostWakeup`, `EofIsComplete`, `NoLostCancellation`, `CaptureWhole`, `SleepersWake` | 439,405 |
| `scripts` | `Types`, `LimitsHold`, `ResultIsComplete`, `PipelineResult`, `ShellReads`, `ShellFields`, `ScriptsEnd` | 464,568 |
| `commands` | `Types`, `RedirectsPrepared`, `RedirectsWhole`, `StatusHonest`, `TextWhole`, `JqHonest`, `JsHonest`, `WholeCopies`, `CommandsEnd` | 389,833 |
| `files` | `Types`, `TotalsWithinQuota`, `TreeSound`, `RetiredStayClosed`, `LocalTotals`, `SuitePasses`, `OneRevision`, `NoOrphanUpload`, `DirectoriesStay` | 306,353 |
| `exec_timeout_session` | `TimeoutDiscardsSession` (violated) | - |
| `stages_panic` | `TimingsInOrder` (violated) | - |
| `redirect_lost` | `EarlierRedirectsStand` (violated) | - |
| `s3_create` | `NoSilentOverwrite` (violated) | - |
| `local_depth` | `DepthBounded` (violated) | - |

`MCStreams`, `MCScripts`, `MCCommands` and `MCFiles` put components side by side
that share no state: the variable `subject` says which one an initial state sets
going, and the others stay at rest. Each property is about its own component, so
a run is the union of the components' state graphs, not their product. Where
components do interact they are composed: the commands, `js` included, run on
`SandboxFs` over `MountedVfs` over `Vfs`.

**Instances.**

* `handles_mixed`: two opens of the execution and a fast one on the host facade,
  one closer, pool of 2, execution limit 1, one worker, one cleanup thread.
  `handles_live`: an open of the execution and one of the host, both limits 1.
* `mem_cow`: two file systems, one snapshot, two inodes, four buffers.
* `streams`: two descriptors with two writes each and capacity 1; one future on
  the context of an execution or of a call, that waits twice; captures with caps
  0, 1, 2, 3 and 5, a marker of one byte and up to 9 bytes of output.
* `scripts`: one execution, every way to join three pipelines, a budget of 3
  commands; three stages in 7 plans, two reads or writes each, capacity 1, the
  second may panic; 12,924 short programs for the shell, 216 of them two pipelines
  of which the second reads what the first left.
* `commands`: all sequences of up to four redirects, with opens and closes that
  fail; two descriptors with two chunks of two bytes into two sinks; pairs of
  file commands on two mounts, one that writes through and one that stages, with
  one fault and one cancellation; the text commands on short inputs; two jq jobs
  with one permit and a channel of two; scripts of `js` with up to three open
  files and two failures of the host.
* `files`: in memory two names, depth 3, 3 bytes, 4 entries, 3 inodes and 2 handles,
  with a snapshot beside trees of up to 2 entries and 2 inodes (`MaxSaved`); local two callers, depth 3, one change by the host, one failing
  write; S3 two callers, two failing requests, parts of two bytes;
  the conformance suite on the contract.

**Bounds.** The limits are small enough to be reached: the pool and the
execution ceilings refuse opens, the quotas refuse growth, the command budget
ends in the middle of a list, pipes and channels are full, a capture is cut at
every boundary. One closer races for a handle with the cancellation and the
cleanup; that several closers change nothing is what `ConsumedOnce` is proved
for. With four entries a rename can push a subtree past `MaxDepth`, replace a
target or aim into itself, and two handles are one that a restore retires and
one opened after it. A snapshot multiplies the states by the trees it can hold,
so the trees are kept to two entries as long as one is held. Four buffers are one more than two file systems and a snapshot
can hold of one file. `MaxInode`, `MaxHandle`, `MaxWrites`, `MaxWaits` and
`MaxWritten` bound what grows for ever in the code; `MaxFaults`, `MaxStops`,
`MaxBreaks`, `MaxHost` and `MaxErrors` bound what goes wrong in one behaviour:
with two failing requests the clean-up after a failure can fail too. One
execution is enough for the loop over pipelines, because executions meet only in
the stored session; two overlap in `exec_timeout_session`. Three stages have a
first, a last and one between two pipes, and with two writes and capacity 1 a
stage has to wait for its neighbour. Chunks of two bytes can be written in part.
Four redirects are enough to open a file, duplicate it, supersede it and fail.
Two commands on files are enough for one to change what the other has looked at.
Symmetry is used where a run checks no liveness and the names are
interchangeable. `SleepersWake` looks at one descriptor, because the model treats
the descriptors alike.

**Fairness.** A blocking operation that has started, a cleanup thread, a
`cancel()` that is running and the worker threads of jq and js are scheduled by
the operating system: weak fairness on their steps. Time passes and the runtime
polls futures that are ready: weak fairness on `Expire`, on the steps of an
execution other than commands and redirects, and on a future of
`HostContext::cancelled` that was woken. A call of the shared waker, or of
`notify_waiters`, runs to its end, and the runtime polls a task that was woken.
A stage's task, a spawned write and the finish of a redirect go on whenever they
can; in `Stages` a command waits for nothing but its pipes. A file command goes
on (`Runs`) and so does the future of `js`, which may wait for whoever reads its
output: the deadline of the execution bounds that wait by dropping the future.
The one of jq has no fairness, so that its worker is shown to exit even if
nobody polls the channel again; a callback of `js` need not return, as the
deadline of its call ends it. `CommandsEnd` is, for a redirect, about a
command that has dropped its descriptors: one that is kept and not polled keeps
its place in the queue of the lock. Apart from this, nothing is assumed of
callers, of commands, of the reader of a pipe, or of the file system under a
redirect: they may stop at any time. Deadlock is checked in every run; modules
whose work ends have an explicit stuttering step for the state in which all is
over.

**Findings.** Five runs show the code doing other than its comments say.

`exec` documents that after a timeout "partial stdout, stderr,
metrics, and session mutations are discarded and the result exits 124"
(`src/src/sandbox/mod.rs:325`). With `persist_session`, `exec_inner` looks at
the deadline (line 403), stores the session, and `exec` looks again (line 349):
if the deadline passes in between, the result exits 124 and the session is
kept. `exec_timeout_session` shows such a run.

`ExecMetrics::commands` are "Per-command timings in pipeline order"
(`src/src/sandbox/mod.rs:89`). A stage task that panics is recorded as stage 0
under the name `<task>` (line 926), in place of the outcome of the first stage or
replaced by it, and leaves no timing of its own; if it was the last stage, the
pipeline has the status of the one before. `stages_panic` shows it.

"Earlier successful redirects still create/truncate their files, including
redirects superseded later in the same command or followed by an error"
(`src/src/sandbox/mod.rs:2163`). With `>a 2>b 2>&1`, the loop below that comment
skips `a`, which is in use, and finishes `b`; when that fails the redirects are
dropped with `a` unfinished, and the registry aborts its handle. On a file system
that stages writes, `a` is neither created nor truncated. `redirect_lost` shows
it, and `FailureFinishes`, a part of `RedirectsPrepared`, that it takes a failing
close.

`conditional_writes` "Guards writes with `If-Match` and `If-None-Match`
preconditions so a concurrent replacement fails instead of being silently
overwritten" (`src/src/vfs/s3.rs:53`). A handle that creates a file without
`create_new` has no precondition (`creation_precondition`, line 1315): if another
caller publishes the file before the handle is closed, the close replaces it and
answers Ok. `s3_create` shows it.

"Every path operation is bounded at MAX_PATH_DEPTH", or entries would be
stranded "below the depth any later traversal — including the quota scan that
reopens this root — is willing to walk" (`src/src/vfs/local.rs:271`). The bound
is on the path a call is given, and the walk (line 145) is done before the lock is
taken. If another caller moves a directory of that path to a deeper place in
between, `mkdir` makes its entry in the moved directory, below the bound.
`local_depth` shows it.

**Observations.** These are behaviours the models show that no comment speaks of;
the properties are stated so as to allow them.

* `LocalVfs::rename` between names that lead, after a stale walk, to the same file
  does nothing in the host but takes the target off the totals; `LocalTotals`
  excludes behaviours in which a directory was moved under a call.
* `rm -rf` stops with ENOENT in the middle of a tree if someone else removes an
  entry it has listed, and exits 0; `StatusHonest` exempts this case alone.
* A close of a cancelled execution aborts the handle and answers Ok.
* A deadline between two descriptors of `finish_files` leaves the first published
  and the rest aborted.
* `head -`, `tail -` and `uniq -` take `-` for an option they do not support; `wc`
  ignores a failing write; `grep` with a broken pipe exits as it does when nothing
  matches.

Every property of a passing run has a mutant in `PROJECT.json`: a definition
changed the way a slip in the code would change it, under which TLC reports the
property violated. The mutated forms stand next to the definitions they replace.

## Proofs

TLAPS checks the following for every value of the constants that satisfies the
named assumptions of the modules (finite sets of calls, natural limits,
capacities of at least one, disjoint names).

* `HandleOwnership` proves `ConsumedOnce`. The invariant `Owned` says that a
  handle the backend holds has exactly one owner among the open call, the
  registry, one close or abort call, and the cleanup, and that the backend's
  view agrees with the owner's program counter. `ConsumedOnce` by itself is not
  inductive: nothing in it prevents two owners.
* `HandleAdmissionProofs` adds `Counted` (each counter is the number of tasks
  that still have to give an admission back). Every step is classified by what
  it does to one task (`EffectStep`), from which the type invariant,
  `AdmissionCoversBackend`, `NothingLeaks` and `AdmissionImplemented` follow: the
  pool and each execution refine `Admission`.
* `HandleOwnership` also proves `NoneStranded`, with `Reachable`: a handle in a
  registry whose execution was cancelled is one that the running `cancel()` has
  still to take, or whose open call has still to check.
* `MemCowProofs` proves `TypeOK` and `CopiesImplemented`. The mapping gives each file the
  bytes of its buffer; the step that matters is that a buffer changed in place
  has one reference.
* `ExecutionProofs` proves `TypeOK`, `LimitsHold` (`CommandBudget` and
  `OneLateStart`) and `ResultIsComplete` for any set of programs. The invariant is local to an
  execution: `Counted` (a pipeline past the check of the budget fits in it, and
  a late start leaves the points before a start) and `Truthful` (while neither
  the deadline nor a limit got in the way, the pipelines dealt with so far ran
  exactly if the grammar selects them, and both obstacles show in the result).
* `StreamsProofs` has three parts, and `Types` of `MCStreams`.
  * Pipes: `TypeOK`, `NoLostWakeup` and `EofIsComplete` for any number of
    descriptors and any capacity. `NoLostWakeup` needs `Entered` (a descriptor that
    is about to poll the stream is entered, or its waker has been taken, or called)
    and `Calls` (a caller that has yet to take the waiters has none that it could
    overwrite); `EofIsComplete` needs the exact count.
  * Captured output: `CaptureWhole` for any cap, any marker and any sequence of
    writes. `CaptureInv` says what head and tail hold of the bytes written so far;
    the lemmas are about the first and the last n elements of a concatenation
    (`First`, `Suffix`), which is where the boundaries are.
  * Host context: `NoLostCancellation` for any set of contexts and futures. By
    itself it says nothing of a future that is between its look at the flags and its
    sleep; `Reached` adds that a cancellation such a future did not see has reached
    it, or is still to be notified, and `Roused` that a notification its last poll
    did not find has woken its task.
* `MemVfsProofs` proves `TypeOK`, `TotalsWithinQuota`, `TreeSound` and
  `RetiredStayClosed` for any names, depth of paths, quota, numbers of inodes and
  handles, and snapshots. They need each other, so there is one inductive
  invariant, `MemInv`: `NamesInv` (the names are a tree, and a file has one name at
  most), `InodesInv` and `HandlesInv` (numbers are not used twice, counts are
  exact, and a file is there as long as something needs it), `SumsInv` (the totals
  are those of the table, within the quota) and `SavedInv` (each snapshot is a file
  system without handles, so that a restore finds what it needs). Two groups of
  lemmas carry it. One is about trees of paths: what the removal of a leaf and the
  move of a subtree (`Movable`, `Moved`) leave. The other is about sums: the total
  length of a table is the cardinality of a set of cells (`Cells`), which turns
  every change of a length into a theorem about cardinalities.
* `RedirectProofs` proves `RedirectsWhole` and `RedirectsPrepared`. For the first,
  `LockInv` says who has the lock of the file and when the retained error stands,
  and `FileInv` that, while nothing was lost, the file followed by what the task
  has still to write are the accepted chunks. For the second, `SetupInv` says at
  each point of `prepare_redirects` which handles are open (those in use and those
  the loop has still to look at) and that the descriptors lead where the redirects
  so far say. That two readings of a list of redirects agree on their common part
  is shown by induction.
* `JqProofs` proves `JqHonest`, and `JqTypeOK` (the permits), for any number of jobs
  and permits, any room in the channel and any command lines and inputs. The
  invariant `Good` is about one job: what was written, what the command holds,
  what is in the channel and what the worker has still to do are, in this order,
  what the guest produces (`Flowing`), up to the point at which a deadline or a
  failure cut it. It rests on what the guest's loop computes, for every input
  (`ProgramRuns`: values, and one end as the last event).

Where a proof needs induction over the natural numbers, it looks at the least
counterexample: a non-empty set of naturals has a least element (`WFMin`), which
takes a set and no operator. The lemmas `PassedOn` and `Repeated` of
`JqProofs` carry this over to recursive functions, one application at a time.

The assumptions are the ones the code justifies: limits are naturals, channels and
pools have room for one at least, the sets of calls are finite, and the arguments
and inputs of a command are sequences. TLC evaluates each of them in the run that
instantiates the module (`FilesAssumption`, `CommandsAssumption` and the `ASSUME`s of
the modules themselves).

Only model-checked: the liveness properties (`Releases`, `SleepersWake`,
`ScriptsEnd`, `CommandsEnd`), which are out of the prover's reach; the agreement
of recursive algorithms with their references (`ShellReads`, `ShellFields`,
`TextWhole`, `SuitePasses`), in modules whose recursive operators the prover does not
accept; `Types` of `MCScripts`, `MCCommands` and `MCFiles`, which speak of those
modules too; `PipelineResult`, `LocalTotals`, `OneRevision`, `NoOrphanUpload`,
`DirectoriesStay`, `StatusHonest`, `WholeCopies` and `JsHonest`, whose modules
(`Stages`, `LocalVfs`, `S3Vfs`, `FileTools`, `JsRuntime`) have not been proved about.

## Not modelled

* Engines and what runs in them: the set-up of the WebAssembly engine, QuickJS and
  its C shim, the jq evaluator and JSON, the guest's JavaScript library, the Node
  bindings. A script is its host calls; a jq value is what the filter does with it.
* Prompts (constant text), conversions of HTTP requests and answers, the registry
  of JS globals.
* Option parsing and wording of the builtins, the builtins that change nothing and
  stream nothing (`ls`, `stat`, `pwd`, `echo`, `which`), the parser of `sed`
  scripts. A regular expression is one byte.
* Of S3: pages of listings, the translation to and from the SDK, URI encoding, the
  validation of bucket names.
* Panics of a backend inside `open`; weak memory orderings (steps are sequentially
  consistent); a `wall_time` too large for the clock.
* Overlapping executions that store one session, beyond `exec_timeout_session`: the
  last one to finish wins, as documented (`src/src/sandbox/mod.rs:340`).
