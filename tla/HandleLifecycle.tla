-------------------------- MODULE HandleLifecycle --------------------------
(***************************************************************************)
(* The life of backend file handles: Fs::open, close and abort             *)
(* (sandbox/fs.rs), the per-execution ExecutionControl (control.rs) and    *)
(* the shared Pools (pools.rs).                                            *)
(*                                                                         *)
(* Every open call is one element of Tasks; the handle it may obtain goes  *)
(* by the same name.  The steps of a call run on a blocking worker (or     *)
(* inline when the path is Fast) and interleave with the dropping of the   *)
(* awaiting future, with close and abort calls on the same handle          *)
(* (Closers), with ExecutionControl::cancel, with the dropping of the      *)
(* registry and with the cleanup threads.  Each atomic counter operation,  *)
(* mutex section and backend call is a step of its own.                    *)
(***************************************************************************)
EXTENDS Integers, FiniteSets

CONSTANTS
    Tasks,          \* open calls, and the handles they obtain
    Closers,        \* concurrent Fs::close / Fs::abort calls
    Registries,     \* HandleRegistry instances: one per Fs::build
    Execs,          \* ExecutionControl instances
    NoExec,         \* stands for control: None, the host facade
    RegistryOf,     \* the registry of the Fs an open call is made on
    ControlOf,      \* HandleRegistry::control
    Fast,           \* tasks on a path whose operations run inline
    OpenFiles,      \* PoolCapacity::open_files
    MaxOpenFiles,   \* Limits::max_open_files
    Workers,        \* PoolCapacity::blocking_vfs_workers
    CleanupThreads  \* cleanup threads that could be started

ASSUME FiniteAssumption == IsFiniteSet(Tasks) /\ IsFiniteSet(Closers)

\* Pools::new raises every capacity to at least one; max_open_files and the
\* number of threads the platform grants may be zero.
ASSUME CapacityAssumption ==
    /\ OpenFiles \in Nat \ {0}
    /\ Workers \in Nat \ {0}
    /\ MaxOpenFiles \in Nat
    /\ CleanupThreads \in Nat

ASSUME OwnerAssumption ==
    /\ RegistryOf \in [Tasks -> Registries]
    /\ ControlOf \in [Registries -> Execs \cup {NoExec}]
    /\ NoExec \notin Execs
    /\ Fast \subseteq Tasks

VARIABLES
    poolOpen,    \* Pools::open_files
    execOpen,    \* ExecutionControl::open_files
    cancelled,   \* CancellationState::cancelled
    expired,     \* executions whose deadline has passed
    registries,  \* ExecutionControl::registries
    life,        \* the Arc of a registry: "new", "live" or "dropped"
    files,       \* HandleRegistry::files
    opener,      \* where an open call stands
    dropped,     \* open calls whose awaiting future is gone
    backend,     \* the backend's view of a handle
    closer,      \* where a close or abort call stands
    target,      \* the handle it was given
    discard,     \* its abort flag
    cleanup,     \* where the fallback cleanup of a handle stands
    canceller,   \* where a cancel() stands
    pending      \* registries a cancel() took and has yet to abandon

poolVars   == <<poolOpen, execOpen>>
openVars   == <<opener, dropped>>
closeVars  == <<closer, target, discard>>
cancelVars == <<cancelled, expired, registries, life, canceller, pending>>
vars == <<poolVars, openVars, closeVars, cancelVars, files, backend, cleanup>>

OpenerSteps ==
    {"idle", "permit", "spawned", "reserve", "pooled", "refused", "admitted",
     "opened", "inserted", "withdraw", "abort", "release", "releaseExec",
     "handoff", "delivered", "failed"}
CloserSteps ==
    {"idle", "permit", "remove", "removed", "commit", "abort", "release",
     "releaseExec"}
CleanupSteps ==
    {"none", "taken", "queued", "abort", "release", "releaseExec", "done"}
BackendStates == {"none", "open", "closed", "aborted", "misused"}

\* The counters are unsigned in the code: a wrap below zero is a type error.
TypeOK ==
    /\ poolOpen \in Nat
    /\ execOpen \in [Execs -> Nat]
    /\ cancelled \in [Execs -> BOOLEAN]
    /\ expired \in [Execs -> BOOLEAN]
    /\ registries \in [Execs -> SUBSET Registries]
    /\ life \in [Registries -> {"new", "live", "dropped"}]
    /\ files \in [Registries -> SUBSET Tasks]
    /\ opener \in [Tasks -> OpenerSteps]
    /\ dropped \subseteq Tasks
    /\ backend \in [Tasks -> BackendStates]
    /\ closer \in [Closers -> CloserSteps]
    /\ target \in [Closers -> Tasks]
    /\ discard \in [Closers -> BOOLEAN]
    /\ cleanup \in [Tasks -> CleanupSteps]
    /\ canceller \in [Execs -> {"idle", "flagged", "abandoning"}]
    /\ pending \in [Execs -> SUBSET Registries]

Init ==
    /\ poolOpen = 0
    /\ execOpen = [e \in Execs |-> 0]
    /\ cancelled = [e \in Execs |-> FALSE]
    /\ expired = [e \in Execs |-> FALSE]
    /\ registries = [e \in Execs |-> {}]
    /\ life = [r \in Registries |-> "new"]
    /\ files = [r \in Registries |-> {}]
    /\ opener = [t \in Tasks |-> "idle"]
    /\ dropped = {}
    /\ backend = [t \in Tasks |-> "none"]
    /\ closer = [c \in Closers |-> "idle"]
    /\ target \in [Closers -> Tasks]
    /\ discard = [c \in Closers |-> FALSE]
    /\ cleanup = [t \in Tasks |-> "none"]
    /\ canceller = [e \in Execs |-> "idle"]
    /\ pending = [e \in Execs |-> {}]

-----------------------------------------------------------------------------
(* ExecutionControl and Pools: the counters and the cancellation test.     *)

Exec(t) == ControlOf[RegistryOf[t]]

TasksOf(e) == {t \in Tasks : Exec(t) = e}

IsCancelled(e) == e \in Execs /\ (cancelled[e] \/ expired[e])

AcquirePool == poolOpen < OpenFiles /\ poolOpen' = poolOpen + 1

ReleasePool == poolOpen' = poolOpen - 1

\* Mutant of ExecAdmits: the ceiling is off by one.
ExecAdmitsOneMore(e) ==
    e \in Execs => ~IsCancelled(e) /\ execOpen[e] <= MaxOpenFiles

\* check() and the compare-and-swap are one step: they read different state.
ExecAdmits(e) ==
    e \in Execs => ~IsCancelled(e) /\ execOpen[e] < MaxOpenFiles

AcquireExec(e) ==
    execOpen' = [x \in Execs |-> IF x = e THEN execOpen[x] + 1 ELSE execOpen[x]]

ReleaseExec(e) ==
    execOpen' = [x \in Execs |-> IF x = e THEN execOpen[x] - 1 ELSE execOpen[x]]

\* The worker semaphore: a permit lives as long as the blocking closure.
OpenerWorks(t) ==
    /\ t \notin Fast
    /\ opener[t] \in {"spawned", "reserve", "pooled", "refused", "admitted",
                      "opened", "inserted", "withdraw", "abort", "release",
                      "releaseExec"}
CloserWorks(c) == target[c] \notin Fast /\ closer[c] \notin {"idle", "permit"}

PermitFree ==
    Cardinality({t \in Tasks : OpenerWorks(t)})
        + Cardinality({c \in Closers : CloserWorks(c)}) < Workers

\* Vfs::close and Vfs::abort consume the handle whatever they return.
Consume(t, how) ==
    backend' = [backend EXCEPT ![t] = IF @ = "open" THEN how ELSE "misused"]

\* The cleanup of every handle of H starts with cleanup_handle.
Orphan(H) ==
    cleanup' = [t \in Tasks |-> IF t \in H THEN "taken" ELSE cleanup[t]]

-----------------------------------------------------------------------------
(* Fs::build and the life of a registry.                                   *)

Build(r) ==
    /\ life[r] = "new"
    /\ life' = [life EXCEPT ![r] = "live"]
    /\ registries' = [e \in Execs |->
          IF ControlOf[r] = e THEN registries[e] \cup {r} ELSE registries[e]]
    /\ UNCHANGED <<poolVars, openVars, closeVars, files, backend, cleanup,
                   cancelled, expired, canceller, pending>>

\* Nothing that holds an Arc of the registry is left: no call in flight.
Unreferenced(r) ==
    /\ \A t \in Tasks : RegistryOf[t] = r =>
          opener[t] \in {"idle", "delivered", "failed"}
    /\ \A c \in Closers : RegistryOf[target[c]] = r => closer[c] = "idle"

DropRegistry(r) ==
    /\ life[r] = "live"
    /\ Unreferenced(r)
    /\ life' = [life EXCEPT ![r] = "dropped"]
    /\ Orphan(files[r])
    /\ files' = [files EXCEPT ![r] = {}]
    /\ UNCHANGED <<poolVars, openVars, closeVars, backend, cancelled, expired,
                   registries, canceller, pending>>

-----------------------------------------------------------------------------
(* Fs::open, from dispatch to the delivery of the handle.                  *)

Move(t, to) == opener' = [opener EXCEPT ![t] = to]

\* dispatch: the check, then inline execution or the wait for a permit.
OpenCall(t) ==
    /\ opener[t] = "idle"
    /\ life[RegistryOf[t]] = "live"
    /\ Move(t, IF IsCancelled(Exec(t)) THEN "failed"
               ELSE IF t \in Fast THEN "reserve" ELSE "permit")
    /\ UNCHANGED <<poolVars, dropped, closeVars, cancelVars, files, backend, cleanup>>

OpenPermit(t) ==
    /\ opener[t] = "permit"
    /\ PermitFree
    /\ Move(t, "spawned")
    /\ UNCHANGED <<poolVars, dropped, closeVars, cancelVars, files, backend, cleanup>>

\* The blocking closure checks again before it runs the operation.
WorkerCheck(t) ==
    /\ opener[t] = "spawned"
    /\ Move(t, IF IsCancelled(Exec(t)) THEN "failed" ELSE "reserve")
    /\ UNCHANGED <<poolVars, dropped, closeVars, cancelVars, files, backend, cleanup>>

ReservePool(t) ==
    /\ opener[t] = "reserve"
    /\ \/ AcquirePool /\ Move(t, "pooled")
       \/ poolOpen >= OpenFiles /\ Move(t, "failed") /\ UNCHANGED poolOpen
    /\ UNCHANGED <<execOpen, dropped, closeVars, cancelVars, files, backend, cleanup>>

ReserveExec(t) ==
    /\ opener[t] = "pooled"
    /\ \/ ExecAdmits(Exec(t)) /\ AcquireExec(Exec(t)) /\ Move(t, "admitted")
       \/ ~ExecAdmits(Exec(t)) /\ Move(t, "refused") /\ UNCHANGED execOpen
    /\ UNCHANGED <<poolOpen, dropped, closeVars, cancelVars, files, backend, cleanup>>

\* Mutants of Unreserve: the refused slot is kept; release() undoes a
\* reservation of the execution that was never made.
UnreserveKeepsSlot(t) ==
    /\ opener[t] = "refused"
    /\ Move(t, "failed")
    /\ UNCHANGED <<poolVars, dropped, closeVars, cancelVars, files, backend, cleanup>>

\* The control refused: the pool slot goes back.
Unreserve(t) ==
    /\ opener[t] = "refused"
    /\ ReleasePool
    /\ Move(t, "failed")
    /\ UNCHANGED <<execOpen, dropped, closeVars, cancelVars, files, backend, cleanup>>

BackendOpen(t) ==
    /\ opener[t] = "admitted"
    /\ \/ /\ backend' = [backend EXCEPT ![t] = "open"]
          /\ Move(t, "opened")
       \/ /\ UNCHANGED backend
          /\ Move(t, "release")
    /\ UNCHANGED <<poolVars, dropped, closeVars, cancelVars, files, cleanup>>

Insert(t) ==
    /\ opener[t] = "opened"
    /\ files' = [files EXCEPT ![RegistryOf[t]] = @ \cup {t}]
    /\ Move(t, "inserted")
    /\ UNCHANGED <<poolVars, dropped, closeVars, cancelVars, backend, cleanup>>

\* Mutant of CheckInserted: the open call trusts its earlier checks.
HandOver(t) ==
    /\ opener[t] = "inserted"
    /\ Move(t, "handoff")
    /\ UNCHANGED <<poolVars, dropped, closeVars, cancelVars, files, backend, cleanup>>

\* Only after the handle is in the registry is cancellation looked at again.
CheckInserted(t) ==
    /\ opener[t] = "inserted"
    /\ Move(t, IF IsCancelled(Exec(t)) THEN "withdraw" ELSE "handoff")
    /\ UNCHANGED <<poolVars, dropped, closeVars, cancelVars, files, backend, cleanup>>

\* Mutant of Withdraw: the result of registry.remove is ignored.
WithdrawAnyway(t) ==
    /\ opener[t] = "withdraw"
    /\ Move(t, "abort")
    /\ files' = [files EXCEPT ![RegistryOf[t]] = @ \ {t}]
    /\ UNCHANGED <<poolVars, dropped, closeVars, cancelVars, backend, cleanup>>

\* registry.remove: EBADF when a cancel() took the handle first.
Withdraw(t) ==
    /\ opener[t] = "withdraw"
    /\ Move(t, IF t \in files[RegistryOf[t]] THEN "abort" ELSE "failed")
    /\ files' = [files EXCEPT ![RegistryOf[t]] = @ \ {t}]
    /\ UNCHANGED <<poolVars, dropped, closeVars, cancelVars, backend, cleanup>>

\* Mutant of OpenAbort: the admission is released, the handle is not.
OpenForget(t) ==
    /\ opener[t] = "abort"
    /\ Move(t, "release")
    /\ UNCHANGED <<poolVars, dropped, closeVars, cancelVars, files, backend, cleanup>>

OpenAbort(t) ==
    /\ opener[t] = "abort"
    /\ Consume(t, "aborted")
    /\ Move(t, "release")
    /\ UNCHANGED <<poolVars, dropped, closeVars, cancelVars, files, cleanup>>

OpenReleasePool(t) ==
    /\ opener[t] = "release"
    /\ ReleasePool
    /\ Move(t, "releaseExec")
    /\ UNCHANGED <<execOpen, dropped, closeVars, cancelVars, files, backend, cleanup>>

OpenReleaseExec(t) ==
    /\ opener[t] = "releaseExec"
    /\ ReleaseExec(Exec(t))
    /\ Move(t, "failed")
    /\ UNCHANGED <<poolOpen, dropped, closeVars, cancelVars, files, backend, cleanup>>

\* The awaiting future takes the handle out of the OpenHandoff.
Deliver(t) ==
    /\ opener[t] = "handoff"
    /\ t \notin dropped
    /\ Move(t, "delivered")
    /\ UNCHANGED <<poolVars, dropped, closeVars, cancelVars, files, backend, cleanup>>

\* The awaiting future is dropped: a closure that was not spawned never runs,
\* a spawned one runs to its end.  An inline call has no await to stop at.
DropOpen(t) ==
    /\ t \notin Fast /\ t \notin dropped
    /\ opener[t] \notin {"idle", "delivered", "failed"}
    /\ dropped' = dropped \cup {t}
    /\ IF opener[t] = "permit" THEN Move(t, "failed") ELSE UNCHANGED opener
    /\ UNCHANGED <<poolVars, closeVars, cancelVars, files, backend, cleanup>>

\* HandleRegistry::abandon: whoever removes the handle cleans it up.
Abandon(t) ==
    /\ Orphan({t} \cap files[RegistryOf[t]])
    /\ files' = [files EXCEPT ![RegistryOf[t]] = @ \ {t}]

\* Mutant of DropHandoff: the handoff has no Drop.
LoseHandoff(t) ==
    /\ opener[t] = "handoff"
    /\ t \in dropped
    /\ Move(t, "failed")
    /\ UNCHANGED <<poolVars, dropped, closeVars, cancelVars, files, backend, cleanup>>

\* Drop of an OpenHandoff nobody took the handle from.
DropHandoff(t) ==
    /\ opener[t] = "handoff"
    /\ t \in dropped
    /\ Abandon(t)
    /\ Move(t, "failed")
    /\ UNCHANGED <<poolVars, dropped, closeVars, cancelVars, backend>>

\* Drop of the guard of read_file, write_file and touch, or of a stream reader.
DropOwned(t) ==
    /\ opener[t] = "delivered"
    /\ life[RegistryOf[t]] = "live"
    /\ t \in files[RegistryOf[t]]
    /\ Abandon(t)
    /\ UNCHANGED <<poolVars, openVars, closeVars, cancelVars, backend>>

-----------------------------------------------------------------------------
(* Fs::close and Fs::abort: finish.                                        *)

Step(c, to) == closer' = [closer EXCEPT ![c] = to]

FinishCall(c, t, abort) ==
    /\ closer[c] = "idle"
    /\ opener[t] = "delivered"
    /\ life[RegistryOf[t]] = "live"
    /\ target' = [target EXCEPT ![c] = t]
    /\ discard' = [discard EXCEPT ![c] = abort]
    /\ Step(c, IF t \in Fast THEN "remove" ELSE "permit")
    /\ UNCHANGED <<poolVars, openVars, cancelVars, files, backend, cleanup>>

FinishPermit(c) ==
    /\ closer[c] = "permit"
    /\ PermitFree
    /\ Step(c, "remove")
    /\ UNCHANGED <<poolVars, openVars, target, discard, cancelVars, files, backend, cleanup>>

\* The future is dropped while it waits: the closure never runs.
DropFinish(c) ==
    /\ closer[c] = "permit"
    /\ Step(c, "idle")
    /\ UNCHANGED <<poolVars, openVars, target, discard, cancelVars, files, backend, cleanup>>

\* Mutant of FinishRemove: finish goes on although the handle was removed.
FinishAnyway(c) ==
    LET t == target[c] IN
    /\ closer[c] = "remove"
    /\ Step(c, "removed")
    /\ files' = [files EXCEPT ![RegistryOf[t]] = @ \ {t}]
    /\ UNCHANGED <<poolVars, openVars, target, discard, cancelVars, backend, cleanup>>

FinishRemove(c) ==
    LET t == target[c] IN
    /\ closer[c] = "remove"
    /\ Step(c, IF t \in files[RegistryOf[t]] THEN "removed" ELSE "idle")
    /\ files' = [files EXCEPT ![RegistryOf[t]] = @ \ {t}]
    /\ UNCHANGED <<poolVars, openVars, target, discard, cancelVars, backend, cleanup>>

FinishCheck(c) ==
    /\ closer[c] = "removed"
    /\ Step(c, IF discard[c] \/ IsCancelled(Exec(target[c])) THEN "abort" ELSE "commit")
    /\ UNCHANGED <<poolVars, openVars, target, discard, cancelVars, files, backend, cleanup>>

FinishBackend(c) ==
    /\ \/ closer[c] = "commit" /\ Consume(target[c], "closed")
       \/ closer[c] = "abort" /\ Consume(target[c], "aborted")
    /\ Step(c, "release")
    /\ UNCHANGED <<poolVars, openVars, target, discard, cancelVars, files, cleanup>>

FinishReleasePool(c) ==
    /\ closer[c] = "release"
    /\ ReleasePool
    /\ Step(c, "releaseExec")
    /\ UNCHANGED <<execOpen, openVars, target, discard, cancelVars, files, backend, cleanup>>

FinishReleaseExec(c) ==
    /\ closer[c] = "releaseExec"
    /\ ReleaseExec(Exec(target[c]))
    /\ Step(c, "idle")
    /\ UNCHANGED <<poolOpen, openVars, target, discard, cancelVars, files, backend, cleanup>>

-----------------------------------------------------------------------------
(* ExecutionControl::cancel, at a timeout and when the guard is dropped.   *)

Expire(e) ==
    /\ ~expired[e]
    /\ expired' = [expired EXCEPT ![e] = TRUE]
    /\ UNCHANGED <<poolVars, openVars, closeVars, files, backend, cleanup,
                   cancelled, registries, life, canceller, pending>>

CancelFlag(e) ==
    /\ canceller[e] = "idle"
    /\ canceller' = [canceller EXCEPT ![e] = "flagged"]
    /\ cancelled' = [cancelled EXCEPT ![e] = TRUE]
    /\ UNCHANGED <<poolVars, openVars, closeVars, files, backend, cleanup,
                   expired, registries, life, pending>>

CancelTake(e) ==
    /\ canceller[e] = "flagged"
    /\ canceller' = [canceller EXCEPT ![e] = "abandoning"]
    /\ pending' = [pending EXCEPT ![e] = registries[e]]
    /\ registries' = [registries EXCEPT ![e] = {}]
    /\ UNCHANGED <<poolVars, openVars, closeVars, files, backend, cleanup,
                   cancelled, expired, life>>

\* One upgraded registry: abandon_all.  A dropped one holds no files.
AbandonAll(e, r) ==
    /\ canceller[e] = "abandoning"
    /\ r \in pending[e]
    /\ pending' = [pending EXCEPT ![e] = @ \ {r}]
    /\ Orphan(files[r])
    /\ files' = [files EXCEPT ![r] = {}]
    /\ UNCHANGED <<poolVars, openVars, closeVars, backend, cancelled, expired,
                   registries, life, canceller>>

CancelReturn(e) ==
    /\ canceller[e] = "abandoning"
    /\ pending[e] = {}
    /\ canceller' = [canceller EXCEPT ![e] = "idle"]
    /\ UNCHANGED <<poolVars, openVars, closeVars, files, backend, cleanup,
                   cancelled, expired, registries, life, pending>>

-----------------------------------------------------------------------------
(* cleanup_handle and the cleanup threads of the pools.                    *)

Clean(t, to) == cleanup' = [cleanup EXCEPT ![t] = to]

ThreadFree ==
    Cardinality({t \in Tasks \ Fast :
        cleanup[t] \in {"abort", "release", "releaseExec"}}) < CleanupThreads

\* Inline when the handle is fast or no cleanup thread could be started.
CleanupHandle(t) ==
    /\ cleanup[t] = "taken"
    /\ Clean(t, IF t \in Fast \/ CleanupThreads = 0 THEN "abort" ELSE "queued")
    /\ UNCHANGED <<poolVars, openVars, closeVars, cancelVars, files, backend>>

CleanupReceive(t) ==
    /\ cleanup[t] = "queued"
    /\ ThreadFree
    /\ Clean(t, "abort")
    /\ UNCHANGED <<poolVars, openVars, closeVars, cancelVars, files, backend>>

CleanupAbort(t) ==
    /\ cleanup[t] = "abort"
    /\ Consume(t, "aborted")
    /\ Clean(t, "release")
    /\ UNCHANGED <<poolVars, openVars, closeVars, cancelVars, files>>

CleanupReleasePool(t) ==
    /\ cleanup[t] = "release"
    /\ ReleasePool
    /\ Clean(t, "releaseExec")
    /\ UNCHANGED <<execOpen, openVars, closeVars, cancelVars, files, backend>>

CleanupReleaseExec(t) ==
    /\ cleanup[t] = "releaseExec"
    /\ ReleaseExec(Exec(t))
    /\ Clean(t, "done")
    /\ UNCHANGED <<poolOpen, openVars, closeVars, cancelVars, files, backend>>

-----------------------------------------------------------------------------
(* The specification.                                                      *)

\* What runs on a worker, or inline, once the operation has started.
OpenerRuns(t) ==
    \/ WorkerCheck(t) \/ ReservePool(t) \/ ReserveExec(t) \/ Unreserve(t)
    \/ BackendOpen(t) \/ Insert(t) \/ CheckInserted(t) \/ Withdraw(t)
    \/ OpenAbort(t) \/ OpenReleasePool(t) \/ OpenReleaseExec(t)
    \/ DropHandoff(t)

CloserRuns(c) ==
    \/ FinishRemove(c) \/ FinishCheck(c) \/ FinishBackend(c)
    \/ FinishReleasePool(c) \/ FinishReleaseExec(c)

CleanupRuns(t) ==
    \/ CleanupHandle(t) \/ CleanupReceive(t) \/ CleanupAbort(t)
    \/ CleanupReleasePool(t) \/ CleanupReleaseExec(t)

CancellerRuns(e) ==
    \/ CancelTake(e) \/ CancelReturn(e)
    \/ \E r \in Registries : AbandonAll(e, r)

Next ==
    \/ \E r \in Registries : Build(r) \/ DropRegistry(r)
    \/ \E t \in Tasks :
         \/ OpenCall(t) \/ OpenPermit(t) \/ OpenerRuns(t) \/ Deliver(t)
         \/ DropOpen(t) \/ DropOwned(t) \/ CleanupRuns(t)
    \/ \E c \in Closers :
         \/ \E t \in Tasks, abort \in BOOLEAN : FinishCall(c, t, abort)
         \/ FinishPermit(c) \/ DropFinish(c) \/ CloserRuns(c)
    \/ \E e \in Execs : Expire(e) \/ CancelFlag(e) \/ CancellerRuns(e)

\* A started blocking operation, a cleanup thread and a running cancel() are
\* scheduled by the operating system whatever the guest and the embedder do.
Fairness ==
    /\ \A t \in Tasks : WF_vars(OpenerRuns(t)) /\ WF_vars(CleanupRuns(t))
    /\ \A c \in Closers : WF_vars(CloserRuns(c))
    /\ \A e \in Execs : WF_vars(CancellerRuns(e))

Spec == Init /\ [][Next]_vars

FairSpec == Spec /\ Fairness

-----------------------------------------------------------------------------
(* Properties.                                                             *)

Live(S) == {t \in S : backend[t] = "open"}

\* "Cleanup retains admission until the backend actually releases the handle"
\* (the comment on HandleRegistry): the handles the backend still holds never
\* outnumber the admitted ones, and neither ceiling is ever exceeded.
AdmissionCoversBackend ==
    /\ Cardinality(Live(Tasks)) <= poolOpen
    /\ poolOpen <= OpenFiles
    /\ \A e \in Execs :
         /\ Cardinality(Live(TasksOf(e))) <= execOpen[e]
         /\ execOpen[e] <= MaxOpenFiles

\* Vfs::close and Vfs::abort consume the handle: between the open call's own
\* rollback, finish, abandon, abandon_all and the registry's Drop exactly one
\* consumes it.
ConsumedOnce == \A t \in Tasks : backend[t] # "misused"

\* When cancel() has returned, a handle left in a registry belongs to an open
\* call that has not yet made its own check: none can be kept by its caller.
NoneStranded ==
    \A e \in Execs : cancelled[e] /\ canceller[e] = "idle" =>
        \A t \in TasksOf(e) :
            t \in files[RegistryOf[t]] => opener[t] \in {"inserted", "withdraw"}

\* With no call in flight and no handle open, both counters are back at zero:
\* no path through reserve, release, finish or cleanup leaks an admission.
NothingLeaks ==
    (/\ \A t \in Tasks : /\ opener[t] \in {"idle", "delivered", "failed"}
                         /\ cleanup[t] \in {"none", "done"}
                         /\ backend[t] # "open"
     /\ \A c \in Closers : closer[c] = "idle")
    => poolOpen = 0 /\ \A e \in Execs : execOpen[e] = 0

\* Who still has to give the admissions of t back: the open call, the
\* registry, a close or abort call, or the fallback cleanup.
InRegistry(t) == t \in files[RegistryOf[t]]

HoldsPool(t) ==
    \/ opener[t] \in {"pooled", "refused", "admitted", "opened", "abort", "release"}
    \/ InRegistry(t)
    \/ \E c \in Closers :
          target[c] = t /\ closer[c] \in {"removed", "commit", "abort", "release"}
    \/ cleanup[t] \in {"taken", "queued", "abort", "release"}

HoldsExec(t) ==
    \/ opener[t] \in {"admitted", "opened", "abort", "release", "releaseExec"}
    \/ InRegistry(t)
    \/ \E c \in Closers :
          /\ target[c] = t
          /\ closer[c] \in {"removed", "commit", "abort", "release", "releaseExec"}
    \/ cleanup[t] \in {"taken", "queued", "abort", "release", "releaseExec"}

PoolHolders == {t \in Tasks : HoldsPool(t)}

ExecHolders(e) == {t \in TasksOf(e) : HoldsExec(t)}

PoolAdmission ==
    INSTANCE Admission WITH Handles <- Tasks, Limit <- OpenFiles,
        count <- poolOpen, admitted <- PoolHolders, live <- Live(Tasks)

ExecAdmission(e) ==
    INSTANCE Admission WITH Handles <- TasksOf(e), Limit <- MaxOpenFiles,
        count <- execOpen[e], admitted <- ExecHolders(e), live <- Live(TasksOf(e))

\* Pools::open_files implements the abstract ceiling: no handle is open in the
\* backend before its slot is taken or after it is given back.
PoolImplements == PoolAdmission!Spec

\* So does ExecutionControl::open_files in every execution: each starts as
\* the abstract ceiling does, and every step is one of its steps or a stutter.
ExecImplements ==
    /\ \A e \in Execs : ExecAdmission(e)!Init
    /\ [][\A e \in Execs : [ExecAdmission(e)!Next]_(ExecAdmission(e)!vars)]_vars

\* Cancelling an execution releases every handle it holds or is about to
\* obtain, and its admissions, for good.
CancelReleases ==
    \A e \in Execs :
        cancelled[e] ~> [](Live(TasksOf(e)) = {} /\ execOpen[e] = 0)

\* Dropping the future of one open call releases the handle nobody received,
\* also on the host facade, which is never cancelled.
DroppedOpenReleases ==
    \A t \in Tasks : t \in dropped ~> [](opener[t] = "failed" /\ backend[t] # "open")

\* Both counters of open files implement the abstract ceiling.
AdmissionImplemented == PoolImplements /\ ExecImplements

\* Nobody has to come back for a handle: cancelling an execution and dropping
\* the future of one open call each release what they leave behind.
Releases == CancelReleases /\ DroppedOpenReleases
=============================================================================
