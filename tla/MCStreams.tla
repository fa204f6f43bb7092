----------------------------- MODULE MCStreams -----------------------------
(***************************************************************************)
(* PipeWake, HostContext and Capture for TLC.  They share no state: each   *)
(* initial state sets one of them going and leaves the other two at rest.  *)
(* The run checks liveness, so it uses no symmetry.                        *)
(***************************************************************************)
EXTENDS PipeWake, HostContext, Capture

VARIABLE subject

allVars == <<subject, vars, hostVars, captureVars>>

\* An execution and one of its host calls; a future waits on either.
MCContexts == {[own |-> "exec", parent |-> {}], [own |-> "call", parent |-> {"exec"}]}

MCByte == {"a", "b", "m"}
MCMarker == <<"m">>
MCChunks == UNION {[1..n -> {"a", "b"}] : n \in 0..3} \union {<<"a", "b", "b", "a", "b", "a", "a">>}

MCInit ==
    /\ subject \in {"pipe", "host", "capture"}
    /\ Init /\ HostInit /\ CaptureInit
    /\ subject # "host" => context = [w \in Waiters |-> CHOOSE c \in Contexts : c.parent = {}]
    /\ subject # "capture" => capture.cap = 0

PipeRuns == subject = "pipe" /\ Next /\ UNCHANGED <<subject, hostVars, captureVars>>
HostRuns == subject = "host" /\ HostNext /\ UNCHANGED <<subject, vars, captureVars>>
CaptureRuns == subject = "capture" /\ CaptureNext /\ UNCHANGED <<subject, vars, hostVars>>

\* Nobody has to wait for a cancellation, and a stage may stop writing.
Rests == subject # "pipe" /\ UNCHANGED allVars

MCNext == PipeRuns \/ HostRuns \/ CaptureRuns \/ Rests

MCSpec ==
    /\ MCInit /\ [][MCNext]_allVars
    /\ \A c \in Callers : WF_vars(subject = "pipe" /\ Take(c)) /\ WF_vars(subject = "pipe" /\ Wake(c))
    /\ \A w \in Writers : WF_vars(subject = "pipe" /\ w \in notified /\ pc[w] = "asleep" /\ Enter(w))
    /\ \A s \in States : WF_hostVars(subject = "host" /\ Notify(s))
    /\ \A w \in Waiters : WF_hostVars(subject = "host" /\ Wait(w))

\* Every variable of the pipe, of the futures that wait for a cancellation and
\* of the captured output has its type.
Types == TypeOK /\ HostTypeOK /\ CaptureTypeOK

\* Whoever sleeps in poll_write while there is room, or in
\* HostContext::cancelled while its context is cancelled, is woken and polled.
\* This is WriterWoken and CancelledReturns, each for one actor (the
\* specification treats all descriptors alike) and as one formula, since the
\* subject never changes.
OneWriter == CHOOSE w \in Writers : TRUE
SleepersWake ==
    \A w \in Waiters :
        \/ subject = "pipe" /\ Overslept(OneWriter)
        \/ subject = "host" /\ WaitsInVain(w)
        ~> \/ subject = "pipe" /\ pc[OneWriter] # "asleep"
           \/ subject = "host" /\ wpc[w] \in {"returned", "idle"}
=============================================================================
