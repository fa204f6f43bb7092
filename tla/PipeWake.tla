------------------------------ MODULE PipeWake ------------------------------
(***************************************************************************)
(* One pipe between two stages of a pipeline (src/src/sandbox/mod.rs).     *)
(* The stage on the left may hold several descriptors of it (its stdout    *)
(* and, after 2>&1, its stderr), polled by different tasks.  tokio's       *)
(* DuplexStream remembers one write waker only, so every descriptor gives  *)
(* it the same waker, PipeWake, which wakes all the descriptors that have  *)
(* entered themselves in waiters.                                          *)
(*                                                                         *)
(* poll_write is three steps, between which other tasks run: it enters     *)
(* its own waker, it polls the stream under the lock the descriptors       *)
(* share, and it withdraws its waker if the poll was ready.  PipeWake::wake *)
(* is a step that takes all waiters and one step for each it wakes.        *)
(*                                                                         *)
(* External: the DuplexStream (buffer, writeWaker, its closing) and the    *)
(* task wake-ups (notified) are tokio's, modelled from how they are used.  *)
(***************************************************************************)
EXTENDS Integers, FiniteSets

CONSTANTS Writers,    \* the descriptors of the pipe, by their ids
          Reader,     \* the task that reads the pipe
          Capacity,   \* PIPE_CAPACITY_BYTES
          MaxWrites   \* bound: the writes a command makes on one descriptor

ASSUME PipeAssumption ==
    /\ Capacity \in Nat \ {0}
    /\ MaxWrites \in Nat
    /\ Reader \notin Writers

VARIABLES
    pc,          \* where each descriptor is in poll_write
    left,        \* the writes each descriptor still makes
    lock,        \* the descriptors that hold the lock on the stream
    shares,      \* the descriptors whose inner still refers to the stream
    waiters,     \* PipeWake.waiters
    due,         \* callers of PipeWake::wake that have not taken the waiters
    taken,       \* the waiters each caller has taken and not yet woken
    notified,    \* descriptors whose task the runtime will poll again
    accepted,    \* bytes the stream accepted from the poll that holds the lock
    bytes,       \* SharedCountingPipeWriter.bytes
    broken,      \* SharedCountingPipeWriter.broken
    buffer,      \* bytes in the DuplexStream
    writeWaker,  \* whether the DuplexStream remembers PipeWake
    consumed,    \* bytes the reader has read
    reader       \* "open", "eof" (it has seen the end) or "gone" (dropped)

writing == <<pc, left, lock, shares, accepted, bytes, broken>>
waking == <<waiters, due, taken, notified>>
stream == <<buffer, writeWaker, consumed, reader>>
vars == <<writing, waking, stream>>

Callers == Writers \cup {Reader}

\* run_pipeline_stages creates the pipe and its descriptors.
Init ==
    /\ pc = [w \in Writers |-> "idle"]
    /\ left = [w \in Writers |-> MaxWrites]
    /\ lock = {}
    /\ shares = Writers
    /\ accepted = 0
    /\ bytes = 0
    /\ broken = FALSE
    /\ waiters = {}
    /\ due = {}
    /\ taken = [c \in Callers |-> {}]
    /\ notified = {}
    /\ buffer = 0
    /\ writeWaker = FALSE
    /\ consumed = 0
    /\ reader = "open"

-----------------------------------------------------------------------------
\* What a plausible mistake would make of the operations below.

PollBeforeEntering(w) ==
    /\ pc[w] = "asleep" \/ (pc[w] = "idle" /\ left[w] > 0)
    /\ pc' = [pc EXCEPT ![w] = "inserted"]
    /\ notified' = notified \ {w}
    /\ UNCHANGED <<left, lock, shares, accepted, bytes, broken, waiters, due, taken, stream>>

TakeOne(c) ==
    /\ c \in due
    /\ due' = due \ {c}
    /\ \/ /\ waiters = {}
          /\ UNCHANGED <<waiters, taken>>
       \/ \E w \in waiters :
            /\ taken' = [taken EXCEPT ![c] = {w}]
            /\ waiters' = waiters \ {w}
    /\ UNCHANGED <<writing, notified, stream>>

CloseStream(w) ==
    /\ pc[w] \in {"idle", "asleep"}
    /\ pc' = [pc EXCEPT ![w] = "closed"]
    /\ waiters' = waiters \ {w}
    /\ shares' = {}
    /\ UNCHANGED <<left, lock, accepted, bytes, broken, due, taken, notified, stream>>

PollUnlocked(w) ==
    /\ pc[w] = "inserted"
    /\ reader # "gone"
    /\ \E n \in 1..(Capacity - buffer) :
        /\ buffer' = buffer + n
        /\ accepted' = n
    /\ lock' = {w}
    /\ pc' = [pc EXCEPT ![w] = "wrote"]
    /\ UNCHANGED <<left, shares, bytes, broken, waking, writeWaker, consumed, reader>>

-----------------------------------------------------------------------------
\* poll_write of a descriptor begins: the task is woken, polls again for a
\* reason of its own, or makes a new write.  It enters its waker.  (After a
\* shutdown inner is None: poll_write fails at once and changes nothing.)
Enter(w) ==
    /\ pc[w] = "asleep" \/ (pc[w] = "idle" /\ left[w] > 0)
    /\ pc' = [pc EXCEPT ![w] = "inserted"]
    /\ notified' = notified \ {w}
    /\ waiters' = waiters \cup {w}
    /\ UNCHANGED <<left, lock, shares, accepted, bytes, broken, due, taken, stream>>

\* The stream has room: it accepts some bytes.
PollAccepted(w) ==
    /\ pc[w] = "inserted" /\ lock = {}
    /\ reader # "gone"
    /\ \E n \in 1..(Capacity - buffer) :
        /\ buffer' = buffer + n
        /\ accepted' = n
    /\ lock' = {w}
    /\ pc' = [pc EXCEPT ![w] = "wrote"]
    /\ UNCHANGED <<left, shares, bytes, broken, waking, writeWaker, consumed, reader>>

\* The reader has been dropped.
PollBroken(w) ==
    /\ pc[w] = "inserted" /\ lock = {}
    /\ reader = "gone"
    /\ lock' = {w}
    /\ pc' = [pc EXCEPT ![w] = "broke"]
    /\ UNCHANGED <<left, shares, accepted, bytes, broken, waking, stream>>

\* The stream is full: it remembers the shared waker and the task sleeps.
PollFull(w) ==
    /\ pc[w] = "inserted" /\ lock = {}
    /\ reader # "gone" /\ buffer = Capacity
    /\ writeWaker' = TRUE
    /\ pc' = [pc EXCEPT ![w] = "asleep"]
    /\ UNCHANGED <<left, lock, shares, accepted, bytes, broken, waking, buffer, consumed, reader>>

\* The task has used up its turn: tokio does not look at the stream, and calls
\* the waker it was given when the worker is free again.
PollDeferred(w) ==
    /\ pc[w] = "inserted" /\ lock = {}
    /\ w \notin due /\ taken[w] = {}
    /\ due' = due \cup {w}
    /\ pc' = [pc EXCEPT ![w] = "asleep"]
    /\ UNCHANGED <<left, lock, shares, accepted, bytes, broken, waiters, taken, notified, stream>>

\* The poll was ready: the descriptor withdraws its waker, counts what was
\* accepted or notes that the pipe is broken, and releases the stream.
Finish(w) ==
    /\ w \in lock
    /\ \/ /\ pc[w] = "wrote"
          /\ left' = [left EXCEPT ![w] = @ - 1]
          /\ UNCHANGED broken
       \/ /\ pc[w] = "broke"
          /\ broken' = TRUE
          /\ UNCHANGED left
    /\ bytes' = bytes + accepted
    /\ accepted' = 0
    /\ lock' = lock \ {w}
    /\ waiters' = waiters \ {w}
    /\ pc' = [pc EXCEPT ![w] = "idle"]
    /\ UNCHANGED <<shares, due, taken, notified, stream>>

\* The command drops the future of a write that is pending (a timeout or a
\* select of its own); the waker stays entered.
GiveUp(w) ==
    /\ pc[w] = "asleep"
    /\ pc' = [pc EXCEPT ![w] = "idle"]
    /\ UNCHANGED <<left, lock, shares, accepted, bytes, broken, waking, stream>>

\* poll_shutdown, or the descriptor is dropped: it withdraws its waker and its
\* share of the stream, whose writing end closes with the last share.
Close(w) ==
    /\ pc[w] \in {"idle", "asleep"}
    /\ pc' = [pc EXCEPT ![w] = "closed"]
    /\ waiters' = waiters \ {w}
    /\ shares' = shares \ {w}
    /\ UNCHANGED <<left, lock, accepted, bytes, broken, due, taken, notified, stream>>

-----------------------------------------------------------------------------
\* PipeWake::wake_by_ref: take all waiters ...
Take(c) ==
    /\ c \in due
    /\ due' = due \ {c}
    /\ taken' = [taken EXCEPT ![c] = waiters]
    /\ waiters' = {}
    /\ UNCHANGED <<writing, notified, stream>>

\* ... and wake each of them.
Wake(c) ==
    \E w \in taken[c] :
        /\ taken' = [taken EXCEPT ![c] = @ \ {w}]
        /\ notified' = notified \cup {w}
        /\ UNCHANGED <<writing, waiters, due, stream>>

\* The stream calls the waker it remembers, in the task of the reader.
CallWaker ==
    /\ writeWaker' = FALSE
    /\ due' = IF writeWaker THEN due \cup {Reader} ELSE due

\* The reader is not inside a call of the waker.
ReaderFree ==
    Reader \notin due /\ taken[Reader] = {}

Read ==
    /\ reader = "open" /\ ReaderFree
    /\ \E n \in 1..buffer :
        /\ buffer' = buffer - n
        /\ consumed' = consumed + n
    /\ CallWaker
    /\ UNCHANGED <<writing, waiters, taken, notified, reader>>

Eof ==
    /\ reader = "open" /\ ReaderFree
    /\ buffer = 0 /\ shares = {}
    /\ reader' = "eof"
    /\ UNCHANGED <<writing, waking, buffer, writeWaker, consumed>>

\* The stage on the right ends, or never reads its input.
DropReader ==
    /\ reader # "gone" /\ ReaderFree
    /\ reader' = "gone"
    /\ CallWaker
    /\ UNCHANGED <<writing, waiters, taken, notified, buffer, consumed>>

\* Both stages have let go of the pipe.
Released ==
    /\ reader = "gone" /\ shares = {}
    /\ UNCHANGED vars

Next ==
    \/ \E w \in Writers :
        \/ Enter(w)
        \/ PollAccepted(w) \/ PollBroken(w) \/ PollFull(w) \/ PollDeferred(w)
        \/ Finish(w)
        \/ GiveUp(w)
        \/ Close(w)
    \/ \E c \in Callers : Take(c) \/ Wake(c)
    \/ Read \/ Eof \/ DropReader
    \/ Released

Spec == Init /\ [][Next]_vars

\* A call of the waker runs to its end, and the runtime polls the tasks that
\* were woken.  Nothing is assumed of the commands: a reader may stop reading
\* and a writer may stop writing.
FairSpec ==
    /\ Spec
    /\ \A c \in Callers : WF_vars(Take(c)) /\ WF_vars(Wake(c))
    /\ \A w \in Writers : WF_vars(w \in notified /\ pc[w] = "asleep" /\ Enter(w))

-----------------------------------------------------------------------------
\* Every variable has its type; in particular the pipe never holds more than
\* its capacity and one descriptor at a time polls the stream.
TypeOK ==
    /\ pc \in [Writers -> {"idle", "inserted", "wrote", "broke", "asleep", "closed"}]
    /\ left \in [Writers -> Int]
    /\ \A w \in Writers : left[w] >= 0
    /\ lock \in SUBSET Writers
    /\ \A w \in Writers : w \in lock <=> pc[w] \in {"wrote", "broke"}
    /\ \A v, w \in lock : v = w
    /\ shares \in SUBSET Writers
    /\ waiters \in SUBSET Writers
    /\ due \in SUBSET Callers
    /\ taken \in [Callers -> SUBSET Writers]
    /\ notified \in SUBSET Writers
    /\ accepted \in 0..Capacity
    /\ bytes \in Nat
    /\ broken \in BOOLEAN
    /\ buffer \in 0..Capacity
    /\ writeWaker \in BOOLEAN
    /\ consumed \in Nat
    /\ reader \in {"open", "eof", "gone"}

\* A descriptor whose task sleeps is about to be woken, or the pipe is full and
\* will call the shared waker when that changes, and the descriptor is entered
\* in it: no order of polls, wake-ups, reads and closes of the descriptors
\* loses the wake-up of poll_write.
NoLostWakeup ==
    \A w \in Writers :
        pc[w] = "asleep" =>
            \/ w \in notified
            \/ \E c \in Callers : w \in taken[c]
            \/ w \in waiters /\ due # {}
            \/ w \in waiters /\ writeWaker /\ buffer = Capacity /\ reader # "gone"

\* The reader sees the end of the pipe only when every descriptor is closed and
\* all that was accepted has been read, and the count that exec reports
\* (pipe_bytes) is then exactly what was read.
EofIsComplete ==
    reader = "eof" =>
        /\ \A w \in Writers : pc[w] = "closed"
        /\ buffer = 0
        /\ bytes = consumed

\* A descriptor that sleeps although the pipe has room, or has no reader, is
\* polled again, even if another descriptor fills the pipe before that.
Overslept(w) == pc[w] = "asleep" /\ (buffer < Capacity \/ reader = "gone")
WriterWoken == \A w \in Writers : Overslept(w) ~> pc[w] # "asleep"
=============================================================================
