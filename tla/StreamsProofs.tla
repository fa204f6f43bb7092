---------------------------- MODULE StreamsProofs ----------------------------
(***************************************************************************)
(* What the run streams checks of the pipe between two stages, of the       *)
(* futures that wait for a cancellation and of the captured output, for any  *)
(* number of descriptors, contexts and waiters, any capacity, limit and      *)
(* marker, and any way of cutting the output into writes.                   *)
(***************************************************************************)
EXTENDS MCStreams, SequenceTheorems, TLAPS

(*--------------------------------- the pipe ---------------------------------*)

\* The descriptor's waker is entered, taken by a caller, or already called.
Known(w) ==
    \/ w \in notified
    \/ \E c \in Callers : w \in taken[c]
    \/ w \in waiters

\* A descriptor inside poll_write is known before it looks at the stream.
Entered ==
    \A w \in Writers : pc[w] = "inserted" => Known(w)

\* A caller takes the waiters before it wakes any.
Calls ==
    \A c \in due : taken[c] = {}

\* A write in progress is one the command still had to make.
Writing ==
    \A w \in Writers :
        pc[w] \in {"inserted", "wrote", "broke", "asleep"} => left[w] > 0

\* Every accepted byte is counted, or is being counted under the lock.
Counted ==
    /\ bytes + accepted = buffer + consumed
    /\ lock = {} => accepted = 0

\* A descriptor refers to the stream until it is closed.
Shared ==
    \A w \in Writers : w \in shares <=> pc[w] # "closed"

IInv ==
    /\ TypeOK
    /\ Shared
    /\ Entered
    /\ NoLostWakeup
    /\ Calls
    /\ Writing
    /\ Counted
    /\ EofIsComplete

\* A new pipe satisfies the invariant.
LEMMA Initially == Init => IInv
<1> SUFFICES ASSUME Init PROVE IInv
    OBVIOUS
<1>1. TypeOK
    <2>1. 0 \in 0..Capacity /\ MaxWrites \in Int /\ MaxWrites >= 0
        BY PipeAssumption
    <2>2. \A w \in Writers : pc[w] = "idle" /\ left[w] = MaxWrites
        BY DEF Init
    <2>3. left \in [Writers -> Int] /\ taken \in [Callers -> SUBSET Writers]
        BY <2>1 DEF Init
    <2> QED
        BY <2>1, <2>2, <2>3, Zenon DEF Init, TypeOK
<1>2. Entered /\ NoLostWakeup
    BY DEF Init, Entered, NoLostWakeup
<1>3. Calls /\ Writing /\ Counted
    BY DEF Init, Calls, Writing, Counted
<1>4. EofIsComplete
    BY DEF Init, EofIsComplete
<1>5. Shared
    BY DEF Init, Shared
<1> QED
    BY <1>1, <1>2, <1>3, <1>4, <1>5 DEF IInv

\* A write in the lock is the only one.
LEMMA Alone ==
    ASSUME TypeOK, NEW w \in lock
    PROVE lock \ {w} = {}
BY DEF TypeOK

\* The steps of the descriptors.
LEMMA EnterKeeps == ASSUME IInv, NEW w \in Writers, Enter(w) PROVE IInv'
<1> USE DEF IInv, writing, waking, stream
<1>1. TypeOK'
    BY DEF TypeOK, Enter
<1>2. Entered'
    BY DEF TypeOK, Enter, Entered, Known
<1>3. NoLostWakeup'
    BY DEF TypeOK, Enter, NoLostWakeup
<1>4. Calls' /\ Counted'
    BY DEF TypeOK, Enter, Calls, Counted
<1>5. Writing'
    BY DEF TypeOK, Enter, Writing
<1>6. EofIsComplete'
    BY DEF TypeOK, Enter, EofIsComplete
<1>9. Shared'
    BY DEF TypeOK, Enter, Shared
<1> QED
    BY <1>1, <1>2, <1>3, <1>4, <1>5, <1>6, <1>9

LEMMA PollAcceptedKeeps == ASSUME IInv, NEW w \in Writers, PollAccepted(w) PROVE IInv'
<1> USE PipeAssumption DEF IInv, writing, waking, stream
<1>1. TypeOK'
    BY DEF TypeOK, PollAccepted
<1>2. Entered'
    BY DEF TypeOK, PollAccepted, Entered, Known
<1>3. NoLostWakeup'
    BY DEF TypeOK, PollAccepted, NoLostWakeup
<1>4. Calls'
    BY DEF TypeOK, PollAccepted, Calls
<1>5. Counted'
    BY DEF TypeOK, PollAccepted, Counted
<1>6. Writing'
    BY DEF TypeOK, PollAccepted, Writing
<1>7. EofIsComplete'
    BY DEF TypeOK, PollAccepted, EofIsComplete
<1>9. Shared'
    BY DEF TypeOK, PollAccepted, Shared
<1> QED
    BY <1>1, <1>2, <1>3, <1>4, <1>5, <1>6, <1>7, <1>9

LEMMA PollBrokenKeeps == ASSUME IInv, NEW w \in Writers, PollBroken(w) PROVE IInv'
<1> USE DEF IInv, writing, waking, stream
<1>1. TypeOK'
    BY DEF TypeOK, PollBroken
<1>2. Entered'
    BY DEF TypeOK, PollBroken, Entered, Known
<1>3. NoLostWakeup'
    BY DEF TypeOK, PollBroken, NoLostWakeup
<1>4. Calls' /\ Counted'
    BY DEF TypeOK, PollBroken, Calls, Counted
<1>5. Writing'
    BY DEF TypeOK, PollBroken, Writing
<1>6. EofIsComplete'
    BY DEF TypeOK, PollBroken, EofIsComplete
<1>9. Shared'
    BY DEF TypeOK, PollBroken, Shared
<1> QED
    BY <1>1, <1>2, <1>3, <1>4, <1>5, <1>6, <1>9

LEMMA PollFullKeeps == ASSUME IInv, NEW w \in Writers, PollFull(w) PROVE IInv'
<1> USE DEF IInv, writing, waking, stream
<1>1. TypeOK'
    BY DEF TypeOK, PollFull
<1>2. Entered'
    BY DEF TypeOK, PollFull, Entered, Known
<1>3. NoLostWakeup'
    BY DEF TypeOK, PollFull, NoLostWakeup, Entered, Known
<1>4. Calls' /\ Counted'
    BY DEF TypeOK, PollFull, Calls, Counted
<1>5. Writing'
    BY DEF TypeOK, PollFull, Writing
<1>6. EofIsComplete'
    BY DEF TypeOK, PollFull, EofIsComplete
<1>9. Shared'
    BY DEF TypeOK, PollFull, Shared
<1> QED
    BY <1>1, <1>2, <1>3, <1>4, <1>5, <1>6, <1>9

LEMMA PollDeferredKeeps == ASSUME IInv, NEW w \in Writers, PollDeferred(w) PROVE IInv'
<1> USE DEF IInv, writing, waking, stream
<1>1. TypeOK'
    BY DEF TypeOK, PollDeferred, Callers
<1>2. Entered'
    BY DEF TypeOK, PollDeferred, Entered, Known
<1>3. NoLostWakeup'
    BY DEF TypeOK, PollDeferred, NoLostWakeup, Entered, Known
<1>4. Calls' /\ Counted'
    BY DEF TypeOK, PollDeferred, Calls, Counted
<1>5. Writing'
    BY DEF TypeOK, PollDeferred, Writing
<1>6. EofIsComplete'
    BY DEF TypeOK, PollDeferred, EofIsComplete
<1>9. Shared'
    BY DEF TypeOK, PollDeferred, Shared
<1> QED
    BY <1>1, <1>2, <1>3, <1>4, <1>5, <1>6, <1>9

LEMMA FinishKeeps == ASSUME IInv, NEW w \in Writers, Finish(w) PROVE IInv'
<1> USE DEF IInv, writing, waking, stream
<1>0. lock' = {} /\ w \in lock /\ pc[w] \in {"wrote", "broke"}
    BY Alone DEF Finish
<1>1. TypeOK'
    <2>1. \A v \in Writers : v # w => pc[v] \notin {"wrote", "broke"}
        BY DEF TypeOK, Finish
    <2>2. pc' \in [Writers -> {"idle", "inserted", "wrote", "broke", "asleep", "closed"}]
        BY DEF TypeOK, Finish
    <2>3. left' \in [Writers -> Int] /\ \A v \in Writers : left'[v] >= 0
        BY <1>0 DEF TypeOK, Finish, Writing
    <2>4. \A v \in Writers : v \in lock' <=> pc'[v] \in {"wrote", "broke"}
        BY <1>0, <2>1 DEF TypeOK, Finish
    <2>5. bytes' \in Nat /\ accepted' \in 0..Capacity
        BY PipeAssumption DEF TypeOK, Finish
    <2>6. broken' \in BOOLEAN /\ waiters' \in SUBSET Writers
        BY Zenon DEF TypeOK, Finish
    <2> QED
        BY <1>0, <2>2, <2>3, <2>4, <2>5, <2>6 DEF TypeOK, Finish
<1>2. Entered'
    BY DEF TypeOK, Finish, Entered, Known
<1>3. NoLostWakeup'
    BY DEF TypeOK, Finish, NoLostWakeup
<1>4. Calls' /\ Counted'
    BY DEF TypeOK, Finish, Calls, Counted
<1>5. Writing'
    BY DEF TypeOK, Finish, Writing
<1>6. EofIsComplete'
    BY <1>0 DEF TypeOK, Finish, EofIsComplete
<1>9. Shared'
    BY DEF TypeOK, Finish, Shared
<1> QED
    BY <1>1, <1>2, <1>3, <1>4, <1>5, <1>6, <1>9

LEMMA GiveUpKeeps == ASSUME IInv, NEW w \in Writers, GiveUp(w) PROVE IInv'
<1> USE DEF IInv, writing, waking, stream
<1>1. TypeOK'
    BY DEF TypeOK, GiveUp
<1>2. Entered' /\ NoLostWakeup'
    BY DEF TypeOK, GiveUp, Entered, Known, NoLostWakeup
<1>3. Calls' /\ Writing' /\ Counted'
    BY DEF TypeOK, GiveUp, Calls, Writing, Counted
<1>4. EofIsComplete'
    BY DEF TypeOK, GiveUp, EofIsComplete
<1>9. Shared'
    BY DEF TypeOK, GiveUp, Shared
<1> QED
    BY <1>1, <1>2, <1>3, <1>4, <1>9

LEMMA CloseKeeps == ASSUME IInv, NEW w \in Writers, Close(w) PROVE IInv'
<1> USE DEF IInv, writing, waking, stream
<1>1. TypeOK'
    BY DEF TypeOK, Close
<1>2. Entered'
    BY DEF TypeOK, Close, Entered, Known
<1>3. NoLostWakeup'
    BY DEF TypeOK, Close, NoLostWakeup
<1>4. Calls' /\ Writing' /\ Counted'
    BY DEF TypeOK, Close, Calls, Writing, Counted
<1>5. EofIsComplete'
    BY DEF TypeOK, Close, EofIsComplete
<1>9. Shared'
    BY DEF TypeOK, Close, Shared
<1> QED
    BY <1>1, <1>2, <1>3, <1>4, <1>5, <1>9

\* The steps of the shared waker.
LEMMA TakeKeeps == ASSUME IInv, NEW c \in Callers, Take(c) PROVE IInv'
<1> USE DEF IInv, writing, waking, stream
<1>1. taken[c] = {}
    BY DEF Take, Calls
<1>2. /\ taken'[c] = waiters
      /\ \A d \in Callers : d # c => taken'[d] = taken[d]
    BY DEF Take, TypeOK
<1>3. TypeOK'
    BY DEF TypeOK, Take
<1>4. \A w \in Writers : Known(w) => Known(w)'
    BY <1>1, <1>2 DEF Take, Known
<1>5. Entered'
    BY <1>4 DEF Take, Entered
<1>6. NoLostWakeup'
    BY <1>1, <1>2 DEF Take, NoLostWakeup
<1>7. Calls'
    BY <1>2 DEF Take, Calls, TypeOK
<1>8. Writing' /\ Counted' /\ EofIsComplete'
    BY DEF Take, Writing, Counted, EofIsComplete
<1>9. Shared'
    BY DEF TypeOK, Take, Shared
<1> QED
    BY <1>3, <1>5, <1>6, <1>7, <1>8, <1>9

LEMMA WakeKeeps == ASSUME IInv, NEW c \in Callers, Wake(c) PROVE IInv'
<1> USE DEF IInv, writing, waking, stream
<1>1. PICK v \in taken[c] :
        /\ taken' = [taken EXCEPT ![c] = @ \ {v}]
        /\ notified' = notified \cup {v}
        /\ UNCHANGED <<writing, waiters, due, stream>>
    BY Zenon DEF Wake
<1>2. /\ taken'[c] = taken[c] \ {v}
      /\ \A d \in Callers : d # c => taken'[d] = taken[d]
    BY <1>1 DEF TypeOK
<1>3. TypeOK'
    BY <1>1 DEF TypeOK
<1>4. \A w \in Writers : Known(w) => Known(w)'
    BY <1>1, <1>2 DEF Known
<1>5. Entered'
    BY <1>1, <1>4 DEF Entered
<1>6. NoLostWakeup'
    BY <1>1, <1>2 DEF NoLostWakeup
<1>7. Calls'
    BY <1>1, <1>2 DEF Calls, TypeOK
<1>8. Writing' /\ Counted' /\ EofIsComplete'
    BY <1>1 DEF Writing, Counted, EofIsComplete
<1>9. Shared'
    BY <1>1 DEF Shared
<1> QED
    BY <1>3, <1>5, <1>6, <1>7, <1>8, <1>9

\* The steps of the reader.
LEMMA ReadKeeps == ASSUME IInv, Read PROVE IInv'
<1> USE DEF IInv, writing, waking, stream
<1>1. TypeOK'
    <2>1. buffer' \in 0..Capacity /\ consumed' \in Nat
        BY PipeAssumption DEF TypeOK, Read
    <2>2. due' \in SUBSET Callers
        BY DEF TypeOK, Read, CallWaker, Callers
    <2> QED
        BY <2>1, <2>2, Zenon DEF TypeOK, Read, CallWaker
<1>2. Entered'
    BY DEF Read, Entered, Known
<1>3. NoLostWakeup'
    BY DEF Read, CallWaker, NoLostWakeup, TypeOK
<1>4. Calls'
    BY DEF Read, CallWaker, ReaderFree, Calls
<1>5. Writing'
    BY DEF Read, Writing
<1>6. Counted'
    BY PipeAssumption DEF TypeOK, Read, Counted
<1>7. EofIsComplete'
    BY DEF Read, EofIsComplete
<1>9. Shared'
    BY DEF TypeOK, Read, Shared
<1> QED
    BY <1>1, <1>2, <1>3, <1>4, <1>5, <1>6, <1>7, <1>9

LEMMA EofKeeps == ASSUME IInv, Eof PROVE IInv'
<1> USE DEF IInv, writing, waking, stream
<1>1. TypeOK'
    BY DEF TypeOK, Eof
<1>2. Entered' /\ NoLostWakeup'
    BY DEF Eof, Entered, Known, NoLostWakeup
<1>3. Calls' /\ Writing' /\ Counted'
    BY DEF Eof, Calls, Writing, Counted
<1>4. EofIsComplete'
    <2>1. lock = {}
        BY DEF TypeOK, Shared, Eof
    <2> QED
        BY <2>1 DEF TypeOK, Shared, Eof, Counted, EofIsComplete
<1>9. Shared'
    BY DEF TypeOK, Eof, Shared
<1> QED
    BY <1>1, <1>2, <1>3, <1>4, <1>9

LEMMA DropReaderKeeps == ASSUME IInv, DropReader PROVE IInv'
<1> USE DEF IInv, writing, waking, stream
<1>1. TypeOK'
    BY Zenon DEF TypeOK, DropReader, CallWaker, Callers
<1>2. Entered'
    BY DEF DropReader, Entered, Known
<1>3. NoLostWakeup'
    BY DEF DropReader, CallWaker, NoLostWakeup
<1>4. Calls'
    BY DEF DropReader, CallWaker, ReaderFree, Calls
<1>5. Writing' /\ Counted' /\ EofIsComplete'
    BY DEF DropReader, Writing, Counted, EofIsComplete
<1>9. Shared'
    BY DEF TypeOK, DropReader, Shared
<1> QED
    BY <1>1, <1>2, <1>3, <1>4, <1>5, <1>9

\* Every step of the pipe keeps the invariant.
LEMMA Inductive == IInv /\ [Next]_vars => IInv'
<1> SUFFICES ASSUME IInv, [Next]_vars PROVE IInv'
    OBVIOUS
<1>1. CASE UNCHANGED vars
    BY <1>1 DEF vars, writing, waking, stream, IInv, TypeOK, Shared, Entered, Known,
        NoLostWakeup, Calls, Writing, Counted, EofIsComplete
<1>2. CASE \E w \in Writers :
              \/ Enter(w)
              \/ PollAccepted(w) \/ PollBroken(w) \/ PollFull(w) \/ PollDeferred(w)
              \/ Finish(w) \/ GiveUp(w) \/ Close(w)
    BY <1>2, EnterKeeps, PollAcceptedKeeps, PollBrokenKeeps, PollFullKeeps,
       PollDeferredKeeps, FinishKeeps, GiveUpKeeps, CloseKeeps
<1>3. CASE \E c \in Callers : Take(c) \/ Wake(c)
    BY <1>3, TakeKeeps, WakeKeeps
<1>4. CASE Read \/ Eof \/ DropReader
    BY <1>4, ReadKeeps, EofKeeps, DropReaderKeeps
<1> QED
    BY <1>1, <1>2, <1>3, <1>4 DEF Next, Released

LEMMA Invariant == Spec => []IInv
BY Initially, Inductive, PTL DEF Spec

-----------------------------------------------------------------------------
\* The variables of a pipe keep their types: it never holds more than its
\* capacity and one descriptor at a time is inside the stream.
THEOREM TypeCorrect == Spec => []TypeOK
BY Invariant, PTL DEF IInv

\* poll_write never leaves a descriptor asleep that nobody will wake, for any
\* number of descriptors and any capacity.
THEOREM NoWakeupLost == Spec => []NoLostWakeup
BY Invariant, PTL DEF IInv

\* The reader sees the end of the pipe only after all the bytes that any
\* descriptor wrote, and pipe_bytes counts exactly those.
THEOREM CompleteAtEof == Spec => []EofIsComplete
BY Invariant, PTL DEF IInv

-----------------------------------------------------------------------------
(*------------------------------- cancellation ------------------------------*)

\* Once a waiter has looked at the flags, a cancellation it did not see has
\* reached it, or will.
Reached ==
    \A w \in Waiters : \A s \in Watched(w) :
        wpc[w] \in {"polled", "parked"} /\ s \in cancelled => s \in pending \/ s \in heard[w]

\* A notification the last poll did not find has woken the task.
Roused ==
    \A w \in Waiters : \A s \in Polled(w) : s \in heard[w] => w \in woken

HostInv == HostTypeOK /\ Reached /\ Roused

\* An idle waiter satisfies the invariant.
LEMMA HostStarts == HostInit => HostInv
<1> SUFFICES ASSUME HostInit PROVE HostInv
    OBVIOUS
<1>1. HostTypeOK
    BY HostAssumption DEF HostInit, HostTypeOK, Pcs
<1>2. \A w \in Waiters : wpc[w] = "idle" /\ heard[w] = {}
    BY DEF HostInit
<1>3. Reached /\ Roused
    BY <1>2 DEF Reached, Roused
<1> QED
    BY <1>1, <1>3 DEF HostInv

\* A step of one waiter that changes neither the flags nor what the others
\* heard keeps the invariant if it keeps it for that waiter.
LEMMA OneWaiter ==
    ASSUME HostInv, HostTypeOK', NEW w \in Waiters,
           UNCHANGED <<context, cancelled, pending>>,
           \A v \in Waiters \ {w} :
               /\ wpc'[v] = wpc[v] /\ heard'[v] = heard[v]
               /\ v \in woken' <=> v \in woken,
           \A s \in Watched(w) :
               wpc'[w] \in {"polled", "parked"} /\ s \in cancelled =>
                   s \in pending \/ s \in heard'[w],
           wpc'[w] = "polled" => (Own(w) \in heard'[w] => w \in woken'),
           wpc'[w] = "parked" => \A s \in Watched(w) : s \in heard'[w] => w \in woken'
    PROVE  HostInv'
<1>1. \A v \in Waiters : Watched(v)' = Watched(v) /\ Own(v)' = Own(v)
    BY DEF Watched, Own, Parent
<1>2. Reached'
    <2> SUFFICES ASSUME NEW v \in Waiters, NEW s \in Watched(v)',
                        wpc'[v] \in {"polled", "parked"}, s \in cancelled'
                 PROVE  s \in pending' \/ s \in heard'[v]
        BY DEF Reached
    <2>1. CASE v = w
        BY <1>1, <2>1
    <2>2. CASE v # w
        BY <1>1, <2>2 DEF HostInv, Reached
    <2> QED
        BY <2>1, <2>2
<1>3. Roused'
    <2> SUFFICES ASSUME NEW v \in Waiters, NEW s \in Polled(v)', s \in heard'[v]
                 PROVE  v \in woken'
        BY DEF Roused
    <2>0. wpc'[v] \in Pcs /\ wpc[v] \in Pcs
        BY DEF HostInv, HostTypeOK
    <2>1. CASE v = w
        <3>1. CASE wpc'[w] = "polled"
            <4>1. s = Own(w)
                BY <1>1, <2>1, <3>1 DEF Polled
            <4> QED
                BY <2>1, <3>1, <4>1
        <3>2. CASE wpc'[w] = "parked"
            <4>1. s \in Watched(w)
                BY <1>1, <2>1, <3>2 DEF Polled
            <4> QED
                BY <2>1, <3>2, <4>1
        <3>3. CASE wpc'[w] \in Pcs \ {"polled", "parked"}
            <4>1. wpc'[w] # "polled" /\ wpc'[w] # "parked"
                BY <3>3
            <4>2. Polled(v)' = {}
                BY <2>1, <3>3, <4>1 DEF Polled
            <4> QED
                BY <4>2
        <3> QED
            BY <2>0, <2>1, <3>1, <3>2, <3>3
    <2>2. CASE v # w
        <3>1. Polled(v)' = Polled(v)
            BY <1>1, <2>2, Zenon DEF Polled
        <3> QED
            BY <2>2, <3>1 DEF HostInv, Roused
    <2> QED
        BY <2>1, <2>2
<1> QED
    BY <1>2, <1>3 DEF HostInv

\* Types are kept by every step.
LEMMA HostTypes == HostInv /\ HostNext => HostTypeOK'
<1> SUFFICES ASSUME HostInv, HostNext PROVE HostTypeOK'
    OBVIOUS
<1> USE DEF HostInv, HostTypeOK, Pcs
<1>1. ASSUME NEW s \in States, Store(s) PROVE HostTypeOK'
    BY <1>1 DEF Store
<1>2. ASSUME NEW s \in States, Notify(s) PROVE HostTypeOK'
    BY <1>2 DEF Notify
<1>3. ASSUME NEW w \in Waiters, RegisterOwn(w) PROVE HostTypeOK'
    <2>1. waits[w] \in Nat /\ waits[w] > 0
        BY <1>3 DEF RegisterOwn
    <2>2. waits[w] - 1 \in Nat
        BY <2>1
    <2> QED
        BY <1>3, <2>2 DEF RegisterOwn, At
<1>4. ASSUME NEW w \in Waiters, RegisterParent(w) PROVE HostTypeOK'
    BY <1>4 DEF RegisterParent, At
<1>5. ASSUME NEW w \in Waiters, CheckFirst(w) PROVE HostTypeOK'
    BY <1>5 DEF CheckFirst, Returns
<1>6. ASSUME NEW w \in Waiters, PollOwn(w) PROVE HostTypeOK'
    BY <1>6 DEF PollOwn, Returns
<1>7. ASSUME NEW w \in Waiters, PollParent(w) PROVE HostTypeOK'
    BY <1>7 DEF PollParent, Returns
<1>8. ASSUME NEW w \in Waiters, Resume(w) PROVE HostTypeOK'
    BY <1>8 DEF Resume, At
<1>9. ASSUME NEW w \in Waiters, TimerFires(w) PROVE HostTypeOK'
    BY <1>9 DEF TimerFires, Returns
<1>10. ASSUME NEW w \in Waiters, Expire(w) PROVE HostTypeOK'
    BY <1>10 DEF Expire
<1>11. ASSUME NEW w \in Waiters, DropWait(w) PROVE HostTypeOK'
    BY <1>11 DEF DropWait
<1> QED
    BY <1>1, <1>2, <1>3, <1>4, <1>5, <1>6, <1>7, <1>8, <1>9, <1>10, <1>11, Zenon DEF HostNext, Wait

\* Every step of HostContext::cancelled and of cancel keeps the invariant.
LEMMA HostSteps == HostInv /\ [HostNext]_hostVars => HostInv'
<1> SUFFICES ASSUME HostInv, [HostNext]_hostVars PROVE HostInv'
    OBVIOUS
<1>1. ASSUME NEW s \in States, Store(s) PROVE HostInv'
    <2>1. HostTypeOK'
        BY <1>1, HostTypes DEF HostNext
    <2>2. UNCHANGED <<context, wpc, heard, woken>> /\ pending' = pending \cup {s}
          /\ cancelled' = cancelled \cup {s}
        BY <1>1 DEF Store
    <2>3. \A w \in Waiters : Watched(w)' = Watched(w) /\ Polled(w)' = Polled(w)
        BY <2>2 DEF Watched, Polled, Own, Parent
    <2>4. Reached'
        BY <2>2, <2>3 DEF HostInv, Reached
    <2>5. Roused'
        BY <2>2, <2>3 DEF HostInv, Roused
    <2> QED
        BY <2>1, <2>4, <2>5 DEF HostInv
<1>2. ASSUME NEW s \in States, Notify(s) PROVE HostInv'
    <2>1. HostTypeOK'
        BY <1>2, HostTypes, SMTT(30) DEF HostNext
    <2>2. /\ UNCHANGED <<context, wpc, cancelled>> /\ pending' = pending \ {s}
          /\ heard' = [w \in Waiters |-> IF s \in Receives(w) THEN heard[w] \cup {s} ELSE heard[w]]
          /\ woken' = woken \cup {w \in Waiters : s \in Polled(w)}
        BY <1>2 DEF Notify
    <2>3. \A w \in Waiters : Watched(w)' = Watched(w) /\ Polled(w)' = Polled(w)
        BY <2>2 DEF Watched, Polled, Own, Parent
    <2>4. Reached'
        <3> SUFFICES ASSUME NEW w \in Waiters, NEW r \in Watched(w),
                            wpc[w] \in {"polled", "parked"}, r \in cancelled
                     PROVE  r \in pending' \/ r \in heard'[w]
            BY <2>2, <2>3 DEF Reached
        <3>1. r \in pending \/ r \in heard[w]
            BY DEF HostInv, Reached
        <3>2. Receives(w) = Watched(w)
            BY DEF Receives, Enabled
        <3> QED
            BY <2>2, <3>1, <3>2
    <2>5. Roused'
        <3> SUFFICES ASSUME NEW w \in Waiters, NEW r \in Polled(w), r \in heard'[w]
                     PROVE  w \in woken'
            BY <2>3 DEF Roused
        <3>1. r \in heard[w] \/ r = s
            BY <2>2
        <3> QED
            BY <2>2, <3>1 DEF HostInv, Roused
    <2> QED
        BY <2>1, <2>4, <2>5 DEF HostInv
<1>3. ASSUME NEW w \in Waiters, RegisterOwn(w) \/ RegisterParent(w) \/ Resume(w)
      PROVE  HostInv'
    <2>1. HostTypeOK'
        BY <1>3, HostTypes DEF HostNext, Wait
    <2>2. /\ UNCHANGED <<context, cancelled, pending, heard, woken>>
          /\ wpc'[w] \in {"own", "registered", "polling"}
          /\ \A v \in Waiters \ {w} : wpc'[v] = wpc[v]
        BY <1>3 DEF RegisterOwn, RegisterParent, Resume, At, HostInv, HostTypeOK
    <2> QED
        BY <2>1, <2>2, OneWaiter
<1>4. ASSUME NEW w \in Waiters, wpc' = [wpc EXCEPT ![w] = "returned"],
             UNCHANGED <<context, cancelled, pending, heard, woken>>, HostTypeOK'
      PROVE  HostInv'
    <2>1. wpc'[w] = "returned" /\ \A v \in Waiters \ {w} : wpc'[v] = wpc[v]
        BY <1>4 DEF HostInv, HostTypeOK
    <2> QED
        BY <1>4, <2>1, OneWaiter
<1>5. ASSUME NEW w \in Waiters, CheckFirst(w) PROVE HostInv'
    <2>1. HostTypeOK'
        BY <1>5, HostTypes DEF HostNext, Wait
    <2>2. CASE IsCancelled(w)
        BY <1>4, <1>5, <2>1, <2>2 DEF CheckFirst, Returns
    <2>3. CASE ~IsCancelled(w)
        <3>1. /\ UNCHANGED <<context, cancelled, pending, heard, woken>>
              /\ wpc'[w] = "polling" /\ \A v \in Waiters \ {w} : wpc'[v] = wpc[v]
            BY <1>5, <2>3 DEF CheckFirst, HostInv, HostTypeOK
        <3> QED
            BY <2>1, <3>1, OneWaiter
    <2> QED
        BY <2>2, <2>3
<1>6. ASSUME NEW w \in Waiters, PollOwn(w) PROVE HostInv'
    <2>1. HostTypeOK'
        BY <1>6, HostTypes DEF HostNext, Wait
    <2>2. CASE IsCancelled(w) \/ Own(w) \in heard[w]
        BY <1>4, <1>6, <2>1, <2>2, SMTT(30) DEF PollOwn, Returns
    <2>3. CASE ~(IsCancelled(w) \/ Own(w) \in heard[w])
        <3>1. /\ UNCHANGED <<context, cancelled, pending, heard>> /\ woken' = woken \ {w}
              /\ wpc'[w] = "polled" /\ \A v \in Waiters \ {w} : wpc'[v] = wpc[v]
            BY <1>6, <2>3 DEF PollOwn, HostInv, HostTypeOK
        <3>2. \A s \in Watched(w) : s \notin cancelled
            BY <2>3 DEF IsCancelled
        <3>3. Own(w) \notin heard'[w]
            BY <2>3, <3>1
        <3> QED
            BY <2>1, <3>1, <3>2, <3>3, OneWaiter
    <2> QED
        BY <2>2, <2>3
<1>7. ASSUME NEW w \in Waiters, PollParent(w) PROVE HostInv'
    <2>1. HostTypeOK'
        BY <1>7, HostTypes DEF HostNext, Wait
    <2>2. CASE Parent(w) \cap heard[w] # {}
        BY <1>4, <1>7, <2>1, <2>2, SMTT(30) DEF PollParent, Returns
    <2>3. CASE Parent(w) \cap heard[w] = {}
        <3>1. /\ UNCHANGED <<context, cancelled, pending, heard, woken>> /\ wpc[w] = "polled"
              /\ wpc'[w] = "parked" /\ \A v \in Waiters \ {w} : wpc'[v] = wpc[v]
            BY <1>7, <2>3, SMTT(30) DEF PollParent, HostInv, HostTypeOK
        <3>2. \A s \in Watched(w) : s \in cancelled => s \in pending \/ s \in heard[w]
            BY <3>1 DEF HostInv, Reached
        <3>3. Own(w) \in heard[w] => w \in woken
            <4>1. Own(w) \in Polled(w)
                BY <3>1 DEF Polled
            <4> QED
                BY <4>1 DEF HostInv, Roused
        <3>4. \A s \in Watched(w) : s \in heard'[w] => w \in woken'
            BY <2>3, <3>1, <3>3 DEF Watched
        <3> QED
            BY <2>1, <3>1, <3>2, <3>4, OneWaiter
    <2> QED
        BY <2>2, <2>3
<1>8. ASSUME NEW w \in Waiters, TimerFires(w) PROVE HostInv'
    <2>1. HostTypeOK'
        BY <1>8, HostTypes DEF HostNext, Wait
    <2> QED
        BY <1>4, <1>8, <2>1, Zenon DEF TimerFires, Returns
<1>9. ASSUME NEW w \in Waiters, Expire(w) PROVE HostInv'
    <2>1. HostTypeOK'
        BY <1>9, HostTypes DEF HostNext
    <2>2. UNCHANGED <<context, cancelled, pending, wpc, heard, woken>>
        BY <1>9 DEF Expire
    <2> QED
        BY <2>1, <2>2, Zenon DEF HostInv, Reached, Roused, Watched, Polled, Own, Parent
<1>10. ASSUME NEW w \in Waiters, DropWait(w) PROVE HostInv'
    <2>1. HostTypeOK'
        BY <1>10, HostTypes DEF HostNext
    <2>2. /\ UNCHANGED <<context, cancelled, pending>> /\ wpc'[w] = "idle"
          /\ \A v \in Waiters \ {w} :
                wpc'[v] = wpc[v] /\ heard'[v] = heard[v] /\ (v \in woken' <=> v \in woken)
        BY <1>10 DEF DropWait, HostInv, HostTypeOK
    <2> QED
        BY <2>1, <2>2, OneWaiter
<1>11. CASE UNCHANGED hostVars
    BY <1>11 DEF hostVars, HostInv, HostTypeOK, Reached, Roused, Watched, Polled, Own, Parent
<1> QED
    BY <1>1, <1>2, <1>3, <1>5, <1>6, <1>7, <1>8, <1>9, <1>10, <1>11 DEF HostNext, Wait

\* A host future asleep in HostContext::cancelled is woken after every
\* cancellation of its context or of the execution, for any number of both.
THEOREM CancellationReaches == HostSpec => []NoLostCancellation
<1>1. HostInv => NoLostCancellation
    <2> SUFFICES ASSUME HostInv, NEW w \in Waiters, NEW s \in Watched(w),
                        wpc[w] = "parked", s \in cancelled
                 PROVE  s \in pending \/ w \in woken
        BY DEF NoLostCancellation
    <2>1. s \in pending \/ s \in heard[w]
        BY DEF HostInv, Reached
    <2>2. s \in Polled(w)
        BY DEF Polled
    <2> QED
        BY <2>1, <2>2 DEF HostInv, Roused
<1> QED
    BY <1>1, HostStarts, HostSteps, PTL DEF HostSpec

-----------------------------------------------------------------------------
(*----------------------------- captured output -----------------------------*)

(*------------------------------- sequences ---------------------------------*)

\* Concatenations of bytes can be regrouped.
LEMMA Regroup == \A s, t, u \in Seq(Byte) : (s \o t) \o u = s \o (t \o u)
BY ConcatAssociative, SMTT(30)

\* The bytes a part of a sequence consists of.
LEMMA PartOf ==
    ASSUME NEW s \in Seq(Byte), NEW m \in Nat \ {0}, NEW n \in Nat,
           n <= Len(s), m <= n + 1
    PROVE  /\ SubSeq(s, m, n) \in Seq(Byte)
           /\ Len(SubSeq(s, m, n)) = n - m + 1
           /\ \A i \in 1..(n - m + 1) : SubSeq(s, m, n)[i] = s[m + i - 1]
<1>1. \A i \in m..n : s[i] \in Byte
    <2>1. \A i \in m..n : i \in 1..Len(s)
        BY LenProperties
    <2> QED
        BY <2>1, ElementOfSeq
<1>2. m \in Int /\ n \in Int
    OBVIOUS
<1>3. /\ SubSeq(s, m, n) \in Seq(Byte)
      /\ Len(SubSeq(s, m, n)) = IF m <= n THEN n - m + 1 ELSE 0
      /\ \A i \in 1..(n - m + 1) : SubSeq(s, m, n)[i] = s[m + i - 1]
    BY <1>1, <1>2, SubSeqProperties
<1> QED
    BY <1>3

\* The last n bytes of a sequence.
LEMMA SuffixOf ==
    ASSUME NEW s \in Seq(Byte), NEW n \in Nat, n <= Len(s)
    PROVE  /\ Suffix(s, n) \in Seq(Byte)
           /\ Len(Suffix(s, n)) = n
           /\ \A i \in 1..n : Suffix(s, n)[i] = s[Len(s) - n + i]
<1>1. Len(s) \in Nat
    BY LenProperties
<1> DEFINE m == Len(s) - n + 1
<1>2. m \in Nat \ {0} /\ m <= Len(s) + 1 /\ Len(s) - m + 1 = n
    BY <1>1
<1>3. /\ SubSeq(s, m, Len(s)) \in Seq(Byte)
      /\ Len(SubSeq(s, m, Len(s))) = Len(s) - m + 1
      /\ \A i \in 1..(Len(s) - m + 1) : SubSeq(s, m, Len(s))[i] = s[m + i - 1]
    <2> HIDE DEF m
    <2> QED
        BY <1>1, <1>2, PartOf
<1>4. \A i \in 1..n : m + i - 1 = Len(s) - n + i
    BY <1>1
<1> QED
    BY <1>2, <1>3, <1>4 DEF Suffix

\* The first n bytes of a sequence.
LEMMA FirstOf ==
    ASSUME NEW s \in Seq(Byte), NEW n \in Nat, n <= Len(s)
    PROVE  /\ First(s, n) \in Seq(Byte)
           /\ Len(First(s, n)) = n
           /\ \A i \in 1..n : First(s, n)[i] = s[i]
<1>1. /\ SubSeq(s, 1, n) \in Seq(Byte)
      /\ Len(SubSeq(s, 1, n)) = n - 1 + 1
      /\ \A i \in 1..(n - 1 + 1) : SubSeq(s, 1, n)[i] = s[1 + i - 1]
    BY PartOf
<1>2. n - 1 + 1 = n /\ \A i \in 1..n : 1 + i - 1 = i
    OBVIOUS
<1> QED
    BY <1>1, <1>2 DEF First

\* What is written later leaves the first bytes alone.
LEMMA FirstOfMore ==
    ASSUME NEW s \in Seq(Byte), NEW d \in Seq(Byte), NEW n \in Nat, n <= Len(s)
    PROVE  First(s \o d, n) = First(s, n)
<1>1. /\ s \o d \in Seq(Byte)
      /\ Len(s \o d) = Len(s) + Len(d)
      /\ \A i \in 1..Len(s) + Len(d) :
            (s \o d)[i] = IF i <= Len(s) THEN s[i] ELSE d[i - Len(s)]
    BY ConcatProperties
<1>2. Len(s) \in Nat /\ Len(d) \in Nat
    BY LenProperties
<1>3. n <= Len(s \o d)
    BY <1>1, <1>2
<1>4. /\ First(s \o d, n) \in Seq(Byte) /\ Len(First(s \o d, n)) = n
      /\ \A i \in 1..n : First(s \o d, n)[i] = (s \o d)[i]
    BY <1>1, <1>3, FirstOf, Zenon
<1>5. /\ First(s, n) \in Seq(Byte) /\ Len(First(s, n)) = n
      /\ \A i \in 1..n : First(s, n)[i] = s[i]
    BY FirstOf
<1>6. \A i \in 1..n : First(s \o d, n)[i] = First(s, n)[i]
    BY <1>1, <1>2, <1>4, <1>5
<1> QED
    BY <1>4, <1>5, <1>6, SeqEqual

\* The last bytes of a long write are those of everything written.
LEMMA SuffixOfLong ==
    ASSUME NEW s \in Seq(Byte), NEW d \in Seq(Byte), NEW n \in Nat, n <= Len(d)
    PROVE  Suffix(s \o d, n) = Suffix(d, n)
<1>1. /\ s \o d \in Seq(Byte)
      /\ Len(s \o d) = Len(s) + Len(d)
      /\ \A i \in 1..Len(s) + Len(d) :
            (s \o d)[i] = IF i <= Len(s) THEN s[i] ELSE d[i - Len(s)]
    BY ConcatProperties
<1>2. Len(s) \in Nat /\ Len(d) \in Nat
    BY LenProperties
<1>3. n <= Len(s \o d)
    BY <1>1, <1>2
<1>4. /\ Suffix(s \o d, n) \in Seq(Byte) /\ Len(Suffix(s \o d, n)) = n
      /\ \A i \in 1..n : Suffix(s \o d, n)[i] = (s \o d)[Len(s) + Len(d) - n + i]
    <2> DEFINE w == s \o d
    <2>1. w \in Seq(Byte) /\ Len(w) = Len(s) + Len(d) /\ n <= Len(w)
        BY <1>1, <1>3
    <2> HIDE DEF w
    <2>2. /\ Suffix(w, n) \in Seq(Byte) /\ Len(Suffix(w, n)) = n
          /\ \A i \in 1..n : Suffix(w, n)[i] = w[Len(w) - n + i]
        BY <2>1, SuffixOf, Zenon
    <2>3. \A i \in 1..n : Suffix(w, n)[i] = w[Len(s) + Len(d) - n + i]
        BY <2>1, <2>2
    <2> QED
        BY <2>2, <2>3, Zenon DEF w
<1>5. /\ Suffix(d, n) \in Seq(Byte) /\ Len(Suffix(d, n)) = n
      /\ \A i \in 1..n : Suffix(d, n)[i] = d[Len(d) - n + i]
    BY SuffixOf
<1>6. ASSUME NEW i \in 1..n
      PROVE  (s \o d)[Len(s) + Len(d) - n + i] = d[Len(d) - n + i]
    <2>1. /\ Len(s) + Len(d) - n + i \in 1..(Len(s) + Len(d))
          /\ ~(Len(s) + Len(d) - n + i <= Len(s))
          /\ Len(s) + Len(d) - n + i - Len(s) = Len(d) - n + i
        BY <1>2
    <2> QED
        BY <2>1, <1>1
<1>7. \A i \in 1..n : Suffix(s \o d, n)[i] = Suffix(d, n)[i]
    BY <1>4, <1>5, <1>6, Zenon
<1> QED
    BY <1>4, <1>5, <1>7, SeqEqual

\* A short write pushes as many bytes out of the tail as it has.
LEMMA SuffixOfShort ==
    ASSUME NEW s \in Seq(Byte), NEW d \in Seq(Byte), NEW n \in Nat,
           n <= Len(s), Len(d) < n
    PROVE  Suffix(Suffix(s, n), n - Len(d)) \o d = Suffix(s \o d, n)
<1>1. /\ s \o d \in Seq(Byte)
      /\ Len(s \o d) = Len(s) + Len(d)
      /\ \A i \in 1..Len(s) + Len(d) :
            (s \o d)[i] = IF i <= Len(s) THEN s[i] ELSE d[i - Len(s)]
    BY ConcatProperties
<1>2. Len(s) \in Nat /\ Len(d) \in Nat /\ n - Len(d) \in Nat /\ n - Len(d) <= n
    BY LenProperties
<1>3. /\ Suffix(s, n) \in Seq(Byte) /\ Len(Suffix(s, n)) = n
      /\ \A i \in 1..n : Suffix(s, n)[i] = s[Len(s) - n + i]
    BY SuffixOf, Zenon
<1> DEFINE t == Suffix(s, n)
           k == n - Len(d)
           u == Suffix(t, k)
<1>4. /\ u \in Seq(Byte) /\ Len(u) = k
      /\ \A i \in 1..k : u[i] = t[n - k + i]
    <2>1. t \in Seq(Byte) /\ Len(t) = n /\ k \in Nat /\ k <= Len(t)
        BY <1>2, <1>3
    <2> HIDE DEF t, k
    <2>2. /\ Suffix(t, k) \in Seq(Byte) /\ Len(Suffix(t, k)) = k
          /\ \A i \in 1..k : Suffix(t, k)[i] = t[Len(t) - k + i]
        BY <2>1, SuffixOf, Zenon
    <2> QED
        BY <2>1, <2>2
<1>5. /\ u \o d \in Seq(Byte) /\ Len(u \o d) = Len(u) + Len(d)
      /\ \A i \in 1..Len(u) + Len(d) :
            (u \o d)[i] = IF i <= Len(u) THEN u[i] ELSE d[i - Len(u)]
    BY <1>4, ConcatProperties
<1>6. n <= Len(s \o d)
    BY <1>1, <1>2
<1>7. /\ Suffix(s \o d, n) \in Seq(Byte) /\ Len(Suffix(s \o d, n)) = n
      /\ \A i \in 1..n : Suffix(s \o d, n)[i] = (s \o d)[Len(s) + Len(d) - n + i]
    <2> DEFINE w == s \o d
    <2>1. w \in Seq(Byte) /\ Len(w) = Len(s) + Len(d) /\ n <= Len(w)
        BY <1>1, <1>6
    <2> HIDE DEF w
    <2>2. /\ Suffix(w, n) \in Seq(Byte) /\ Len(Suffix(w, n)) = n
          /\ \A i \in 1..n : Suffix(w, n)[i] = w[Len(w) - n + i]
        BY <2>1, SuffixOf, Zenon
    <2> QED
        BY <2>1, <2>2 DEF w
<1>8. Len(u \o d) = n
    BY <1>2, <1>4, <1>5, SMTT(30)
<1>9. ASSUME NEW i \in 1..n
      PROVE  (u \o d)[i] = Suffix(s \o d, n)[i]
    <2> HIDE DEF u
    <2>1. CASE i <= k
        <3>0. i \in 1..k /\ i \in 1..(Len(u) + Len(d)) /\ i <= Len(u)
            BY <2>1, <1>2, <1>4
        <3>1. (u \o d)[i] = u[i] /\ u[i] = t[n - k + i]
            BY <3>0, <1>4, <1>5
        <3>2. n - k + i \in 1..n /\ n - k + i = Len(d) + i
            BY <2>1, <1>2
        <3>3. t[n - k + i] = s[Len(s) - n + (Len(d) + i)]
            BY <3>2, <1>3
        <3>4. /\ Len(s) + Len(d) - n + i \in 1..(Len(s) + Len(d))
              /\ Len(s) + Len(d) - n + i <= Len(s)
              /\ Len(s) - n + (Len(d) + i) = Len(s) + Len(d) - n + i
            BY <2>1, <1>2
        <3>5. (s \o d)[Len(s) + Len(d) - n + i] = s[Len(s) + Len(d) - n + i]
            BY <3>4, <1>1
        <3> QED
            BY <3>1, <3>3, <3>4, <3>5, <1>7
    <2>2. CASE i > k
        <3>1. i \in 1..(Len(u) + Len(d)) /\ ~(i <= Len(u)) /\ i - Len(u) = i - k
            BY <2>2, <1>2, <1>4
        <3>2. (u \o d)[i] = d[i - k]
            BY <3>1, <1>5
        <3>3. /\ Len(s) + Len(d) - n + i \in 1..(Len(s) + Len(d))
              /\ ~(Len(s) + Len(d) - n + i <= Len(s))
              /\ Len(s) + Len(d) - n + i - Len(s) = i - k
            BY <2>2, <1>2
        <3>4. (s \o d)[Len(s) + Len(d) - n + i] = d[i - k]
            BY <3>3, <1>1
        <3> QED
            BY <3>2, <3>4, <1>7
    <2>3. i <= k \/ i > k
        BY <1>2
    <2> QED
        BY <2>1, <2>2, <2>3, Zenon
<1> HIDE DEF u
<1>10. u \o d = Suffix(s \o d, n)
    BY <1>5, <1>7, <1>8, <1>9, SeqEqual
<1> QED
    BY <1>10 DEF u

(*------------------------------ the capture --------------------------------*)

\* push_tail keeps the tail at the last bytes of everything written.
LEMMA PushTailKeeps ==
    ASSUME NEW s \in Seq(Byte), NEW d \in Seq(Byte), NEW n \in Nat, n <= Len(s)
    PROVE  PushTail(Suffix(s, n), d, n) = Suffix(s \o d, n)
<1>1. Len(s) \in Nat /\ Len(d) \in Nat
    BY LenProperties
<1>2. Suffix(s, n) \in Seq(Byte) /\ Len(Suffix(s, n)) = n
    BY SuffixOf
<1>3. CASE n = 0
    <2>1. s \o d \in Seq(Byte) /\ Len(s \o d) \in Nat
        BY ConcatProperties, LenProperties
    <2>2. Suffix(s, n) = <<>> /\ Suffix(s \o d, n) = <<>>
        BY <1>1, <1>3, <2>1, SubSeqEmpty DEF Suffix
    <2> QED
        BY <1>3, <2>2 DEF PushTail
<1>4. CASE n # 0 /\ Len(d) >= n
    BY <1>1, <1>4, SuffixOfLong DEF PushTail
<1>5. CASE n # 0 /\ Len(d) < n /\ Len(d) # 0
    <2>1. Len(Suffix(s, n)) + Len(d) > n /\ ~(Len(d) >= n)
        BY <1>1, <1>2, <1>5
    <2>2. PushTail(Suffix(s, n), d, n) = Suffix(Suffix(s, n), n - Len(d)) \o d
        BY <1>5, <2>1 DEF PushTail
    <2> QED
        BY <1>5, <2>2, SuffixOfShort
<1>6. CASE n # 0 /\ Len(d) = 0
    <2>1. d = <<>>
        BY <1>6, EmptySeq
    <2>2. Suffix(s, n) \o d = Suffix(s, n) /\ s \o d = s
        BY <1>2, <2>1, ConcatEmptySeq
    <2>3. ~(Len(d) >= n) /\ ~(Len(Suffix(s, n)) + Len(d) > n)
        BY <1>1, <1>2, <1>6
    <2> QED
        BY <1>6, <2>2, <2>3 DEF PushTail
<1> QED
    BY <1>1, <1>3, <1>4, <1>5, <1>6

\* The head and the tail of a capture that keeps both fit beside the marker.
LEMMA Split ==
    ASSUME NEW cap \in Nat, cap > Len(Marker)
    PROVE  /\ HeadLength(cap) \in Nat /\ TailLength(cap) \in Nat
           /\ HeadLength(cap) + TailLength(cap) + Len(Marker) = cap
<1>1. Len(Marker) \in Nat
    BY CaptureAssumption, LenProperties
<1>2. Keep(cap) \in Nat
    BY <1>1 DEF Keep
<1>3. Keep(cap) \div 2 \in Nat /\ Keep(cap) \div 2 <= Keep(cap)
    <2> DEFINE k == Keep(cap)
    <2>1. k \in Nat
        BY <1>2
    <2> HIDE DEF k
    <2>2. k \div 2 \in Nat /\ k \div 2 <= k
        BY <2>1
    <2> QED
        BY <2>2 DEF k
<1> QED
    BY <1>1, <1>2, <1>3 DEF HeadLength, TailLength, Keep

\* What a capture holds, in terms of everything written: all of it, or its
\* first and its last bytes.
Holds(c, text) ==
    /\ text \in Seq(Byte)
    /\ c.cap \in Caps
    /\ c.total = Len(text)
    /\ c.truncated \in BOOLEAN
    /\ ~c.truncated => c.pre = text /\ Len(text) <= c.cap /\ c.head = <<>> /\ c.tail = <<>>
    /\ c.truncated =>
          /\ Len(text) > c.cap
          /\ c.pre = <<>>
          /\ c.cap > Len(Marker) =>
                /\ c.head = First(text, HeadLength(c.cap))
                /\ c.tail = Suffix(text, TailLength(c.cap))
          /\ c.cap <= Len(Marker) => c.head = <<>> /\ c.tail = <<>>

CaptureRecord ==
    [cap : Nat, total : Nat, pre : Seq(Byte), head : Seq(Byte), tail : Seq(Byte),
     truncated : BOOLEAN]

CaptureInv == capture \in CaptureRecord /\ Holds(capture, written)

\* A new capture holds nothing.
LEMMA CaptureStarts == CaptureInit => CaptureInv
<1> SUFFICES ASSUME CaptureInit PROVE CaptureInv
    OBVIOUS
<1>1. PICK cap \in Caps : capture = NewCapture(cap)
    BY DEF CaptureInit
<1>2. cap \in Nat
    BY CaptureAssumption
<1>3. <<>> \in Seq(Byte) /\ Len(<<>>) = 0
    BY EmptySeq
<1>4. capture \in CaptureRecord
    BY <1>1, <1>2, <1>3, SMTT(30) DEF NewCapture, CaptureRecord
<1>5. Holds(capture, written)
    BY <1>1, <1>2, <1>3 DEF NewCapture, Holds, CaptureInit
<1> QED
    BY <1>4, <1>5 DEF CaptureInv

\* Totals stay natural numbers.
LEMMA TotalIsNat == \A m, n \in Nat : m + n \in Nat
  OBVIOUS

\* Data after the truncation moves the tail and nothing else.
LEMMA OverflowHolds ==
    ASSUME NEW c \in CaptureRecord, NEW text, NEW d \in Seq(Byte),
           c.truncated,
           text \in Seq(Byte), c.cap \in Caps, c.total = Len(text), c.pre = <<>>,
           Len(text) >= c.cap, Len(text) + Len(d) > c.cap,
           c.cap > Len(Marker) => /\ c.head = First(text, HeadLength(c.cap))
                                  /\ c.tail = Suffix(text, TailLength(c.cap)),
           c.cap <= Len(Marker) => c.head = <<>> /\ c.tail = <<>>
    PROVE  Overflow(c, d) \in CaptureRecord /\ Holds(Overflow(c, d), text \o d)
<1>1. /\ Len(text) \in Nat /\ Len(d) \in Nat /\ Len(Marker) \in Nat
    BY CaptureAssumption, LenProperties, SMTT(30)
<1>2. text \o d \in Seq(Byte) /\ Len(text \o d) = Len(text) + Len(d)
    BY ConcatProperties, SMTT(30)
<1>3. c.cap \in Nat
    BY CaptureAssumption, Zenon
<1> DEFINE o == Overflow(c, d)
<1>4. /\ o.cap = c.cap /\ o.total = Len(text) + Len(d) /\ o.pre = c.pre /\ o.head = c.head
      /\ o.truncated = c.truncated
    BY ZenonT(30) DEF Overflow, CaptureRecord
<1>5. CASE c.cap > Len(Marker)
    <2>1. /\ HeadLength(c.cap) \in Nat /\ TailLength(c.cap) \in Nat
          /\ HeadLength(c.cap) + TailLength(c.cap) + Len(Marker) = c.cap
        BY <1>3, <1>5, Split, SMTT(30)
    <2>2. HeadLength(c.cap) <= Len(text) /\ TailLength(c.cap) <= Len(text)
        BY <1>1, <1>3, <2>1
    <2>3. o.tail = PushTail(c.tail, d, TailLength(c.cap))
        BY <1>5 DEF Overflow, CaptureRecord
    <2>4. o.tail = Suffix(text \o d, TailLength(c.cap))
        <3> DEFINE t == TailLength(c.cap)
        <3>1. t \in Nat /\ t <= Len(text) /\ c.tail = Suffix(text, t)
            BY <1>5, <2>1, <2>2, SMTT(30)
        <3> HIDE DEF t
        <3>2. PushTail(Suffix(text, t), d, t) = Suffix(text \o d, t)
            BY <3>1, PushTailKeeps, SMTT(30)
        <3> QED
            BY <2>3, <3>1, <3>2, Zenon DEF t
    <2>5. o.head = First(text \o d, HeadLength(c.cap))
        BY <1>4, <1>5, <2>1, <2>2, FirstOfMore, ZenonT(30)
    <2>6. TailLength(c.cap) <= Len(text \o d)
        BY <1>1, <1>2, <2>1, <2>2, SMTT(30)
    <2>7. o.tail \in Seq(Byte)
        BY <1>2, <2>1, <2>4, <2>6, SuffixOf, Zenon
    <2>8. o \in CaptureRecord
        <3>1. o = [c EXCEPT !.total = c.total + Len(d),
                            !.tail = PushTail(c.tail, d, TailLength(c.cap))]
            BY <1>5, ZenonT(30) DEF Overflow
        <3>2. c.total + Len(d) \in Nat
            BY <1>1, TotalIsNat, Zenon
        <3>3. PushTail(c.tail, d, TailLength(c.cap)) \in Seq(Byte)
            BY <2>3, <2>7, Zenon
        <3> HIDE DEF o
        <3> QED
            BY <3>1, <3>2, <3>3, Zenon DEF CaptureRecord
    <2>9. Holds(o, text \o d)
        <3> HIDE DEF o
        <3>1. o.cap \in Caps /\ o.truncated /\ o.truncated \in BOOLEAN /\ o.pre = <<>>
            BY <1>4, SMTT(30)
        <3>2. o.total = Len(text \o d) /\ Len(text \o d) > o.cap
            BY <1>1, <1>2, <1>3, <1>4
        <3>3. o.head = First(text \o d, HeadLength(o.cap)) /\ o.tail = Suffix(text \o d, TailLength(o.cap))
            BY <1>4, <2>4, <2>5, Zenon
        <3>4. ~(o.cap <= Len(Marker))
            BY <1>1, <1>3, <1>4, <1>5, SMTT(30)
        <3> QED
            BY <1>2, <3>1, <3>2, <3>3, <3>4, Zenon DEF Holds
    <2> QED
        BY <2>8, <2>9
<1>6. CASE c.cap <= Len(Marker)
    <2>1. ~(c.cap > Len(Marker))
        BY <1>1, <1>3, <1>6
    <2>2. o = [c EXCEPT !.total = c.total + Len(d), !.tail = c.tail]
        BY <2>1, Zenon DEF Overflow
    <2>3. c.total + Len(d) \in Nat
        BY <1>1, TotalIsNat, Zenon
    <2>4. o.tail = c.tail
        BY <2>2 DEF CaptureRecord
    <2> HIDE DEF o
    <2>5. o \in CaptureRecord
        BY <2>2, <2>3, ZenonT(30) DEF CaptureRecord
    <2>6. Holds(o, text \o d)
        <3>1. o.cap \in Caps /\ o.truncated /\ o.truncated \in BOOLEAN /\ o.pre = <<>>
            BY <1>4
        <3>2. o.total = Len(text \o d) /\ Len(text \o d) > o.cap
            BY <1>1, <1>2, <1>3, <1>4
        <3>3. o.head = <<>> /\ o.tail = <<>>
            BY <1>4, <1>6, <2>4, Zenon
        <3>4. ~(o.cap > Len(Marker))
            BY <1>1, <1>3, <1>4, <1>6, SMTT(30)
        <3> QED
            BY <1>2, <3>1, <3>2, <3>3, <3>4, Zenon DEF Holds
    <2> QED
        BY <2>5, <2>6 DEF o
<1>7. c.cap > Len(Marker) \/ c.cap <= Len(Marker)
    BY <1>1, <1>3, SMTT(30)
<1> QED
    BY <1>5, <1>6, <1>7, Zenon

\* A sequence is its first bytes followed by the others.
LEMMA CutAt ==
    ASSUME NEW s \in Seq(Byte), NEW n \in Nat, n <= Len(s)
    PROVE  First(s, n) \o Suffix(s, Len(s) - n) = s
<1>1. Len(s) \in Nat
    BY LenProperties
<1>2. SubSeq(s, 1, n) \o SubSeq(s, n + 1, Len(s)) = SubSeq(s, 1, Len(s))
    <2>1. 1 \in 1..Len(s) + 1 /\ n \in 1 - 1..Len(s) /\ Len(s) \in n..Len(s)
        BY <1>1
    <2> QED
        BY <2>1, ConcatAdjacentSubSeq, Zenon
<1>3. SubSeq(s, 1, Len(s)) = s
    BY SubSeqFull
<1>4. Len(s) - (Len(s) - n) + 1 = n + 1
    BY <1>1
<1> QED
    BY <1>2, <1>3, <1>4, Zenon DEF First, Suffix

\* The last bytes of the last bytes.
LEMMA SuffixOfSuffix ==
    ASSUME NEW s \in Seq(Byte), NEW m \in Nat, NEW n \in Nat, m <= Len(s), n <= m
    PROVE  Suffix(Suffix(s, m), n) = Suffix(s, n)
<1>1. Len(s) \in Nat /\ Len(s) - m \in Nat /\ Len(s) - m <= Len(s)
      /\ Len(s) - (Len(s) - m) = m
    BY LenProperties
<1>2. First(s, Len(s) - m) \in Seq(Byte)
    BY <1>1, FirstOf
<1>3. Suffix(s, m) \in Seq(Byte) /\ Len(Suffix(s, m)) = m
    BY SuffixOf
<1>4. First(s, Len(s) - m) \o Suffix(s, m) = s
    <2>1. First(s, Len(s) - m) \o Suffix(s, Len(s) - (Len(s) - m)) = s
        BY <1>1, CutAt
    <2> QED
        BY <1>1, <2>1
<1>5. Suffix(First(s, Len(s) - m) \o Suffix(s, m), n) = Suffix(Suffix(s, m), n)
    BY <1>2, <1>3, SuffixOfLong
<1> QED
    BY <1>4, <1>5, Zenon

\* The write that does not fit leaves a head and a tail of what fitted.
LEMMA TruncateHolds ==
    ASSUME NEW c \in CaptureRecord, NEW text, NEW d \in Seq(Byte),
           Holds(c, text), ~c.truncated, Len(d) > c.cap - c.total
    PROVE  LET kept == text \o First(d, c.cap - c.total)
               o == Truncate(c, d)
           IN  /\ kept \in Seq(Byte) /\ Len(kept) = c.cap
               /\ o \in CaptureRecord /\ o.truncated /\ o.cap = c.cap
               /\ o.total = c.cap /\ o.pre = <<>>
               /\ c.cap > Len(Marker) => /\ o.head = First(kept, HeadLength(c.cap))
                                         /\ o.tail = Suffix(kept, TailLength(c.cap))
               /\ c.cap <= Len(Marker) => o.head = <<>> /\ o.tail = <<>>
<1> DEFINE r == c.cap - c.total
           kept == text \o First(d, r)
           o == Truncate(c, d)
<1>1. /\ text \in Seq(Byte) /\ c.total = Len(text) /\ c.pre = text /\ Len(text) <= c.cap
      /\ c.cap \in Caps
    BY DEF Holds
<1>2. Len(text) \in Nat /\ Len(d) \in Nat /\ Len(Marker) \in Nat /\ c.cap \in Nat
    BY <1>1, CaptureAssumption, LenProperties, Zenon
<1>3. r \in Nat /\ r <= Len(d)
    BY <1>1, <1>2
<1>4. First(d, r) \in Seq(Byte) /\ Len(First(d, r)) = r
    BY <1>3, FirstOf
<1>5. kept \in Seq(Byte) /\ Len(kept) = c.cap
    <2>1. kept \in Seq(Byte) /\ Len(kept) = Len(text) + Len(First(d, r))
        BY <1>1, <1>4, ConcatProperties
    <2> QED
        BY <1>1, <1>2, <1>4, <2>1, SMTT(30)
<1>6. c.pre \o First(d, c.cap - c.total) = kept
    BY <1>1
<1>7. <<>> \in Seq(Byte)
    BY EmptySeq
<1>8. CASE c.cap > Len(Marker)
    <2> DEFINE h == HeadLength(c.cap)
               t == TailLength(c.cap)
    <2>1. h \in Nat /\ t \in Nat /\ h + t + Len(Marker) = c.cap
        BY <1>2, <1>8, Split
    <2>2. h <= Len(kept) /\ c.cap - h \in Nat /\ c.cap - h <= Len(kept) /\ t <= c.cap - h
        <3> HIDE DEF kept, h, t
        <3> QED
            BY <1>2, <1>5, <2>1, SMTT(30)
    <2>3. /\ Suffix(kept, c.cap - h) \in Seq(Byte)
          /\ Len(Suffix(kept, c.cap - h)) = c.cap - h
        <3> HIDE DEF kept, h
        <3> QED
            BY <1>5, <2>2, SuffixOf
    <2>4. PushTail(<<>>, Suffix(kept, c.cap - h), t) = Suffix(kept, t)
        <3> HIDE DEF kept, h, t
        <3>1. CASE t = 0
            <4>1. Suffix(kept, t) = <<>>
                BY <1>2, <1>5, <3>1, SubSeqEmpty DEF Suffix
            <4> QED
                BY <3>1, <4>1 DEF PushTail
        <3>2. CASE t # 0
            <4>1. Suffix(Suffix(kept, c.cap - h), t) = Suffix(kept, t)
                BY <1>5, <2>1, <2>2, SuffixOfSuffix
            <4>2. Len(Suffix(kept, c.cap - h)) >= t
                BY <1>2, <2>1, <2>2, <2>3, SMTT(30)
            <4> QED
                BY <3>2, <4>1, <4>2 DEF PushTail
        <3> QED
            BY <3>1, <3>2
    <2>5. /\ First(kept, h) \in Seq(Byte)
          /\ Suffix(kept, t) \in Seq(Byte)
        <3>1. t <= Len(kept)
            <4> HIDE DEF kept, h, t
            <4> QED
                BY <1>2, <1>5, <2>1, <2>2
        <3> HIDE DEF kept, h, t
        <3> QED
            BY <1>5, <2>1, <2>2, <3>1, FirstOf, SuffixOf
    <2>6. o = [c EXCEPT !.truncated = TRUE, !.total = c.cap, !.pre = <<>>,
                        !.head = First(kept, h), !.tail = Suffix(kept, t)]
        BY <1>6, <1>8, <2>4, Zenon DEF Truncate
    <2> HIDE DEF kept, h, t, o
    <2>7. o \in CaptureRecord
        BY <1>2, <1>7, <2>5, <2>6, Zenon DEF CaptureRecord
    <2>8. /\ o.truncated /\ o.cap = c.cap /\ o.total = c.cap /\ o.pre = <<>>
          /\ o.head = First(kept, h) /\ o.tail = Suffix(kept, t)
        BY <2>6 DEF CaptureRecord
    <2>9. ~(c.cap <= Len(Marker))
        BY <1>2, <1>8
    <2> QED
        BY <1>5, <2>7, <2>8, <2>9, Zenon DEF kept, o, h, t
<1>9. CASE c.cap <= Len(Marker)
    <2>1. ~(c.cap > Len(Marker))
        BY <1>2, <1>9
    <2>2. o = [c EXCEPT !.truncated = TRUE, !.total = c.cap, !.pre = <<>>,
                        !.head = <<>>, !.tail = <<>>]
        BY <2>1, Zenon DEF Truncate
    <2> HIDE DEF o, kept
    <2>3. o \in CaptureRecord
        BY <1>2, <1>7, <2>2, Zenon DEF CaptureRecord
    <2>4. /\ o.truncated /\ o.cap = c.cap /\ o.total = c.cap /\ o.pre = <<>>
          /\ o.head = <<>> /\ o.tail = <<>>
        BY <2>2 DEF CaptureRecord
    <2> QED
        BY <1>5, <2>1, <2>3, <2>4, Zenon DEF kept, o
<1>10. c.cap > Len(Marker) \/ c.cap <= Len(Marker)
    BY <1>2
<1> QED
    BY <1>8, <1>9, <1>10, Zenon

\* CappedOutput::write keeps what the capture holds.
LEMMA CapturedHolds ==
    ASSUME NEW c \in CaptureRecord, NEW text, NEW d \in Seq(Byte), Holds(c, text)
    PROVE  Captured(c, d) \in CaptureRecord /\ Holds(Captured(c, d), text \o d)
<1>1. text \in Seq(Byte) /\ c.total = Len(text) /\ c.cap \in Caps /\ c.truncated \in BOOLEAN
    BY DEF Holds
<1>2. Len(text) \in Nat /\ Len(d) \in Nat /\ c.cap \in Nat
    BY <1>1, CaptureAssumption, LenProperties, Zenon
<1>3. CASE d = <<>>
    BY <1>1, <1>3, ConcatEmptySeq DEF Captured
<1>4. CASE d # <<>> /\ c.truncated
    <2>1. Captured(c, d) = Overflow(c, d)
        BY <1>4, SMTT(30) DEF Captured
    <2>2. /\ c.pre = <<>> /\ Len(text) > c.cap
          /\ c.cap > Len(Marker) => /\ c.head = First(text, HeadLength(c.cap))
                                    /\ c.tail = Suffix(text, TailLength(c.cap))
          /\ c.cap <= Len(Marker) => c.head = <<>> /\ c.tail = <<>>
        BY <1>4, Zenon DEF Holds
    <2>3. Len(text) >= c.cap /\ Len(text) + Len(d) > c.cap
        BY <1>2, <2>2
    <2> QED
        BY <1>1, <1>4, <2>1, <2>2, <2>3, OverflowHolds, Zenon
<1>5. CASE d # <<>> /\ ~c.truncated /\ Len(d) <= c.cap - c.total
    <2>1. Captured(c, d) = [c EXCEPT !.pre = c.pre \o d, !.total = c.total + Len(d)]
        BY <1>5, SMTT(30) DEF Captured
    <2>2. c.pre = text /\ c.head = <<>> /\ c.tail = <<>>
        BY <1>5, SMTT(30) DEF Holds
    <2>3. text \o d \in Seq(Byte) /\ Len(text \o d) = Len(text) + Len(d)
        BY <1>1, ConcatProperties
    <2>4. Captured(c, d) \in CaptureRecord
        <3>1. c.pre \o d \in Seq(Byte) /\ c.total + Len(d) \in Nat
            BY <1>1, <1>2, <2>2, <2>3
        <3> DEFINE p == c.pre \o d
                   n == c.total + Len(d)
        <3>2. p \in Seq(Byte) /\ n \in Nat
            BY <3>1
        <3>3. Captured(c, d) = [c EXCEPT !.pre = p, !.total = n]
            BY <2>1
        <3> HIDE DEF p, n
        <3> QED
            BY <3>2, <3>3, Zenon DEF CaptureRecord
    <2>5. /\ Captured(c, d).cap = c.cap /\ Captured(c, d).total = Len(text) + Len(d)
          /\ Captured(c, d).pre = text \o d /\ Captured(c, d).head = <<>>
          /\ Captured(c, d).tail = <<>> /\ Captured(c, d).truncated = c.truncated
        BY <1>1, <2>1, <2>2 DEF CaptureRecord
    <2>6. Holds(Captured(c, d), text \o d)
        <3>1. Len(text) + Len(d) <= c.cap
            BY <1>1, <1>2, <1>5, SMTT(30)
        <3> DEFINE o == Captured(c, d)
                   u == text \o d
        <3>2. /\ u \in Seq(Byte) /\ o.cap \in Caps /\ o.total = Len(u) /\ o.truncated = FALSE
              /\ o.pre = u /\ Len(u) <= o.cap /\ o.head = <<>> /\ o.tail = <<>>
            BY <1>1, <1>5, <2>3, <2>5, <3>1, ZenonT(30)
        <3> HIDE DEF o, u
        <3>3. Holds(o, u)
            BY <3>2, Zenon DEF Holds
        <3> QED
            BY <3>3 DEF o, u
    <2> QED
        BY <2>4, <2>6
<1>6. CASE d # <<>> /\ ~c.truncated /\ Len(d) > c.cap - c.total
    <2> DEFINE r == c.cap - c.total
               kept == text \o First(d, r)
               rest == Suffix(d, Len(d) - r)
               o == Truncate(c, d)
    <2>1. Captured(c, d) = Overflow(o, rest)
        BY <1>1, <1>2, <1>6, SMTT(30) DEF Captured
    <2>2. /\ kept \in Seq(Byte) /\ Len(kept) = c.cap
          /\ o \in CaptureRecord /\ o.truncated /\ o.cap = c.cap
          /\ o.total = c.cap /\ o.pre = <<>>
          /\ c.cap > Len(Marker) => /\ o.head = First(kept, HeadLength(c.cap))
                                    /\ o.tail = Suffix(kept, TailLength(c.cap))
          /\ c.cap <= Len(Marker) => o.head = <<>> /\ o.tail = <<>>
        BY <1>6, TruncateHolds, Zenon
    <2>3. r \in Nat /\ r <= Len(d) /\ Len(d) - r \in Nat /\ Len(d) - r <= Len(d)
          /\ Len(d) - r > 0
        <3>1. Len(text) <= c.cap
            BY <1>6 DEF Holds
        <3> QED
            BY <1>1, <1>2, <1>6, <3>1, SMTT(30)
    <2>4. rest \in Seq(Byte) /\ Len(rest) = Len(d) - r
        BY <2>3, SuffixOf
    <2>5. kept \o rest = text \o d
        <3>1. First(d, r) \in Seq(Byte)
            BY <2>3, FirstOf
        <3>2. First(d, r) \o rest = d
            BY <2>3, CutAt, Zenon
        <3>3. kept \o rest = text \o (First(d, r) \o rest)
            <4>1. text \in Seq(Byte)
                BY <1>1
            <4> HIDE DEF rest
            <4> QED
                BY <2>4, <3>1, <4>1, Regroup, SMTT(30)
        <3> QED
            BY <3>2, <3>3, Zenon
    <2> HIDE DEF kept, rest, o
    <2>6. Len(kept) >= o.cap /\ Len(kept) + Len(rest) > o.cap
        BY <1>2, <2>2, <2>3, <2>4, SMTT(30)
    <2>7. Overflow(o, rest) \in CaptureRecord /\ Holds(Overflow(o, rest), kept \o rest)
        BY <1>1, <2>2, <2>4, <2>6, OverflowHolds, Zenon
    <2> QED
        BY <2>1, <2>5, <2>7
<1>7. Len(d) <= c.cap - c.total \/ Len(d) > c.cap - c.total
    BY <1>1, <1>2
<1> QED
    BY <1>1, <1>3, <1>4, <1>5, <1>6, <1>7, SMTT(30)

\* The invariant of CaptureWriter::append.
LEMMA CaptureSteps == CaptureInv /\ [CaptureNext]_captureVars => CaptureInv'
<1> SUFFICES ASSUME CaptureInv, [CaptureNext]_captureVars PROVE CaptureInv'
    OBVIOUS
<1>1. CASE CaptureNext
    <2>1. PICK d \in Chunks : AppendChunk(d)
        BY <1>1 DEF CaptureNext
    <2>2. d \in Seq(Byte)
        BY CaptureAssumption
    <2>3. capture' = Captured(capture, d) /\ written' = written \o d
        BY <2>1 DEF AppendChunk
    <2>4. /\ Captured(capture, d) \in CaptureRecord
          /\ Holds(Captured(capture, d), written \o d)
        BY <2>2, CapturedHolds DEF CaptureInv
    <2> QED
        BY <2>3, <2>4 DEF CaptureInv
<1>2. CASE UNCHANGED captureVars
    BY <1>2 DEF captureVars, CaptureInv
<1> QED
    BY <1>1, <1>2

\* The result that is taken at any moment is the one cut from the whole
\* output (CappedOutput::finish), whatever the limit and the writes.
THEOREM CaptureIsWhole == CaptureSpec => []CaptureWhole
<1>1. CaptureInv => CaptureWhole
    <2> SUFFICES ASSUME CaptureInv PROVE FinishCapture(capture) = CaptureReference(capture.cap, written)
        BY SMTT(30) DEF CaptureWhole
    <2>1. /\ Len(written) \in Nat /\ capture.cap \in Nat /\ Len(Marker) \in Nat
          /\ capture.truncated \in BOOLEAN
        BY CaptureAssumption, LenProperties, Zenon DEF CaptureInv, Holds
    <2>2. CASE ~capture.truncated
        BY <2>1, <2>2, Zenon DEF CaptureInv, Holds, FinishCapture, CaptureReference
    <2>3. CASE capture.truncated
        <3>1. ~(Len(written) <= capture.cap)
            BY <2>1, <2>3, SMTT(30) DEF CaptureInv, Holds
        <3>2. CASE capture.cap <= Len(Marker)
            BY <2>3, <3>1, <3>2, SMTT(30) DEF FinishCapture, CaptureReference
        <3>3. CASE capture.cap > Len(Marker)
            <4>1. /\ capture.head = First(written, HeadLength(capture.cap))
                  /\ capture.tail = Suffix(written, TailLength(capture.cap))
                BY <2>3, <3>3 DEF CaptureInv, Holds
            <4>2. ~(capture.cap <= Len(Marker))
                BY <2>1, <3>3
            <4> QED
                BY <2>3, <3>1, <4>1, <4>2, SMTT(30) DEF FinishCapture, CaptureReference
        <3> QED
            BY <2>1, <3>2, <3>3, SMTT(30)
    <2> QED
        BY <2>1, <2>2, <2>3
<1> QED
    BY <1>1, CaptureStarts, CaptureSteps, PTL DEF CaptureSpec

-----------------------------------------------------------------------------
(*------------------------- the three streams together ----------------------*)

\* A capture holds no more than its limit: what it keeps is what fits, or a
\* head and a tail with room for the marker.
LEMMA CaptureBounded == CaptureInv => CaptureTypeOK
<1> SUFFICES ASSUME CaptureInv PROVE CaptureTypeOK
  BY SMTT(30)
<1> DEFINE c == capture
           h == HeadLength(c.cap)
           t == TailLength(c.cap)
<1>1. /\ c.cap \in Caps /\ c.total = Len(written) /\ c.truncated \in BOOLEAN
      /\ written \in Seq(Byte)
  BY DEF CaptureInv, Holds
<1>2. Len(written) \in Nat /\ c.cap \in Nat /\ Len(Marker) \in Nat
  BY <1>1, CaptureAssumption, LenProperties, Zenon
<1>3. CASE ~c.truncated
  <2>1. c.pre = written /\ Len(written) <= c.cap /\ c.head = <<>> /\ c.tail = <<>>
    BY <1>3 DEF CaptureInv, Holds
  <2>2. Len(c.pre) + Len(c.head) + Len(c.tail) <= c.cap
    BY <1>2, <2>1, SMTT(30)
  <2> QED
    BY <1>1, <2>2, Zenon DEF CaptureTypeOK
<1>4. CASE c.truncated /\ c.cap <= Len(Marker)
  <2>1. c.pre = <<>> /\ c.head = <<>> /\ c.tail = <<>>
    BY <1>4 DEF CaptureInv, Holds
  <2>2. Len(c.pre) + Len(c.head) + Len(c.tail) <= c.cap
    BY <1>2, <2>1, SMTT(30)
  <2> QED
    BY <1>1, <2>2, Zenon DEF CaptureTypeOK
<1>5. CASE c.truncated /\ c.cap > Len(Marker)
  <2>1. /\ Len(written) > c.cap /\ c.pre = <<>>
        /\ c.head = First(written, h) /\ c.tail = Suffix(written, t)
    BY <1>5 DEF CaptureInv, Holds
  <2>2. h \in Nat /\ t \in Nat /\ h + t = c.cap - Len(Marker)
    BY <1>2, <1>5, Split
  <2> HIDE DEF h, t
  <2>3. h <= Len(written) /\ t <= Len(written)
    BY <1>2, <2>1, <2>2, SMTT(30)
  <2>4. Len(c.head) = h /\ Len(c.tail) = t
    BY <1>1, <2>1, <2>2, <2>3, FirstOf, SuffixOf, SMTT(30)
  <2>5. Len(c.pre) + Len(c.head) + Len(c.tail) <= c.cap
    BY <1>2, <2>1, <2>2, <2>4
  <2> QED
    BY <1>1, <2>5, Zenon DEF CaptureTypeOK
<1> QED
  BY <1>1, <1>2, <1>3, <1>4, <1>5

\* The streams of the run take the steps of their own specifications.
LEMMA StreamSteps ==
    MCNext => [Next]_vars /\ [HostNext]_hostVars /\ [CaptureNext]_captureVars
BY DEF MCNext, PipeRuns, HostRuns, CaptureRuns, Rests, allVars

\* Every variable of the streams has its type in whatever order they run: a
\* pipe never holds more than its capacity and one descriptor at a time polls
\* it, only cancelled states have waiters to notify, and CappedOutput retains
\* no more than its limit.
THEOREM StreamTypes == MCSpec => []Types
<1> DEFINE Inv == IInv /\ HostInv /\ CaptureInv
<1>1. MCInit => Inv
  BY Initially, HostStarts, CaptureStarts DEF MCInit
<1>2. Inv /\ [MCNext]_allVars => Inv'
  <2>1. [MCNext]_allVars => [Next]_vars /\ [HostNext]_hostVars /\ [CaptureNext]_captureVars
    BY StreamSteps DEF allVars
  <2> QED
    BY <2>1, Inductive, HostSteps, CaptureSteps
<1>3. Inv => Types
  BY CaptureBounded DEF IInv, HostInv, Types
<1> QED
  BY <1>1, <1>2, <1>3, PTL DEF MCSpec
=============================================================================
