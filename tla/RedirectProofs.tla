--------------------------- MODULE RedirectProofs ---------------------------
(***************************************************************************)
(* A redirect loses nothing without a report (Redirect), for any number of *)
(* descriptors and sinks, any size of the chunks and any number of them;   *)
(* and prepare_redirects leaves open what it hands on and nothing else     *)
(* (RedirectSetup), for every sequence of redirects.                       *)
(***************************************************************************)
EXTENDS Redirect, RedirectSetup,
        SequenceTheorems, WellFoundedInduction, NaturalsInduction, TLAPS

\* A byte of the file: which descriptor wrote it, in which chunk, and where in it.
Byte == Writers \X Nat \X Nat

-----------------------------------------------------------------------------
(***************************************************************************)
(* Chunks.                                                                 *)
(***************************************************************************)
\* Multiplication keeps the order.
LEMMA Times ==
  ASSUME NEW c \in Nat, NEW a \in Nat, NEW b \in Nat
  PROVE  /\ c * a \in Nat /\ c * (a + 1) = c * a + c
         /\ a <= b => c * a <= c * b
<1>1. c * a \in Nat /\ c * (a + 1) = c * a + c
  OBVIOUS
<1>2. ASSUME a <= b
      PROVE  c * a <= c * b
  <2>1. PICK d \in Nat : b = a + d
    <3>1. b - a \in Nat /\ b = a + (b - a)
      BY <1>2
    <3> QED
      BY <3>1
  <2>2. c * b = c * a + c * d /\ c * d \in Nat /\ c * a \in Nat
    BY <2>1
  <2> QED
    BY <2>2
<1> QED
  BY <1>1, <1>2

\* A chunk is a sequence of ChunkSize bytes.
LEMMA ChunkIsSeq ==
  ASSUME ChunkSize \in Nat, NEW w \in Writers, NEW n \in Nat
  PROVE  Bytes(w, n) \in Seq(Byte) /\ Len(Bytes(w, n)) = ChunkSize
BY DEF Bytes, Byte

\* write_at at the end of the file appends.
LEMMA OverlayAppends ==
  ASSUME NEW f \in Seq(Byte), NEW t \in Seq(Byte)
  PROVE  Overlay(f, Len(f), t) = f \o t
<1>1. Len(f) \in Nat /\ Len(t) \in Nat
  OBVIOUS
<1>2. (IF Len(f) > Len(f) + Len(t) THEN Len(f) ELSE Len(f) + Len(t)) = Len(f) + Len(t)
  BY <1>1
<1>3. Overlay(f, Len(f), t) = [k \in 1..(Len(f) + Len(t)) |-> IF k > Len(f) /\ k <= Len(f) + Len(t) THEN t[k - Len(f)] ELSE f[k]]
  BY <1>2 DEF Overlay
<1>4. /\ f \o t \in Seq(Byte) /\ Len(f \o t) = Len(f) + Len(t)
      /\ \A k \in 1..(Len(f) + Len(t)) : (f \o t)[k] = IF k <= Len(f) THEN f[k] ELSE t[k - Len(f)]
  BY ConcatProperties
<1>5. f \o t = [k \in 1..(Len(f) + Len(t)) |-> (f \o t)[k]]
  BY <1>4, LenProperties, Zenon
<1> QED
  BY <1>1, <1>3, <1>4, <1>5

\* Concatenation is associative.
LEMMA Regroup == \A s, t, u \in Seq(Byte) : (s \o t) \o u = s \o (t \o u)
BY ConcatAssociative, SMTT(30)

\* What is written and what is left make up what there was to write.
LEMMA CutInTwo ==
  ASSUME NEW f \in Seq(Byte), NEW t \in Seq(Byte), NEW n \in 1..Len(t)
  PROVE  /\ SubSeq(t, 1, n) \in Seq(Byte) /\ Len(SubSeq(t, 1, n)) = n
         /\ SubSeq(t, n + 1, Len(t)) \in Seq(Byte)
         /\ (f \o SubSeq(t, 1, n)) \o SubSeq(t, n + 1, Len(t)) = f \o t
<1>1. SubSeq(t, 1, n) \in Seq(Byte) /\ Len(SubSeq(t, 1, n)) = n /\ SubSeq(t, n + 1, Len(t)) \in Seq(Byte)
  OBVIOUS
<1>2. SubSeq(t, 1, n) \o SubSeq(t, n + 1, Len(t)) = t
  OBVIOUS
<1>3. (f \o SubSeq(t, 1, n)) \o SubSeq(t, n + 1, Len(t)) = f \o (SubSeq(t, 1, n) \o SubSeq(t, n + 1, Len(t)))
  BY <1>1, Regroup, Zenon
<1> QED
  BY <1>1, <1>2, <1>3, Zenon

\* A whole chunk at the end of what holds the chunks before it.
LEMMA HoldsMore ==
  ASSUME RedirectAssumption, NEW f \in Seq(Byte), NEW given \in Seq(Writers \X Nat), Holds(f, given),
         NEW w \in Writers, NEW m \in Nat
  PROVE  Holds(f \o Bytes(w, m), Append(given, <<w, m>>))
<1> DEFINE N == Len(given)
           new == f \o Bytes(w, m)
           more == Append(given, <<w, m>>)
<1>1. ChunkSize \in Nat /\ N \in Nat /\ Len(f) = ChunkSize * N
  BY DEF RedirectAssumption, Holds
<1>2. Bytes(w, m) \in Seq(Byte) /\ Len(Bytes(w, m)) = ChunkSize
  BY <1>1, ChunkIsSeq
<1>3. ChunkSize * N \in Nat /\ ChunkSize * (N + 1) = ChunkSize * N + ChunkSize
  BY <1>1, Times
<1>4. Len(more) = N + 1 /\ more[N + 1] = <<w, m>> /\ \A n \in 1..N : more[n] = given[n]
  BY AppendProperties
<1>5. /\ Len(new) = Len(f) + ChunkSize
      /\ \A i \in 1..(Len(f) + ChunkSize) : new[i] = IF i <= Len(f) THEN f[i] ELSE Bytes(w, m)[i - Len(f)]
  BY <1>2, ConcatProperties, Zenon
<1> HIDE DEF new, more, N
<1>6. /\ \A j \in 1..(ChunkSize * N) : new[j] = f[j]
      /\ \A k \in 1..ChunkSize : new[ChunkSize * N + k] = Bytes(w, m)[k]
  <2> DEFINE b == ChunkSize * N
  <2>1. b \in Nat /\ Len(f) = b
    BY <1>1, <1>3
  <2> HIDE DEF b
  <2>2. \A j \in 1..b : new[j] = f[j]
    BY <1>1, <1>5, <2>1
  <2>3. \A k \in 1..ChunkSize : new[b + k] = Bytes(w, m)[k]
    <3> TAKE k \in 1..ChunkSize
    <3>1. b + k \in 1..(b + ChunkSize) /\ ~(b + k <= b) /\ (b + k) - b = k
      BY <1>1, <2>1
    <3> QED
      BY <1>5, <2>1, <3>1
  <2> QED
    BY <2>2, <2>3 DEF b
<1>7. ASSUME NEW n \in 1..(N + 1), NEW k \in 1..ChunkSize
      PROVE  new[ChunkSize * (n - 1) + k] = Bytes(more[n][1], more[n][2])[k]
  <2>1. CASE n = N + 1
    BY <1>1, <1>4, <1>6, <2>1
  <2>2. CASE n # N + 1
    <3>1. n \in 1..N /\ n - 1 \in Nat /\ n - 1 + 1 = n
      BY <1>1, <2>2
    <3>2. ChunkSize * (n - 1) \in Nat /\ ChunkSize * n = ChunkSize * (n - 1) + ChunkSize /\ ChunkSize * n <= ChunkSize * N
      <4>1. ChunkSize * ((n - 1) + 1) = ChunkSize * (n - 1) + ChunkSize /\ ChunkSize * (n - 1) \in Nat
        BY <1>1, <3>1, Times
      <4>2. ChunkSize * n <= ChunkSize * N
        BY <1>1, <3>1, Times
      <4> QED
        BY <3>1, <4>1, <4>2
    <3>3. ChunkSize * (n - 1) + k \in 1..(ChunkSize * N)
      <4> DEFINE a == ChunkSize * (n - 1)
                 b == ChunkSize * N
                 e == ChunkSize * n
      <4>1. a \in Nat /\ b \in Nat /\ e = a + ChunkSize /\ e <= b
        BY <1>3, <3>2
      <4> HIDE DEF a, b, e
      <4>2. a + k \in 1..b
        BY <1>1, <4>1
      <4> QED
        BY <4>2 DEF a, b
    <3>4. f[ChunkSize * (n - 1) + k] = Bytes(given[n][1], given[n][2])[k]
      BY <3>1 DEF Holds, N
    <3> QED
      BY <1>4, <1>6, <3>1, <3>3, <3>4, SMTT(30)
  <2> QED
    BY <2>1, <2>2
<1>8. Holds(new, more)
  BY <1>1, <1>3, <1>4, <1>5, <1>7 DEF Holds
<1> QED
  BY <1>8 DEF new, more

-----------------------------------------------------------------------------
(***************************************************************************)
(* The inductive invariant.  Nothing is said of the queue: that the lock   *)
(* has one holder is enough.                                               *)
(***************************************************************************)
\* The lock is with the task while that writes and with the sink that took
\* the handle until it has given it back; the error stands while the task
\* writes, and what a sink returns is the error that was known then.
LockInv ==
  /\ holder \in {Nobody, Task} \union Sinks
  /\ handle \in {"open", "taken", "closed", "lost", "aborted"}
  /\ {error, cancelled, checking} \subseteq BOOLEAN
  /\ sink \in [Sinks -> {"idle", "waiting", "close", "abort"} \union Returned]
  /\ checking => holder = Task
  /\ holder = Task => handle = "open" /\ error
  /\ handle = "taken" <=> holder \in Sinks
  /\ handle = "closed" => ~error
  /\ handle = "lost" => error
  /\ handle = "aborted" => error \/ cancelled
  /\ \A s \in Sinks :
       /\ sink[s] \in {"close", "abort"} <=> holder = s
       /\ sink[s] = "close" => ~error
       /\ sink[s] = "abort" => error \/ cancelled
       /\ sink[s] \in Returned =>
            /\ handle \in {"closed", "lost", "aborted"}
            /\ sink[s] = IF error THEN "failed" ELSE "succeeded"

\* As long as nothing was lost, the file and what the task has still to write
\* are the accepted chunks.
FileInv ==
  /\ chunks \in [Writers -> Nat]
  /\ accepted \in Seq(Writers \X Nat)
  /\ file \in Seq(Byte) /\ task \in Seq(Byte)
  /\ holder # Task => task = <<>>
  /\ ~error \/ holder = Task => offset = Len(file) /\ Holds(file \o task, accepted)

\* The whole invariant.
RedirectInv == LockInv /\ FileInv

-----------------------------------------------------------------------------
(***************************************************************************)
(* One lemma per action.                                                   *)
(***************************************************************************)
\* A step that leaves the lock, the handle and the data alone.
LEMMA OutsideInv ==
  ASSUME RedirectInv,
         UNCHANGED <<chunks, holder, task, checking, state, sink, file, accepted>>,
         cancelled' \in BOOLEAN, cancelled => cancelled'
  PROVE  RedirectInv'
<1>1. UNCHANGED <<chunks, holder, task, checking, handle, offset, error, sink, file, accepted>>
  BY DEF state
<1>2. LockInv'
  BY <1>1 DEF RedirectInv, LockInv
<1>3. FileInv'
  BY <1>1 DEF RedirectInv, FileInv
<1> QED
  BY <1>2, <1>3 DEF RedirectInv

\* poll_write: the chunk that is accepted is what the spawned task has to write.
LEMMA AcceptInv ==
  ASSUME RedirectAssumption, RedirectInv, NEW w \in Writers, Accept(w)
  PROVE  RedirectInv'
<1> DEFINE n == chunks[w] + 1
<1>1. /\ holder = Nobody /\ ~error /\ handle = "open"
      /\ task' = Bytes(w, n) /\ accepted' = Append(accepted, <<w, n>>)
      /\ chunks' = [chunks EXCEPT ![w] = @ + 1]
      /\ error' = TRUE /\ holder' = Task
      /\ UNCHANGED <<checking, handle, offset, sink, file, cancelled>>
  BY DEF Accept, Granted, world
<1>2. Task # Nobody /\ Task \notin Sinks /\ Nobody \notin Sinks /\ ChunkSize \in Nat
  BY DEF RedirectAssumption
<1>3. n \in Nat
  BY DEF RedirectInv, FileInv
<1>4. LockInv'
  BY <1>1, <1>2 DEF RedirectInv, LockInv
<1>5. task = <<>> /\ offset = Len(file) /\ Holds(file \o task, accepted) /\ file \in Seq(Byte)
  BY <1>1, <1>2 DEF RedirectInv, FileInv
<1>6. Holds(file, accepted)
  BY <1>5
<1>7. Holds(file \o Bytes(w, n), Append(accepted, <<w, n>>))
  BY <1>3, <1>5, <1>6, HoldsMore, Zenon DEF RedirectInv, FileInv
<1>8. Bytes(w, n) \in Seq(Byte)
  BY <1>2, <1>3, ChunkIsSeq
<1>9. Append(accepted, <<w, n>>) \in Seq(Writers \X Nat)
  BY <1>3 DEF RedirectInv, FileInv
<1>10. chunks' \in [Writers -> Nat]
  BY <1>1, <1>3 DEF RedirectInv, FileInv
<1> HIDE DEF n
<1>11. FileInv'
  BY <1>1, <1>5, <1>7, <1>8, <1>9, <1>10 DEF FileInv
<1> QED
  BY <1>4, <1>11 DEF RedirectInv

\* What the backend writes goes behind what it has: offset is the length of the
\* file.
LEMMA WriteAtInv ==
  ASSUME RedirectAssumption, RedirectInv, WriteAt
  PROVE  RedirectInv'
<1>1. /\ holder = Task /\ ~checking
      /\ UNCHANGED <<chunks, handle, error, sink, cancelled, accepted>>
  BY DEF WriteAt, world
<1>2. /\ handle = "open" /\ error = TRUE
      /\ offset = Len(file) /\ Holds(file \o task, accepted)
      /\ file \in Seq(Byte) /\ task \in Seq(Byte)
  BY <1>1 DEF RedirectInv, LockInv, FileInv
<1>3. Task # Nobody /\ Task \notin Sinks /\ Nobody \notin Sinks
  BY DEF RedirectAssumption
<1>4. ASSUME NEW n \in 1..Len(task),
             file' = Overlay(file, offset, SubSeq(task, 1, n)),
             offset' = offset + n,
             task' = SubSeq(task, n + 1, Len(task)),
             checking' = TRUE, UNCHANGED holder
      PROVE  RedirectInv'
  <2>1. /\ SubSeq(task, 1, n) \in Seq(Byte) /\ Len(SubSeq(task, 1, n)) = n
        /\ task' \in Seq(Byte)
        /\ (file \o SubSeq(task, 1, n)) \o task' = file \o task
    BY <1>2, <1>4, CutInTwo, Zenon
  <2>2. file' = file \o SubSeq(task, 1, n)
    BY <1>2, <1>4, <2>1, OverlayAppends, Zenon
  <2>3. file' \in Seq(Byte) /\ Len(file') = Len(file) + n
    BY <1>2, <2>1, <2>2, ConcatProperties
  <2>4. Holds(file' \o task', accepted) /\ offset' = Len(file')
    BY <1>2, <1>4, <2>1, <2>2, <2>3, Zenon
  <2>5. FileInv'
    BY <1>1, <1>4, <2>1, <2>3, <2>4 DEF RedirectInv, FileInv
  <2>6. LockInv'
    BY <1>1, <1>2, <1>4 DEF RedirectInv, LockInv
  <2> QED
    BY <2>5, <2>6 DEF RedirectInv
<1>5. ASSUME task' = <<>>, holder' = Nobody, UNCHANGED <<file, offset, checking>>
      PROVE  RedirectInv'
  <2>1. LockInv'
    BY <1>1, <1>2, <1>3, <1>5 DEF RedirectInv, LockInv
  <2>2. FileInv'
    BY <1>1, <1>2, <1>3, <1>5 DEF RedirectInv, FileInv
  <2> QED
    BY <2>1, <2>2 DEF RedirectInv
<1> QED
  BY <1>4, <1>5, Zenon DEF WriteAt

\* The error goes only once the whole chunk is written.
LEMMA CheckpointInv ==
  ASSUME RedirectAssumption, RedirectInv, Checkpoint \/ LoseTask
  PROVE  RedirectInv'
<1>1. /\ holder = Task /\ checking' = FALSE
      /\ UNCHANGED <<chunks, handle, offset, sink, file, cancelled, accepted>>
  BY DEF Checkpoint, LoseTask, state, world
<1>2. /\ handle = "open" /\ error = TRUE
      /\ offset = Len(file) /\ Holds(file \o task, accepted)
      /\ file \in Seq(Byte) /\ task \in Seq(Byte)
  BY <1>1 DEF RedirectInv, LockInv, FileInv
<1>3. Task # Nobody /\ Task \notin Sinks /\ Nobody \notin Sinks
  BY DEF RedirectAssumption
<1>4. CASE task' = <<>> /\ holder' = Nobody /\ UNCHANGED error
  <2>1. LockInv'
    BY <1>1, <1>2, <1>3, <1>4, Zenon DEF RedirectInv, LockInv
  <2>2. FileInv'
    BY <1>1, <1>2, <1>3, <1>4 DEF RedirectInv, FileInv
  <2> QED
    BY <2>1, <2>2 DEF RedirectInv
<1>5. CASE task = <<>> /\ error' = FALSE /\ holder' = Nobody /\ UNCHANGED task
  <2>1. LockInv'
    BY <1>1, <1>2, <1>3, <1>5, Zenon DEF RedirectInv, LockInv
  <2>2. FileInv'
    BY <1>1, <1>2, <1>3, <1>5 DEF RedirectInv, FileInv
  <2> QED
    BY <2>1, <2>2 DEF RedirectInv
<1>6. CASE UNCHANGED <<error, holder, task>>
  <2>1. LockInv'
    BY <1>1, <1>2, <1>3, <1>6, Zenon DEF RedirectInv, LockInv
  <2>2. FileInv'
    BY <1>1, <1>2, <1>3, <1>6 DEF RedirectInv, FileInv
  <2> QED
    BY <2>1, <2>2 DEF RedirectInv
<1> QED
  BY <1>4, <1>5, <1>6, Zenon DEF Checkpoint, LoseTask, state

\* The steps of a finish that leave the lock as it is: a call, and the answer
\* to a later call.
LEMMA CallInv ==
  ASSUME RedirectAssumption, RedirectInv, NEW s \in Sinks, FinishCall(s) \/ FinishAgain(s)
  PROVE  RedirectInv'
<1>1. UNCHANGED <<chunks, holder, task, checking, handle, offset, error, file, cancelled, accepted>>
  BY DEF FinishCall, FinishAgain, state, world
<1>2. FileInv'
  BY <1>1 DEF RedirectInv, FileInv
<1>3. CASE FinishCall(s)
  <2>1. sink[s] = "idle" /\ sink' = [sink EXCEPT ![s] = "waiting"]
    BY <1>3 DEF FinishCall
  <2>2. LockInv'
    BY <1>1, <2>1 DEF RedirectInv, LockInv, Returned
  <2> QED
    BY <1>2, <2>2 DEF RedirectInv
<1>4. CASE FinishAgain(s)
  <2>1. /\ sink[s] = "waiting" /\ holder = Nobody /\ handle # "open"
        /\ sink' = [sink EXCEPT ![s] = IF error THEN "failed" ELSE "succeeded"]
    BY <1>4 DEF FinishAgain, Granted
  <2>2. Nobody \notin Sinks
    BY DEF RedirectAssumption
  <2>3. handle \in {"closed", "lost", "aborted"}
    BY <2>1, <2>2 DEF RedirectInv, LockInv
  <2>4. LockInv'
    BY <1>1, <2>1, <2>2, <2>3 DEF RedirectInv, LockInv, Returned
  <2> QED
    BY <1>2, <2>4 DEF RedirectInv
<1> QED
  BY <1>3, <1>4

\* The first finish finds either an error or a file that is whole.
LEMMA TakeInv ==
  ASSUME RedirectAssumption, RedirectInv, NEW s \in Sinks, FinishTake(s)
  PROVE  RedirectInv'
<1>1. /\ sink[s] = "waiting" /\ holder = Nobody /\ handle = "open"
      /\ handle' = "taken" /\ holder' = s
      /\ sink' = [sink EXCEPT ![s] = IF error \/ cancelled THEN "abort" ELSE "close"]
      /\ UNCHANGED <<chunks, task, checking, offset, error, file, cancelled, accepted>>
  BY DEF FinishTake, Granted, world
<1>2. Task # Nobody /\ Task \notin Sinks /\ Nobody \notin Sinks
  BY DEF RedirectAssumption
<1>3. LockInv'
  BY <1>1, <1>2 DEF RedirectInv, LockInv, Returned
<1>4. FileInv'
  BY <1>1, <1>2 DEF RedirectInv, FileInv
<1> QED
  BY <1>3, <1>4 DEF RedirectInv

\* What close or abort made of the file is what this finish and every later one
\* return.
LEMMA HandleInv ==
  ASSUME RedirectAssumption, RedirectInv, NEW s \in Sinks, FinishHandle(s)
  PROVE  RedirectInv'
<1>1. PICK fails \in BOOLEAN :
        /\ handle' = IF sink[s] = "abort" \/ cancelled THEN "aborted" ELSE IF fails THEN "lost" ELSE "closed"
        /\ error' = (error \/ fails)
  BY DEF FinishHandle
<1>2. /\ sink[s] \in {"close", "abort"}
      /\ sink' = [sink EXCEPT ![s] = IF error' THEN "failed" ELSE "succeeded"]
      /\ holder' = Nobody
      /\ UNCHANGED <<offset, chunks, task, checking, file, cancelled, accepted>>
  BY DEF FinishHandle, world
<1>3. Task # Nobody /\ Task \notin Sinks /\ Nobody \notin Sinks
  BY DEF RedirectAssumption
<1>4. holder = s /\ handle = "taken"
  BY <1>2 DEF RedirectInv, LockInv
<1>5. \A t \in Sinks : t # s => sink[t] \in {"idle", "waiting"}
  BY <1>4 DEF RedirectInv, LockInv
<1>6. LockInv'
  <2>1. handle' \in {"closed", "lost", "aborted"} /\ error' \in BOOLEAN /\ ~checking
    BY <1>1, <1>3, <1>4 DEF RedirectInv, LockInv
  <2>2. handle' = "closed" => ~error'
    BY <1>1, <1>2 DEF RedirectInv, LockInv
  <2>3. handle' = "lost" => error'
    BY <1>1
  <2>4. handle' = "aborted" => error' \/ cancelled'
    BY <1>1, <1>2 DEF RedirectInv, LockInv
  <2>5. /\ sink' \in [Sinks -> {"idle", "waiting", "close", "abort"} \union Returned]
        /\ sink'[s] = IF error' THEN "failed" ELSE "succeeded"
        /\ \A t \in Sinks : t # s => sink'[t] \in {"idle", "waiting"}
    BY <1>2, <1>5, <2>1 DEF RedirectInv, LockInv, Returned
  <2> QED
    BY <1>2, <1>3, <2>1, <2>2, <2>3, <2>4, <2>5 DEF RedirectInv, LockInv, Returned
<1>7. FileInv'
  BY <1>1, <1>2, <1>3, <1>4, Zenon DEF RedirectInv, FileInv
<1> QED
  BY <1>6, <1>7 DEF RedirectInv

\* A truncated file satisfies the invariant, ...
LEMMA FileStarts ==
  ASSUME RedirectAssumption, Init
  PROVE  RedirectInv
<1>1. /\ holder = Nobody /\ task = <<>> /\ file = <<>> /\ accepted = <<>> /\ offset = 0
      /\ error = FALSE /\ checking = FALSE /\ cancelled = FALSE /\ handle = "open"
      /\ sink = [s \in Sinks |-> "idle"] /\ chunks = [w \in Writers |-> 0]
  BY DEF Init
<1>2. Task # Nobody /\ Task \notin Sinks /\ Nobody \notin Sinks /\ ChunkSize \in Nat
  BY DEF RedirectAssumption
<1>3. LockInv
  BY <1>1, <1>2, Zenon DEF LockInv, Returned
<1>4. Holds(<<>> \o <<>>, <<>>)
  BY <1>2 DEF Holds
<1>5. FileInv
  BY <1>1, <1>2, <1>4 DEF FileInv
<1> QED
  BY <1>3, <1>5 DEF RedirectInv

\* ... and every step of a descriptor, of the task and of a finish keeps it.
LEMMA FileSteps ==
  ASSUME RedirectAssumption, RedirectInv, [Next]_vars
  PROVE  RedirectInv'
<1>1. ASSUME NEW w \in Writers, Wait(w) \/ GiveUp(w) \/ Answer(w) \/ DropWriter(w)
      PROVE  RedirectInv'
  <2>1. /\ UNCHANGED <<chunks, holder, task, checking, state, sink, file, accepted>>
        /\ cancelled' = cancelled /\ cancelled \in BOOLEAN
    BY <1>1 DEF Wait, GiveUp, Answer, DropWriter, world, locking, RedirectInv, LockInv
  <2> QED
    BY <2>1, OutsideInv
<1>2. ASSUME NEW w \in Writers, Accept(w)
      PROVE  RedirectInv'
  BY <1>2, AcceptInv
<1>3. CASE TaskRuns \/ LoseTask
  BY <1>3, WriteAtInv, CheckpointInv DEF TaskRuns
<1>4. ASSUME NEW s \in Sinks, FinishCall(s) \/ FinishRuns(s)
      PROVE  RedirectInv'
  BY <1>4, CallInv, TakeInv, HandleInv DEF FinishRuns
<1>5. CASE Fill \/ Cancel \/ Finished \/ UNCHANGED vars
  <2>1. /\ UNCHANGED <<chunks, holder, task, checking, state, sink, file, accepted>>
        /\ cancelled' \in BOOLEAN /\ (cancelled => cancelled')
    BY <1>5, Zenon DEF Fill, Cancel, Finished, vars, world, locking, RedirectInv, LockInv
  <2> QED
    BY <2>1, OutsideInv
<1> QED
  BY <1>1, <1>2, <1>3, <1>4, <1>5 DEF Next

-----------------------------------------------------------------------------
\* A committed file holds every accepted chunk once, whole and in order, and a
\* redirect that reports success has committed its file or was cancelled,
\* whatever the descriptors, the spawned task, the backend and the calls of
\* finish do in between.
THEOREM NothingLostSilently ==
  ASSUME RedirectAssumption
  PROVE  Spec => []RedirectsWhole
<1>1. Init => RedirectInv
  BY FileStarts
<1>2. RedirectInv /\ [Next]_vars => RedirectInv'
  BY FileSteps
<1>3. ASSUME RedirectInv
      PROVE  RedirectsWhole
  <2>1. CommitIsComplete
    <3>1. SUFFICES ASSUME handle = "closed"
                   PROVE  Holds(file, accepted)
      BY DEF CommitIsComplete
    <3>2. ~error /\ holder # Task
      BY <1>3, <3>1 DEF RedirectInv, LockInv
    <3>3. task = <<>> /\ Holds(file \o task, accepted) /\ file \in Seq(Byte)
      BY <1>3, <3>2 DEF RedirectInv, FileInv
    <3> QED
      BY <3>3
  <2>2. LossIsReported
    BY <1>3 DEF RedirectInv, LockInv, LossIsReported, Returned
  <2> QED
    BY <2>1, <2>2 DEF RedirectsWhole
<1> QED
  BY <1>1, <1>2, <1>3, PTL DEF Spec

-----------------------------------------------------------------------------
(***************************************************************************)
(* Reading the redirects from right to left.                               *)
(***************************************************************************)
\* A set of naturals has a least element.
LEMMA Least ==
  ASSUME NEW T, T \subseteq Nat, T # {}
  PROVE  \E n \in T : \A m \in T : n <= m
<1>1. PICK n \in T : \A y \in T : ~(<<y, n>> \in OpToRel(<, Nat))
  BY WFMin, NatLessThanWellFounded, Zenon
<1>2. \A y \in T : ~(y < n)
  BY <1>1, Zenon DEF OpToRel
<1> QED
  BY <1>2

\* One step of the reading, lead being what is known of the redirects before.
Read(s, lead, n) ==
  [d \in {1, 2} |->
     IF n = 0 THEN Capture[d]
     ELSE IF s[n].kind \notin {"out", "dup"} \/ s[n].fd # d THEN lead[n - 1][d]
     ELSE IF s[n].kind = "out" THEN n
     ELSE lead[n - 1][s[n].to]]

\* A redirect of a script has a target that is a descriptor.
LEMMA Targets ==
  ASSUME NEW s \in Seq(Forms), NEW n \in 1..Len(s)
  PROVE  /\ s[n].kind \in {"in", "refused", "out", "dup"}
         /\ s[n].kind \in {"out", "dup"} => s[n].fd \in {1, 2}
         /\ s[n].kind = "dup" => s[n].to \in {1, 2}
<1>1. s[n] \in Forms
  OBVIOUS
<1> QED
  BY <1>1 DEF Forms

\* A function that reads the first m redirects.
Reads(s, lead, m) == lead = [n \in 0..m |-> Read(s, lead, n)]

\* The reading looks back by one redirect.
LEMMA ReadBack ==
  ASSUME NEW s, NEW lead, NEW other, NEW n, n = 0 \/ lead[n - 1] = other[n - 1]
  PROVE  Read(s, lead, n) = Read(s, other, n)
BY DEF Read

\* The redirects can be read to the end: no redirect ...
LEMMA ReadNone ==
  ASSUME NEW s
  PROVE  \E lead : Reads(s, lead, 0)
<1> DEFINE lead == [n \in 0..0 |-> Read(s, s, n)]
<1>1. \A n \in 0..0 : n = 0
  OBVIOUS
<1>2. \A n \in 0..0 : lead[n] = Read(s, s, n)
  OBVIOUS
<1>3. lead = [n \in 0..0 |-> lead[n]]
  OBVIOUS
<1> HIDE DEF lead
<1>4. \A n \in 0..0 : Read(s, s, n) = Read(s, lead, n)
  BY <1>1, ReadBack
<1>5. Reads(s, lead, 0)
  BY <1>2, <1>3, <1>4 DEF Reads
<1> QED
  BY <1>5

\* ... and one more than could be read so far.
LEMMA ReadOneMore ==
  ASSUME NEW s, NEW m \in Nat \ {0}, NEW old, Reads(s, old, m - 1)
  PROVE  \E lead : Reads(s, lead, m)
<1> DEFINE lead == [n \in 0..m |-> IF n = m THEN Read(s, old, m) ELSE old[n]]
<1>1. /\ \A n \in 0..m : lead[n] = IF n = m THEN Read(s, old, m) ELSE old[n]
      /\ lead = [n \in 0..m |-> lead[n]]
  OBVIOUS
<1> HIDE DEF lead
<1>2. \A n \in 0..(m - 1) : old[n] = Read(s, old, n)
  BY DEF Reads
<1>3. ASSUME NEW n \in 0..m
      PROVE  lead[n] = Read(s, lead, n)
  <2>1. n = 0 \/ lead[n - 1] = old[n - 1]
    <3>1. CASE n # 0
      <4>1. n - 1 \in 0..m /\ n - 1 # m
        BY <3>1
      <4> QED
        BY <1>1, <4>1
    <3> QED
      BY <3>1
  <2>2. Read(s, lead, n) = Read(s, old, n)
    BY <2>1, ReadBack
  <2>3. CASE n = m
    BY <1>1, <2>2, <2>3
  <2>4. CASE n # m
    <3>1. n \in 0..(m - 1)
      BY <2>4
    <3> QED
      BY <1>1, <1>2, <2>2, <2>4, <3>1
  <2> QED
    BY <2>3, <2>4
<1>4. Reads(s, lead, m)
  BY <1>1, <1>3 DEF Reads
<1> QED
  BY <1>4

\* Any number of redirects can be read.
LEMMA Readable ==
  ASSUME NEW s
  PROVE  \A m \in Nat : \E lead : Reads(s, lead, m)
<1> DEFINE Bad == {m \in Nat : ~\E lead : Reads(s, lead, m)}
<1>1. SUFFICES ASSUME Bad # {}
               PROVE  FALSE
  OBVIOUS
<1>2. PICK m \in Bad : \A k \in Bad : m <= k
  <2>1. Bad \subseteq Nat
    OBVIOUS
  <2> HIDE DEF Bad
  <2> QED
    BY <1>1, <2>1, Least, Zenon
<1>3. m \in Nat /\ ~\E lead : Reads(s, lead, m)
  OBVIOUS
<1>4. m # 0
  BY <1>3, ReadNone
<1>5. m - 1 \in Nat /\ ~(m <= m - 1)
  BY <1>3, <1>4
<1>6. \E lead : Reads(s, lead, m - 1)
  BY <1>2, <1>5
<1> QED
  BY <1>3, <1>4, <1>6, ReadOneMore

\* The reading that LeadsTo defines.
LEMMA LeadsToReads ==
  ASSUME NEW s \in Seq(Forms), NEW n \in 0..Len(s)
  PROVE  LeadsTo(s)[n] = Read(s, LeadsTo(s), n)
<1>1. \E lead : lead = [m \in 0..Len(s) |-> Read(s, lead, m)]
  <2>1. Len(s) \in Nat
    OBVIOUS
  <2>2. PICK lead : Reads(s, lead, Len(s))
    BY <2>1, Readable, Zenon
  <2> QED
    BY <2>2 DEF Reads
<1>2. LeadsTo(s) = [m \in 0..Len(s) |-> Read(s, LeadsTo(s), m)]
  BY <1>1, Zenon DEF LeadsTo, Read
<1> HIDE DEF LeadsTo
<1> QED
  BY <1>2

-----------------------------------------------------------------------------
(***************************************************************************)
(* The files that are open.                                                *)
(***************************************************************************)
\* Nobody is twice in an injective sequence: its head is not in its tail.
LEMMA Taken ==
  ASSUME NEW s \in Seq(Nat), IsInjective(s), s # <<>>
  PROVE  /\ Tail(s) \in Seq(Nat) /\ IsInjective(Tail(s))
         /\ Head(s) \in Range(s) /\ Range(Tail(s)) = Range(s) \ {Head(s)}
<1>1. /\ Len(s) \in Nat \ {0} /\ DOMAIN s = 1..Len(s)
      /\ Tail(s) \in Seq(Nat) /\ Len(Tail(s)) = Len(s) - 1 /\ DOMAIN Tail(s) = 1..(Len(s) - 1)
      /\ \A k \in 1..(Len(s) - 1) : Tail(s)[k] = s[k + 1]
      /\ Head(s) = s[1]
  BY EmptySeq, LenProperties, HeadTailProperties
<1>2. \A j, k \in 1..Len(s) : s[j] = s[k] => j = k
  BY <1>1 DEF IsInjective
<1>3. IsInjective(Tail(s))
  <2>1. ASSUME NEW a \in 1..(Len(s) - 1), NEW b \in 1..(Len(s) - 1), Tail(s)[a] = Tail(s)[b]
        PROVE  a = b
    <3>1. a + 1 \in 1..Len(s) /\ b + 1 \in 1..Len(s) /\ s[a + 1] = s[b + 1]
      BY <1>1, <2>1
    <3>2. a + 1 = b + 1
      BY <1>2, <3>1
    <3> QED
      BY <3>2
  <2> QED
    BY <1>1, <2>1, Zenon DEF IsInjective
<1>4. Head(s) \in Range(s)
  BY <1>1 DEF Range
<1>5. ASSUME NEW x
      PROVE  x \in Range(Tail(s)) <=> x \in Range(s) /\ x # Head(s)
  <2>1. ASSUME x \in Range(Tail(s))
        PROVE  x \in Range(s) /\ x # Head(s)
    <3>1. PICK k \in 1..(Len(s) - 1) : x = s[k + 1]
      BY <1>1, <2>1 DEF Range
    <3>2. k + 1 \in 1..Len(s) /\ 1 \in 1..Len(s) /\ k + 1 # 1
      BY <1>1
    <3> QED
      BY <1>1, <1>2, <3>1, <3>2 DEF Range
  <2>2. ASSUME x \in Range(s), x # Head(s)
        PROVE  x \in Range(Tail(s))
    <3>1. PICK k \in 1..Len(s) : x = s[k]
      BY <1>1, <2>2 DEF Range
    <3>2. k - 1 \in 1..(Len(s) - 1) /\ (k - 1) + 1 = k
      BY <1>1, <2>2, <3>1
    <3> QED
      BY <1>1, <3>1, <3>2 DEF Range
  <2> QED
    BY <2>1, <2>2
<1> QED
  BY <1>1, <1>3, <1>4, <1>5

\* A new element is added.
LEMMA Added ==
  ASSUME NEW s \in Seq(Nat), IsInjective(s), NEW x \in Nat, x \notin Range(s)
  PROVE  /\ Append(s, x) \in Seq(Nat) /\ IsInjective(Append(s, x))
         /\ Range(Append(s, x)) = Range(s) \union {x}
<1>1. /\ Len(s) \in Nat /\ DOMAIN s = 1..Len(s)
      /\ Append(s, x) \in Seq(Nat) /\ DOMAIN Append(s, x) = 1..(Len(s) + 1)
      /\ \A k \in 1..Len(s) : Append(s, x)[k] = s[k]
      /\ Append(s, x)[Len(s) + 1] = x
  BY AppendProperties, LenProperties
<1>2. \A k \in 1..Len(s) : s[k] # x
  BY <1>1 DEF Range
<1>3. \A k \in 1..(Len(s) + 1) : k \in 1..Len(s) \/ k = Len(s) + 1
  BY <1>1
<1>4. Range(Append(s, x)) = Range(s) \union {x}
  BY <1>1, <1>3 DEF Range
<1>5. IsInjective(Append(s, x))
  BY <1>1, <1>2, <1>3 DEF IsInjective
<1> QED
  BY <1>1, <1>4, <1>5

-----------------------------------------------------------------------------
(***************************************************************************)
(* The inductive invariant.                                                *)
(***************************************************************************)
IsA(n, kind) == n \in 1..Len(script) /\ script[n].kind = kind
\* The handles that are open, the ones the backend lost, ...
Open == {n \in DOMAIN script : handles[n] = "open"}
Lost == {n \in DOMAIN script : handles[n] = "lost"}
\* ... the files a descriptor leads to, and the inputs.
Files == Range(dest) \intersect DOMAIN script
Input == {stdin, superseded} \intersect DOMAIN script

\* Where the preparation is.
PlaceInv ==
  /\ script \in Seq(Forms) /\ at \in 1..(Len(script) + 1)
  /\ phase \in {"apply", "supersede", "sweep", "done"}
  /\ failed \in BOOLEAN
  /\ phase \in {"apply", "supersede"} => ~failed
  /\ phase \in {"sweep", "done"} /\ ~failed => at = Len(script) + 1
  /\ handles \in [DOMAIN script -> {"none", "open", "closed", "aborted", "lost"}]
  /\ phase \in {"apply", "supersede"} => \A n \in Open : n <= at
  /\ phase = "apply" => at \notin Open

\* The input, and the one it replaces.
InputInv ==
  /\ stdin = None \/ IsA(stdin, "in")
  /\ superseded = None \/ IsA(superseded, "in")
  /\ phase = "supersede" <=> superseded # None
  /\ phase = "supersede" => IsA(at, "in") /\ stdin = at /\ superseded # at

\* The descriptors lead where the redirects so far say.
DestInv ==
  /\ dest \in [{1, 2} -> Int]
  /\ ~failed => dest = LeadsTo(script)[at - 1]
  /\ \A d \in {1, 2} : dest[d] \in {-1, -2} \/ IsA(dest[d], "out")

\* The files that are open are the ones in use or still to be looked at;
\* after a failure that the backend had no part in, the latter alone.
OpenInv ==
  /\ opened \in Seq(Nat) /\ IsInjective(opened)
  /\ \A n \in Range(opened) : IsA(n, "out")
  /\ phase # "done" => Range(opened) \union Input \subseteq Open
  /\ phase \in {"apply", "supersede"} => Files \subseteq Range(opened)
  /\ ~failed => Open = Range(opened) \union Input \union Files
  /\ phase = "sweep" /\ failed /\ Lost = {} => Open \subseteq Range(opened) \union Input
  /\ phase = "done" => opened = <<>>
  /\ phase = "done" /\ failed /\ Lost = {} => Open = {}

\* The whole invariant.
SetupInv == PlaceInv /\ InputInv /\ DestInv /\ OpenInv

\* None is no redirect, and no redirect is of two kinds.
LEMMA Apart ==
  ASSUME SetupAssumption, script \in Seq(Forms)
  PROVE  /\ DOMAIN script = 1..Len(script) /\ Len(script) \in Nat
         /\ None \notin DOMAIN script
         /\ \A n : ~(IsA(n, "in") /\ IsA(n, "out"))
BY LenProperties DEF SetupAssumption, IsA

\* Before the first redirect nothing is open.
LEMMA SetupStarts ==
  ASSUME SetupAssumption, SetupInit
  PROVE  SetupInv
<1>1. /\ script \in Seq(Forms) /\ at = 1 /\ phase = "apply" /\ stdin = None /\ superseded = None
      /\ dest = Capture /\ opened = <<>> /\ handles = [n \in DOMAIN script |-> "none"] /\ failed = FALSE
  BY DEF SetupInit, SetupAssumption
<1>2. DOMAIN script = 1..Len(script) /\ Len(script) \in Nat /\ None \notin DOMAIN script
  BY <1>1, Apart
<1>3. Open = {}
  BY <1>1 DEF Open
<1>4. PlaceInv
  <2>1. handles \in [DOMAIN script -> {"none", "open", "closed", "aborted", "lost"}]
    BY <1>1
  <2>2. at \in 1..(Len(script) + 1)
    BY <1>1, <1>2
  <2> QED
    BY <1>1, <1>3, <2>1, <2>2, Zenon DEF PlaceInv
<1>5. InputInv
  BY <1>1 DEF InputInv
<1>6. DestInv
  <2>1. 0 \in 0..Len(script) /\ at - 1 = 0
    BY <1>1, <1>2
  <2>2. LeadsTo(script)[0] = Read(script, LeadsTo(script), 0)
    BY <1>1, <2>1, LeadsToReads
  <2>3. Capture \in [{1, 2} -> Int] /\ \A d \in {1, 2} : Capture[d] \in {-1, -2}
    BY DEF Capture
  <2>4. Read(script, LeadsTo(script), 0) = Capture
    BY DEF Read, Capture
  <2> QED
    BY <1>1, <2>1, <2>2, <2>3, <2>4 DEF DestInv
<1>7. OpenInv
  <2>1. Range(opened) = {} /\ opened \in Seq(Nat) /\ IsInjective(opened)
    BY <1>1 DEF Range, IsInjective
  <2>2. Files = {} /\ Input = {}
    BY <1>1, <1>2 DEF Files, Input, Range, Capture
  <2> QED
    BY <1>1, <1>3, <2>1, <2>2 DEF OpenInv
<1> QED
  BY <1>4, <1>5, <1>6, <1>7 DEF SetupInv

\* The reading after one more redirect.
LEMMA LeadsOn ==
  ASSUME SetupAssumption, SetupInv, at <= Len(script), ~failed
  PROVE  /\ at \in 1..Len(script) /\ (at + 1) - 1 = at
         /\ LeadsTo(script)[at] =
              [d \in {1, 2} |->
                 IF script[at].kind \notin {"out", "dup"} \/ script[at].fd # d THEN dest[d]
                 ELSE IF script[at].kind = "out" THEN at
                 ELSE dest[script[at].to]]
<1>1. script \in Seq(Forms) /\ at \in 1..Len(script) /\ at \in 0..Len(script) /\ at # 0 /\ (at + 1) - 1 = at
  BY DEF SetupInv, PlaceInv
<1>2. LeadsTo(script)[at] = Read(script, LeadsTo(script), at)
  BY <1>1, LeadsToReads
<1>3. dest = LeadsTo(script)[at - 1]
  BY DEF SetupInv, DestInv
<1> QED
  BY <1>1, <1>2, <1>3 DEF Read

\* The loop is left.
LEMMA LeaveInv ==
  ASSUME SetupAssumption, SetupInv, NEW fails \in BOOLEAN, LeaveLoop(fails)
  PROVE  SetupInv'
<1>1. /\ phase = "apply" /\ phase' = "sweep" /\ failed' = fails /\ (~fails => at > Len(script))
      /\ UNCHANGED <<script, at, stdin, superseded, dest, opened, handles>>
  BY DEF LeaveLoop
<1>2. Open' = Open /\ Lost' = Lost /\ Files' = Files /\ Input' = Input
  BY <1>1 DEF Open, Lost, Files, Input
<1>3. ~failed
  BY <1>1 DEF SetupInv, PlaceInv
<1>4. PlaceInv'
  BY <1>1, <1>2 DEF SetupInv, PlaceInv
<1>5. InputInv' /\ DestInv'
  BY <1>1, <1>3 DEF SetupInv, InputInv, DestInv, IsA
<1>6. OpenInv'
  BY <1>1, <1>2, <1>3 DEF SetupInv, OpenInv, IsA
<1> QED
  BY <1>4, <1>5, <1>6 DEF SetupInv

\* apply_fd_redirect: no file is opened, and one that no descriptor leads to any
\* more is still among those to be swept.
LEMMA DuplicateInv ==
  ASSUME SetupAssumption, SetupInv, Duplicate
  PROVE  SetupInv'
<1> DEFINE fd == script[at].fd
           to == script[at].to
<1>1. /\ phase = "apply" /\ at <= Len(script) /\ script[at].kind = "dup"
      /\ dest' = [dest EXCEPT ![fd] = dest[to]] /\ at' = at + 1
      /\ UNCHANGED <<script, phase, stdin, superseded, opened, handles, failed>>
  BY DEF Duplicate, Applying
<1>2. ~failed /\ script \in Seq(Forms)
  BY <1>1 DEF SetupInv, PlaceInv
<1>3. /\ at \in 1..Len(script) /\ (at + 1) - 1 = at
      /\ LeadsTo(script)[at] =
              [d \in {1, 2} |->
                 IF script[at].kind \notin {"out", "dup"} \/ script[at].fd # d THEN dest[d]
                 ELSE IF script[at].kind = "out" THEN at
                 ELSE dest[script[at].to]]
  BY <1>1, <1>2, LeadsOn
<1>4. fd \in {1, 2} /\ to \in {1, 2}
  BY <1>1, <1>2, <1>3, Targets
<1>5. dest \in [{1, 2} -> Int]
  BY DEF SetupInv, DestInv
<1>6. LeadsTo(script)[at] = [d \in {1, 2} |-> IF d = fd THEN dest[to] ELSE dest[d]]
  BY <1>1, <1>3, <1>4
<1> HIDE DEF fd, to
<1>7. dest' = [d \in {1, 2} |-> IF d = fd THEN dest[to] ELSE dest[d]] /\ dest' \in [{1, 2} -> Int]
  BY <1>1, <1>4, <1>5, Zenon
<1>8. \A d \in {1, 2} : \E e \in {1, 2} : dest'[d] = dest[e]
  BY <1>4, <1>7
<1>9. DestInv'
  <2>1. dest' = LeadsTo(script')[at' - 1]
    BY <1>1, <1>3, <1>6, <1>7, Zenon
  <2>2. \A d \in {1, 2} : dest'[d] \in {-1, -2} \/ IsA(dest'[d], "out")
    BY <1>8 DEF SetupInv, DestInv
  <2> QED
    BY <1>1, <1>7, <2>1, <2>2, Zenon DEF DestInv, IsA
<1>10. Open' = Open /\ Lost' = Lost /\ Input' = Input /\ Files' \subseteq Files
  BY <1>1, <1>5, <1>7, <1>8 DEF Open, Lost, Input, Files, Range
<1>11. PlaceInv'
  <2>1. at + 1 \in 1..(Len(script) + 1)
    BY <1>2, <1>3
  <2>2. \A n \in Open : n \in Nat /\ n <= at
    BY <1>1, <1>2, LenProperties DEF SetupInv, PlaceInv, Open
  <2>3. (\A n \in Open : n <= at + 1) /\ at + 1 \notin Open
    BY <1>3, <2>2
  <2> QED
    BY <1>1, <1>10, <2>1, <2>3 DEF SetupInv, PlaceInv
<1>12. InputInv'
  BY <1>1 DEF SetupInv, InputInv, IsA
<1>13. OpenInv'
  BY <1>1, <1>2, <1>10 DEF SetupInv, OpenInv, IsA
<1> QED
  BY <1>9, <1>11, <1>12, <1>13 DEF SetupInv

\* A file is opened.
LEMMA OpensOne ==
  ASSUME PlaceInv, phase = "apply", at \in DOMAIN script,
         handles' = [handles EXCEPT ![at] = "open"], script' = script
  PROVE  /\ handles' \in [DOMAIN script -> {"none", "open", "closed", "aborted", "lost"}]
         /\ Open' = Open \union {at}
BY DEF PlaceInv, Open

\* A file that is open is closed, aborted or lost.
LEMMA ClosesOne ==
  ASSUME PlaceInv, NEW n \in Open, NEW outcome \in {"closed", "aborted", "lost"},
         Closes(n, outcome), script' = script
  PROVE  /\ handles' \in [DOMAIN script -> {"none", "open", "closed", "aborted", "lost"}]
         /\ Open' = Open \ {n} /\ Lost' = Lost \union (IF outcome = "lost" THEN {n} ELSE {})
<1>1. handles' = [handles EXCEPT ![n] = outcome]
  BY DEF Closes
<1>2. n \in DOMAIN script /\ handles[n] = "open"
  BY DEF Open
<1>3. /\ handles' \in [DOMAIN script -> {"none", "open", "closed", "aborted", "lost"}]
      /\ \A m \in DOMAIN script : handles'[m] = IF m = n THEN outcome ELSE handles[m]
  BY <1>1, <1>2 DEF PlaceInv
<1>4. Open' = Open \ {n}
  BY <1>3 DEF Open
<1>5. Lost' = Lost \union (IF outcome = "lost" THEN {n} ELSE {})
  BY <1>2, <1>3 DEF Lost
<1> QED
  BY <1>3, <1>4, <1>5

\* A new input: the previous one, if any, is still open.
LEMMA OpenInputInv ==
  ASSUME SetupAssumption, SetupInv, OpenInput
  PROVE  SetupInv'
<1>1. /\ phase = "apply" /\ at <= Len(script) /\ script[at].kind = "in"
      /\ handles' = [handles EXCEPT ![at] = "open"]
      /\ stdin' = at /\ superseded' = stdin
      /\ UNCHANGED <<script, dest, opened, failed>>
      /\ IF stdin = None THEN at' = at + 1 /\ phase' = phase ELSE phase' = "supersede" /\ at' = at
  BY DEF OpenInput, Applying
<1>2. ~failed /\ script \in Seq(Forms)
  BY <1>1 DEF SetupInv, PlaceInv
<1>3. /\ at \in 1..Len(script) /\ (at + 1) - 1 = at
      /\ LeadsTo(script)[at] =
              [d \in {1, 2} |->
                 IF script[at].kind \notin {"out", "dup"} \/ script[at].fd # d THEN dest[d]
                 ELSE IF script[at].kind = "out" THEN at
                 ELSE dest[script[at].to]]
  BY <1>1, <1>2, LeadsOn
<1>4. dest \in [{1, 2} -> Int]
  BY DEF SetupInv, DestInv
<1>5. LeadsTo(script)[at] = dest
  BY <1>1, <1>3, <1>4
<1>6. DOMAIN script = 1..Len(script) /\ Len(script) \in Nat /\ None \notin DOMAIN script
  BY <1>2, Apart
<1>7. /\ handles' \in [DOMAIN script -> {"none", "open", "closed", "aborted", "lost"}]
      /\ Open' = Open \union {at}
  BY <1>1, <1>3, <1>6, OpensOne DEF SetupInv
<1>8. \A n \in Open : n \in Nat /\ n <= at
  BY <1>1, <1>6 DEF SetupInv, PlaceInv, Open
<1>9. at \in Nat /\ at \notin Open /\ at # None
  BY <1>1, <1>3, <1>6 DEF SetupInv, PlaceInv
<1>10. stdin # None => stdin \in Open /\ stdin \in DOMAIN script
  BY <1>1, <1>6 DEF SetupInv, InputInv, IsA, OpenInv, Input
<1>11. superseded = None
  BY <1>1 DEF SetupInv, InputInv
<1>12. Input' = Input \union {at} /\ Files' = Files
  BY <1>1, <1>3, <1>6, <1>10, <1>11 DEF Input, Files
<1>13. PlaceInv'
  <2>1. CASE stdin = None
    <3>1. at + 1 \in 1..(Len(script) + 1)
      BY <1>3, <1>6
    <3>2. (\A n \in Open \union {at} : n <= at + 1) /\ at + 1 \notin Open \union {at}
      BY <1>8, <1>9
    <3> QED
      BY <1>1, <1>2, <1>7, <2>1, <3>1, <3>2 DEF SetupInv, PlaceInv
  <2>2. CASE stdin # None
    <3>1. \A n \in Open \union {at} : n <= at
      BY <1>8, <1>9
    <3> QED
      BY <1>1, <1>2, <1>7, <2>2, <3>1 DEF SetupInv, PlaceInv
  <2> QED
    BY <2>1, <2>2
<1>14. InputInv'
  <2>1. IsA(at, "in") /\ (stdin = None \/ IsA(stdin, "in"))
    BY <1>1, <1>3 DEF IsA, SetupInv, InputInv
  <2>2. stdin # at
    BY <1>9, <1>10
  <2> QED
    BY <1>1, <2>1, <2>2 DEF InputInv, IsA
<1>15. DestInv'
  BY <1>1, <1>2, <1>3, <1>5, SMTT(30) DEF SetupInv, DestInv, IsA
<1>16. OpenInv'
  BY <1>1, <1>2, <1>7, <1>12 DEF SetupInv, OpenInv, IsA
<1> QED
  BY <1>13, <1>14, <1>15, <1>16 DEF SetupInv

\* The previous input is closed.
LEMMA CloseSupersededInv ==
  ASSUME SetupAssumption, SetupInv, CloseSuperseded
  PROVE  SetupInv'
<1>1. PICK outcome \in {"closed", "aborted", "lost"} :
        Closes(superseded, outcome) /\ failed' = (outcome = "lost")
  BY DEF CloseSuperseded
<1>2. /\ phase = "supersede" /\ superseded' = None
      /\ UNCHANGED <<script, stdin, dest, opened>>
      /\ IF failed' THEN phase' = "sweep" /\ at' = at ELSE phase' = "apply" /\ at' = at + 1
  BY DEF CloseSuperseded
<1>3. ~failed /\ script \in Seq(Forms) /\ at \in 1..(Len(script) + 1)
  BY <1>2 DEF SetupInv, PlaceInv
<1>4. DOMAIN script = 1..Len(script) /\ Len(script) \in Nat /\ None \notin DOMAIN script
  BY <1>3, Apart
<1>5. /\ IsA(at, "in") /\ stdin = at /\ superseded # at /\ IsA(superseded, "in")
  BY <1>2 DEF SetupInv, InputInv
<1>6. superseded \in Open /\ Open = Range(opened) \union Input \union Files /\ Files \subseteq Range(opened)
  BY <1>2, <1>3, <1>4, <1>5, SMTT(30) DEF SetupInv, OpenInv, Input, IsA
<1>7. /\ handles' \in [DOMAIN script -> {"none", "open", "closed", "aborted", "lost"}]
      /\ Open' = Open \ {superseded}
      /\ Lost' = Lost \union (IF outcome = "lost" THEN {superseded} ELSE {})
  BY <1>1, <1>2, <1>6, ClosesOne DEF SetupInv
<1>8. Input = {at, superseded} /\ Input' = {at} /\ Files' = Files
  BY <1>2, <1>4, <1>5 DEF Input, Files, IsA
<1>9. superseded \notin Range(opened) /\ at \notin Range(opened)
  BY <1>3, <1>5, Apart DEF SetupInv, OpenInv
<1>10. Open' = Range(opened) \union Input' \union Files'
  BY <1>5, <1>6, <1>7, <1>8, <1>9
<1>11. /\ at \in 1..Len(script) /\ (at + 1) - 1 = at /\ at + 1 \in 1..(Len(script) + 1)
       /\ script[at].kind = "in"
  BY <1>4, <1>5 DEF IsA
<1>12. LeadsTo(script)[at] = dest
  <2>1. LeadsTo(script)[at] =
              [d \in {1, 2} |->
                 IF script[at].kind \notin {"out", "dup"} \/ script[at].fd # d THEN dest[d]
                 ELSE IF script[at].kind = "out" THEN at
                 ELSE dest[script[at].to]]
    BY <1>3, <1>11, LeadsOn
  <2>2. dest \in [{1, 2} -> Int]
    BY DEF SetupInv, DestInv
  <2> QED
    BY <1>11, <2>1, <2>2
<1>13. PlaceInv'
  <2>1. CASE failed' = TRUE
    BY <1>2, <1>3, <1>7, <2>1 DEF PlaceInv
  <2>2. CASE failed' = FALSE
    <3>1. (\A n \in Open \ {superseded} : n <= at + 1) /\ at + 1 \notin Open
      <4>1. \A n \in Open : n \in Nat /\ n <= at
        BY <1>2, <1>4 DEF SetupInv, PlaceInv, Open
      <4> QED
        BY <1>11, <4>1
    <3> QED
      BY <1>2, <1>3, <1>7, <1>11, <2>2, <3>1, Zenon DEF PlaceInv
  <2> QED
    BY <1>1, <2>1, <2>2, Zenon
<1>14. InputInv'
  BY <1>2, <1>4, <1>5, <1>11 DEF InputInv, IsA
<1>15. DestInv'
  BY <1>2, <1>3, <1>11, <1>12, SMTT(30) DEF SetupInv, DestInv, IsA
<1>16. OpenInv'
  BY <1>2, <1>3, <1>6, <1>8, <1>10, SMTT(30) DEF SetupInv, OpenInv, IsA
<1> QED
  BY <1>13, <1>14, <1>15, <1>16 DEF SetupInv

\* A new output file.
LEMMA OpenOutputInv ==
  ASSUME SetupAssumption, SetupInv, OpenOutput
  PROVE  SetupInv'
<1> DEFINE fd == script[at].fd
<1>1. /\ phase = "apply" /\ at <= Len(script) /\ script[at].kind = "out"
      /\ handles' = [handles EXCEPT ![at] = "open"]
      /\ opened' = Append(opened, at)
      /\ dest' = [dest EXCEPT ![fd] = at] /\ at' = at + 1
      /\ UNCHANGED <<script, phase, stdin, superseded, failed>>
  BY DEF OpenOutput, Applying
<1>2. ~failed /\ script \in Seq(Forms)
  BY <1>1 DEF SetupInv, PlaceInv
<1>3. /\ at \in 1..Len(script) /\ (at + 1) - 1 = at
      /\ LeadsTo(script)[at] =
              [d \in {1, 2} |->
                 IF script[at].kind \notin {"out", "dup"} \/ script[at].fd # d THEN dest[d]
                 ELSE IF script[at].kind = "out" THEN at
                 ELSE dest[script[at].to]]
  BY <1>1, <1>2, LeadsOn, SMTT(30)
<1>4. fd \in {1, 2}
  BY <1>1, <1>2, <1>3, Targets, SMTT(30)
<1>5. dest \in [{1, 2} -> Int]
  BY DEF SetupInv, DestInv
<1>6. LeadsTo(script)[at] = [d \in {1, 2} |-> IF d = fd THEN at ELSE dest[d]]
  BY <1>1, <1>3, <1>4
<1> HIDE DEF fd
<1>7. dest' = [d \in {1, 2} |-> IF d = fd THEN at ELSE dest[d]] /\ dest' \in [{1, 2} -> Int]
  <2>1. at \in Int
    BY <1>2, <1>3
  <2> QED
    BY <1>1, <1>4, <1>5, <2>1, ZenonT(30)
<1>8. DOMAIN script = 1..Len(script) /\ Len(script) \in Nat /\ None \notin DOMAIN script
  BY <1>2, Apart
<1>9. /\ handles' \in [DOMAIN script -> {"none", "open", "closed", "aborted", "lost"}]
      /\ Open' = Open \union {at}
  BY <1>1, <1>3, <1>8, OpensOne DEF SetupInv
<1>10. /\ at \in Nat /\ at \notin Open /\ \A n \in Open : n \in Nat /\ n <= at
  BY <1>1, <1>3, <1>8, SMTT(30) DEF SetupInv, PlaceInv, Open
<1>11. Range(opened) \subseteq Open
  BY <1>1, SMTT(30) DEF SetupInv, OpenInv
<1>12. /\ opened' \in Seq(Nat) /\ IsInjective(opened')
       /\ Range(opened') = Range(opened) \union {at}
  BY <1>1, <1>10, <1>11, Added, SMTT(30) DEF SetupInv, OpenInv
<1>13. IsA(at, "out")
  BY <1>1, <1>3, SMTT(30) DEF IsA
<1>14. DestInv'
  <2>1. dest' = LeadsTo(script')[at' - 1]
    BY <1>1, <1>3, <1>6, <1>7, Zenon
  <2>2. \A d \in {1, 2} : dest'[d] \in {-1, -2} \/ IsA(dest'[d], "out")
    BY <1>7, <1>13 DEF SetupInv, DestInv
  <2> QED
    BY <1>1, <1>7, <2>1, <2>2, Zenon DEF DestInv, IsA
<1>15. PlaceInv'
  <2>1. at + 1 \in 1..(Len(script) + 1)
    BY <1>3, <1>8
  <2>2. (\A n \in Open \union {at} : n <= at + 1) /\ at + 1 \notin Open \union {at}
    BY <1>10, SMTT(30)
  <2> QED
    BY <1>1, <1>2, <1>9, <2>1, <2>2 DEF SetupInv, PlaceInv
<1>16. InputInv'
  BY <1>1 DEF SetupInv, InputInv, IsA
<1>17. Input' = Input
  BY <1>1, SMTT(30) DEF Input
<1>18. Files' \subseteq Files \union {at}
  BY <1>1, <1>5, <1>7, SMTT(30) DEF Files, Range
<1>19. OpenInv'
  <2>1. Files \subseteq Range(opened) /\ Open = Range(opened) \union Input \union Files
    BY <1>1, <1>2, Zenon DEF SetupInv, OpenInv
  <2>2. Files' \subseteq Range(opened') /\ Open' = Range(opened') \union Input' \union Files'
    BY <1>9, <1>12, <1>17, <1>18, <2>1, SMTT(30)
  <2>3. \A n \in Range(opened') : IsA(n, "out")'
    BY <1>1, <1>12, <1>13 DEF SetupInv, OpenInv, IsA
  <2> QED
    BY <1>1, <1>2, <1>12, <2>2, <2>3, SMTT(30) DEF OpenInv
<1> QED
  BY <1>14, <1>15, <1>16, <1>19 DEF SetupInv

\* A file that is not handed on is finished.
LEMMA SweepInv ==
  ASSUME SetupAssumption, SetupInv, Sweep
  PROVE  SetupInv'
<1> DEFINE f == Head(opened)
<1>1. /\ phase = "sweep" /\ opened # <<>> /\ opened' = Tail(opened)
      /\ UNCHANGED <<script, at, phase, stdin, superseded, dest>>
  BY DEF Sweep
<1>2. script \in Seq(Forms) /\ failed \in BOOLEAN
  BY DEF SetupInv, PlaceInv
<1>3. /\ opened' \in Seq(Nat) /\ IsInjective(opened')
      /\ f \in Range(opened) /\ Range(opened') = Range(opened) \ {f}
  BY <1>1, Taken DEF SetupInv, OpenInv
<1>4. f \in Open /\ IsA(f, "out") /\ Range(opened) \union Input \subseteq Open
  BY <1>1, <1>3 DEF SetupInv, OpenInv
<1>5. Input' = Input /\ Files' = Files
  BY <1>1 DEF Input, Files
<1>6. f \notin Input
  <2>1. \A n \in Input : IsA(n, "in")
    BY <1>2, Apart DEF Input, SetupInv, InputInv
  <2> QED
    BY <1>2, <1>4, <2>1, Apart
<1>7. f \in Range(dest) <=> f \in Files
  BY <1>2, <1>4, Apart DEF Files, IsA
<1>8. \A n \in Range(opened') : IsA(n, "out")'
  BY <1>1, <1>3 DEF SetupInv, OpenInv, IsA
<1>9. InputInv'
  BY <1>1 DEF SetupInv, InputInv, IsA
<1>10. CASE UNCHANGED <<handles, failed>> /\ ~failed /\ f \in Range(dest)
  <2>1. Open' = Open /\ Lost' = Lost
    BY <1>1, <1>10 DEF Open, Lost
  <2>2. PlaceInv'
    BY <1>1, <1>10, <2>1 DEF SetupInv, PlaceInv
  <2>3. DestInv'
    BY <1>1, <1>10 DEF SetupInv, DestInv, IsA
  <2>4. Open' = Range(opened') \union Input' \union Files'
    BY <1>3, <1>5, <1>7, <1>10, <2>1 DEF SetupInv, OpenInv
  <2>5. OpenInv'
    BY <1>1, <1>3, <1>5, <1>8, <1>10, <2>4 DEF OpenInv
  <2> QED
    BY <1>9, <2>2, <2>3, <2>5 DEF SetupInv
<1>11. ASSUME NEW outcome \in {"closed", "aborted", "lost"}, Closes(f, outcome),
              failed' = (failed \/ outcome = "lost"), failed \/ f \notin Range(dest)
       PROVE  SetupInv'
  <2>1. /\ handles' \in [DOMAIN script -> {"none", "open", "closed", "aborted", "lost"}]
        /\ Open' = Open \ {f} /\ Lost' = Lost \union (IF outcome = "lost" THEN {f} ELSE {})
    BY <1>1, <1>4, <1>11, ClosesOne DEF SetupInv
  <2>2. PlaceInv'
    BY <1>1, <1>2, <1>11, <2>1, SMTT(30) DEF SetupInv, PlaceInv
  <2>3. DestInv'
    BY <1>1, <1>11, Zenon DEF SetupInv, DestInv, IsA
  <2>4. Range(opened') \union Input' \subseteq Open'
    BY <1>3, <1>4, <1>5, <1>6, <2>1
  <2>5. ~failed' => Open' = Range(opened') \union Input' \union Files'
    <3>1. SUFFICES ASSUME ~failed'
                   PROVE  Open' = Range(opened') \union Input' \union Files'
      OBVIOUS
    <3>2. ~failed /\ f \notin Files
      BY <1>7, <1>11, <3>1, Zenon
    <3>3. Open = Range(opened) \union Input \union Files
      BY <3>2 DEF SetupInv, OpenInv
    <3> QED
      BY <1>3, <1>5, <1>6, <2>1, <3>2, <3>3
  <2>6. failed' /\ Lost' = {} => Open' \subseteq Range(opened') \union Input'
    <3>1. SUFFICES ASSUME failed', Lost' = {}
                   PROVE  Open' \subseteq Range(opened') \union Input'
      OBVIOUS
    <3>2. outcome # "lost" /\ Lost = {}
      BY <2>1, <3>1
    <3>3. failed
      BY <1>11, <3>1, <3>2, Zenon
    <3>4. Open \subseteq Range(opened) \union Input
      BY <1>1, <3>2, <3>3 DEF SetupInv, OpenInv
    <3> QED
      BY <1>3, <1>5, <2>1, <3>4
  <2>7. OpenInv'
    BY <1>1, <1>3, <1>8, <2>4, <2>5, <2>6 DEF OpenInv
  <2> QED
    BY <1>9, <2>2, <2>3, <2>7 DEF SetupInv
<1> QED
  BY <1>10, <1>11 DEF Sweep

\* What is handed on stays open; after an error the input is closed as well.
LEMMA ReturnInv ==
  ASSUME SetupAssumption, SetupInv, Return
  PROVE  SetupInv'
<1>1. /\ phase = "sweep" /\ opened = <<>> /\ phase' = "done"
      /\ dest' = IF failed THEN Capture ELSE dest
      /\ UNCHANGED <<script, at, superseded, opened, failed>>
  BY DEF Return
<1>2. script \in Seq(Forms) /\ failed \in BOOLEAN /\ superseded = None /\ Range(opened) = {}
  BY <1>1 DEF SetupInv, PlaceInv, InputInv, Range
<1>3. DOMAIN script = 1..Len(script) /\ None \notin DOMAIN script
  BY <1>2, Apart
<1>4. DestInv'
  <2>1. Capture \in [{1, 2} -> Int] /\ \A d \in {1, 2} : Capture[d] \in {-1, -2}
    BY DEF Capture
  <2> QED
    BY <1>1, <1>2, <2>1 DEF SetupInv, DestInv, IsA
<1>5. /\ opened' \in Seq(Nat) /\ IsInjective(opened') /\ opened' = <<>> /\ Range(opened') = {}
  BY <1>1, <1>2 DEF SetupInv, OpenInv
<1>6. CASE UNCHANGED <<handles, stdin>> /\ (~failed \/ stdin = None)
  <2>1. Open' = Open /\ Lost' = Lost /\ Input' = Input
    BY <1>1, <1>6 DEF Open, Lost, Input
  <2>2. PlaceInv'
    BY <1>1, <1>6, SMTT(30) DEF SetupInv, PlaceInv, Open
  <2>3. InputInv'
    BY <1>1, <1>2, <1>6 DEF SetupInv, InputInv, IsA
  <2>4. ~failed => Open' = Range(opened') \union Input' \union Files'
    <3>1. ~failed => Files' = Files
      BY <1>1 DEF Files
    <3> QED
      BY <1>2, <1>5, <2>1, <3>1 DEF SetupInv, OpenInv
  <2>5. failed /\ Lost' = {} => Open' = {}
    <3>1. failed => Input = {}
      BY <1>2, <1>3, <1>6 DEF Input
    <3> QED
      BY <1>1, <1>2, <2>1, <3>1 DEF SetupInv, OpenInv
  <2>6. OpenInv'
    BY <1>1, <1>5, <2>4, <2>5 DEF OpenInv
  <2> QED
    BY <1>4, <2>2, <2>3, <2>6 DEF SetupInv
<1>7. ASSUME failed, stdin # None, NEW outcome \in {"closed", "aborted", "lost"},
             Closes(stdin, outcome), stdin' = None
      PROVE  SetupInv'
  <2>1. stdin \in Input /\ Input = {stdin}
    BY <1>2, <1>3, <1>7 DEF Input, SetupInv, InputInv, IsA
  <2>2. stdin \in Open
    BY <1>1, <2>1 DEF SetupInv, OpenInv
  <2>3. /\ handles' \in [DOMAIN script -> {"none", "open", "closed", "aborted", "lost"}]
        /\ Open' = Open \ {stdin} /\ Lost' = Lost \union (IF outcome = "lost" THEN {stdin} ELSE {})
    BY <1>1, <1>7, <2>2, ClosesOne DEF SetupInv
  <2>4. PlaceInv'
    BY <1>1, <1>7, <2>3 DEF SetupInv, PlaceInv
  <2>5. InputInv'
    BY <1>1, <1>2, <1>7, SMTT(30) DEF InputInv
  <2>6. Lost' = {} => Open' = {}
    BY <1>1, <1>2, <1>7, <2>1, <2>3 DEF SetupInv, OpenInv
  <2>7. OpenInv'
    BY <1>1, <1>5, <1>7, <2>6 DEF OpenInv
  <2> QED
    BY <1>4, <2>4, <2>5, <2>7 DEF SetupInv
<1> QED
  BY <1>6, <1>7 DEF Return

\* Every step keeps the invariant.
LEMMA SetupSteps ==
  ASSUME SetupAssumption, SetupInv, [SetupNext]_setupVars
  PROVE  SetupInv'
<1>1. CASE DeadlinePasses \/ SetupFinished \/ UNCHANGED setupVars
  <2>1. UNCHANGED <<script, at, phase, stdin, superseded, dest, opened, handles, failed>>
    BY <1>1, SMTT(30) DEF DeadlinePasses, SetupFinished, setupVars
  <2>2. Open' = Open /\ Lost' = Lost /\ Files' = Files /\ Input' = Input
    BY <2>1 DEF Open, Lost, Files, Input
  <2> QED
    BY <2>1, <2>2, Zenon DEF SetupInv, PlaceInv, InputInv, DestInv, OpenInv, IsA
<1> QED
  BY <1>1, LeaveInv, DuplicateInv, OpenInputInv, CloseSupersededInv, OpenOutputInv, SweepInv, ReturnInv, Zenon DEF SetupNext

-----------------------------------------------------------------------------
\* Whatever the redirects of a command are, and wherever an open, a close or
\* the deadline cuts the preparation short: a command that runs has its
\* descriptors where the redirects lead them and exactly those files open, and
\* one that does not run has none open, unless the backend lost one.
THEOREM PreparedHolds ==
  ASSUME SetupAssumption
  PROVE  SetupSpec => []RedirectsPrepared
<1>1. SetupInit => SetupInv
  BY SetupStarts
<1>2. SetupInv /\ [SetupNext]_setupVars => SetupInv'
  BY SetupSteps
<1>3. ASSUME SetupInv
      PROVE  RedirectsPrepared
  <2>2. GivenIsOpen
    <3>1. SUFFICES ASSUME phase = "done", ~failed
                   PROVE  /\ dest = LeadsTo(script)[Len(script)]
                          /\ Open = (Range(dest) \union {stdin}) \ (Range(Capture) \union {None})
      BY DEF GivenIsOpen, Open
    <3>2. script \in Seq(Forms) /\ superseded = None /\ at = Len(script) + 1
      BY <1>3, <3>1 DEF SetupInv, PlaceInv, InputInv
    <3>3. DOMAIN script = 1..Len(script) /\ Len(script) \in Nat /\ None \notin DOMAIN script
      BY <3>2, Apart
    <3>4. at - 1 = Len(script)
      BY <3>2, <3>3
    <3>5. dest = LeadsTo(script)[Len(script)]
      BY <1>3, <3>1, <3>4 DEF SetupInv, DestInv
    <3>6. Open = Input \union Files
      <4>1. Range(<<>>) = {}
        BY DEF Range
      <4> QED
        BY <1>3, <3>1, <4>1 DEF SetupInv, OpenInv
    <3>7. Range(Capture) = {-1, -2}
      BY DEF Range, Capture
    <3>8. Range(dest) \subseteq DOMAIN script \union {-1, -2}
      BY <1>3, <3>3 DEF SetupInv, DestInv, Range, IsA
    <3>9. stdin \in DOMAIN script \union {None}
      BY <1>3, <3>3 DEF SetupInv, InputInv, IsA
    <3>10. -1 \notin DOMAIN script /\ -2 \notin DOMAIN script
      BY <3>3
    <3>11. None \notin Nat
      BY DEF SetupAssumption
    <3>12. Range(dest) \subseteq Int
      BY <1>3, SMTT(30) DEF SetupInv, DestInv, Range
    <3> QED
      BY <3>2, <3>3, <3>5, <3>6, <3>7, <3>8, <3>9, <3>10, <3>11, <3>12, SMTT(30) DEF Input, Files
  <2>3. FailureFinishes
    BY <1>3 DEF SetupInv, OpenInv, Open, Lost, FailureFinishes
  <2> QED
    BY <2>2, <2>3 DEF RedirectsPrepared
<1> QED
  BY <1>1, <1>2, <1>3, PTL DEF SetupSpec
=============================================================================
