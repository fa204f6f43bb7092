----------------------- MODULE HandleAdmissionProofs ------------------------
(***************************************************************************)
(* Proofs about HandleLifecycle: both open_files counters implement the    *)
(* abstract ceiling of Admission, hence count the admitted handles, cover  *)
(* the handles of the backend and never leak.                              *)
(***************************************************************************)
EXTENDS HandleOwnership, FiniteSetTheorems

-----------------------------------------------------------------------------
(* What a step does to admissions: nothing, or one of six things to one    *)
(* task.                                                                   *)

IsOpen(t) == backend[t] = "open"

KeepsPool(t) == HoldsPool(t)' <=> HoldsPool(t)
KeepsExec(t) == HoldsExec(t)' <=> HoldsExec(t)
KeepsOpen(t) == IsOpen(t)' <=> IsOpen(t)

Others(t) == \A u \in Tasks : u # t => KeepsPool(u) /\ KeepsExec(u) /\ KeepsOpen(u)

Quiet ==
    /\ UNCHANGED <<poolOpen, execOpen>>
    /\ \A u \in Tasks : KeepsPool(u) /\ KeepsExec(u) /\ KeepsOpen(u)

PoolIn(t) ==
    /\ AcquirePool /\ UNCHANGED execOpen
    /\ Others(t) /\ KeepsExec(t) /\ KeepsOpen(t) /\ ~HoldsPool(t) /\ HoldsPool(t)'

PoolOut(t) ==
    /\ ReleasePool /\ UNCHANGED execOpen
    /\ Others(t) /\ KeepsExec(t) /\ KeepsOpen(t) /\ HoldsPool(t) /\ ~HoldsPool(t)'
    /\ ~IsOpen(t)

ExecIn(t) ==
    /\ ExecAdmits(Exec(t)) /\ AcquireExec(Exec(t)) /\ UNCHANGED poolOpen
    /\ Others(t) /\ KeepsPool(t) /\ KeepsOpen(t) /\ ~HoldsExec(t) /\ HoldsExec(t)'

ExecOut(t) ==
    /\ ReleaseExec(Exec(t)) /\ UNCHANGED poolOpen
    /\ Others(t) /\ KeepsPool(t) /\ KeepsOpen(t) /\ HoldsExec(t) /\ ~HoldsExec(t)'
    /\ ~IsOpen(t)

Opens(t) ==
    /\ UNCHANGED <<poolOpen, execOpen>>
    /\ Others(t) /\ KeepsPool(t) /\ KeepsExec(t)
    /\ HoldsPool(t) /\ HoldsExec(t) /\ ~IsOpen(t) /\ IsOpen(t)'

Frees(t) ==
    /\ UNCHANGED <<poolOpen, execOpen>>
    /\ Others(t) /\ KeepsPool(t) /\ KeepsExec(t) /\ IsOpen(t) /\ ~IsOpen(t)'

OneTask(t) ==
    PoolIn(t) \/ PoolOut(t) \/ ExecIn(t) \/ ExecOut(t) \/ Opens(t) \/ Frees(t)

\* The effect of a close or abort call, from what it does to its own step.
LEMMA CloserFrame ==
    ASSUME Shape, Owned, NEW c \in Closers,
           \A d \in Closers : d # c => closer'[d] = closer[d],
           UNCHANGED <<opener, files, target, cleanup>>
    PROVE  /\ \A u \in Tasks : u # target[c] => KeepsPool(u) /\ KeepsExec(u)
           /\ CloserHas(c, target[c]) =>
                /\ HoldsPool(target[c]) <=>
                     closer[c] \in {"removed", "commit", "abort", "release"}
                /\ HoldsPool(target[c])' <=>
                     closer'[c] \in {"removed", "commit", "abort", "release"}
                /\ HoldsExec(target[c])
                /\ HoldsExec(target[c])' <=>
                     closer'[c] \in {"removed", "commit", "abort", "release", "releaseExec"}
                /\ IsOpen(target[c]) <=> closer[c] \in {"removed", "commit", "abort"}
<1>1. ASSUME NEW u \in Tasks, u # target[c] PROVE KeepsPool(u) /\ KeepsExec(u)
  BY <1>1 DEF KeepsPool, KeepsExec, HoldsPool, HoldsExec, InRegistry
<1>2. ASSUME CloserHas(c, target[c])
      PROVE  /\ target[c] \in Tasks
             /\ opener[target[c]] = "delivered"
             /\ ~InRegistry(target[c])
             /\ ~CleanupHas(target[c])
             /\ \A d \in Closers : d # c => ~CloserHas(d, target[c])
  <2>1. target[c] \in Tasks /\ closer[c] # "idle"
    BY <1>2 DEF Shape, CloserHas
  <2> QED
    BY <1>2, <2>1 DEF Owned, Exclusive
<1>3. ASSUME CloserHas(c, target[c])
      PROVE  /\ HoldsPool(target[c]) <=>
                  closer[c] \in {"removed", "commit", "abort", "release"}
             /\ HoldsPool(target[c])' <=>
                  closer'[c] \in {"removed", "commit", "abort", "release"}
  BY <1>2, <1>3 DEF HoldsPool, CloserHas, CleanupHas, InRegistry
<1>4. ASSUME CloserHas(c, target[c])
      PROVE  /\ HoldsExec(target[c])
             /\ HoldsExec(target[c])' <=>
                  closer'[c] \in {"removed", "commit", "abort", "release", "releaseExec"}
  BY <1>2, <1>4 DEF HoldsExec, CloserHas, CleanupHas, InRegistry
<1>5. ASSUME CloserHas(c, target[c])
      PROVE  IsOpen(target[c]) <=> closer[c] \in {"removed", "commit", "abort"}
  BY <1>2, <1>5 DEF IsOpen, CloserHas, CleanupHas, Owned, BackendAgrees
<1> QED
  BY <1>1, <1>3, <1>4, <1>5

\* The effect of an open call that is not in the registry, from its own step.
LEMMA OpenerFrame ==
    ASSUME Shape, Owned, NEW t \in Tasks,
           opener[t] \notin {"inserted", "withdraw", "handoff", "delivered", "failed"},
           \A u \in Tasks : u # t => opener'[u] = opener[u],
           UNCHANGED <<files, closer, target, cleanup>>
    PROVE  /\ \A u \in Tasks : u # t => KeepsPool(u) /\ KeepsExec(u)
           /\ HoldsPool(t) <=> opener[t] \in
                {"pooled", "refused", "admitted", "opened", "abort", "release"}
           /\ HoldsPool(t)' <=> opener'[t] \in
                {"pooled", "refused", "admitted", "opened", "abort", "release"}
           /\ HoldsExec(t) <=> opener[t] \in
                {"admitted", "opened", "abort", "release", "releaseExec"}
           /\ HoldsExec(t)' <=> opener'[t] \in
                {"admitted", "opened", "abort", "release", "releaseExec"}
           /\ IsOpen(t) <=> opener[t] \in {"opened", "abort"}
<1>1. ASSUME NEW u \in Tasks, u # t PROVE KeepsPool(u) /\ KeepsExec(u)
  BY <1>1 DEF KeepsPool, KeepsExec, HoldsPool, HoldsExec, InRegistry
<1>2. /\ ~InRegistry(t)
      /\ ~CleanupHas(t)
      /\ \A c \in Closers : target[c] = t => closer[c] = "idle"
  BY DEF Owned, Exclusive
<1>3. /\ HoldsPool(t) <=> opener[t] \in
           {"pooled", "refused", "admitted", "opened", "abort", "release"}
      /\ HoldsPool(t)' <=> opener'[t] \in
           {"pooled", "refused", "admitted", "opened", "abort", "release"}
  BY <1>2 DEF HoldsPool, CleanupHas, InRegistry
<1>4. /\ HoldsExec(t) <=> opener[t] \in
           {"admitted", "opened", "abort", "release", "releaseExec"}
      /\ HoldsExec(t)' <=> opener'[t] \in
           {"admitted", "opened", "abort", "release", "releaseExec"}
  BY <1>2 DEF HoldsExec, CleanupHas, InRegistry
<1>5. IsOpen(t) <=> opener[t] \in {"opened", "abort"}
  BY <1>2 DEF IsOpen, CleanupHas, Owned, BackendAgrees
<1> QED
  BY <1>1, <1>3, <1>4, <1>5

LEMMA EffectStep ==
    Shape /\ Owned /\ [Next]_vars => Quiet \/ \E t \in Tasks : OneTask(t)
<1> SUFFICES ASSUME Shape, Owned, [Next]_vars
             PROVE  Quiet \/ \E t \in Tasks : OneTask(t)
  OBVIOUS
<1> USE OwnerAssumption DEF Shape, Owned, Exclusive, OpenerHas, CloserHas, CleanupHas,
    InRegistry, HoldsPool, HoldsExec, KeepsPool, KeepsExec, KeepsOpen, Others, IsOpen,
    poolVars, openVars, closeVars, cancelVars
<1>1. ASSUME NEW r \in Registries, Build(r) PROVE Quiet
  BY <1>1 DEF Build, Quiet
<1>2. ASSUME NEW r \in Registries, DropRegistry(r) PROVE Quiet
  BY <1>2 DEF DropRegistry, Orphan, Quiet, Filed
<1>3. ASSUME NEW t \in Tasks, OpenCall(t) PROVE Quiet
  BY <1>3 DEF OpenCall, Move, Quiet
<1>4. ASSUME NEW t \in Tasks, OpenPermit(t) PROVE Quiet
  BY <1>4 DEF OpenPermit, Move, Quiet
<1>5. ASSUME NEW t \in Tasks, WorkerCheck(t) PROVE Quiet
  BY <1>5 DEF WorkerCheck, Move, Quiet
<1>6. ASSUME NEW t \in Tasks, ReservePool(t) PROVE Quiet \/ PoolIn(t)
  <2>1. opener[t] = "reserve" /\ opener'[t] \in {"pooled", "failed"}
    BY <1>6 DEF ReservePool, Move
  <2>2. /\ \A u \in Tasks : u # t => opener'[u] = opener[u]
        /\ UNCHANGED <<files, closer, target, cleanup>>
    BY <1>6 DEF ReservePool, Move
  <2> HIDE DEF Shape, Owned, Exclusive, HoldsPool, HoldsExec, CloserHas, CleanupHas, InRegistry
  <2>3. UNCHANGED <<backend, execOpen>>
    BY <1>6 DEF ReservePool
  <2>4. CASE opener'[t] = "pooled"
    <3>1. AcquirePool
      BY <1>6, <2>1, <2>4 DEF ReservePool, Move, Shape
    <3> QED
      BY <2>1, <2>2, <2>3, <2>4, <3>1, OpenerFrame DEF PoolIn
  <2>5. CASE opener'[t] = "failed"
    <3>1. UNCHANGED poolOpen
      BY <1>6, <2>1, <2>5 DEF ReservePool, Move, Shape
    <3> QED
      BY <2>1, <2>2, <2>3, <2>5, <3>1, OpenerFrame DEF Quiet
  <2> QED
    BY <2>1, <2>4, <2>5
<1>7. ASSUME NEW t \in Tasks, ReserveExec(t) PROVE Quiet \/ ExecIn(t)
  <2>1. opener[t] = "pooled" /\ opener'[t] \in {"admitted", "refused"}
    BY <1>7 DEF ReserveExec, Move
  <2>2. /\ \A u \in Tasks : u # t => opener'[u] = opener[u]
        /\ UNCHANGED <<files, closer, target, cleanup>>
    BY <1>7 DEF ReserveExec, Move
  <2> HIDE DEF Shape, Owned, Exclusive, HoldsPool, HoldsExec, CloserHas, CleanupHas, InRegistry
  <2>3. UNCHANGED <<backend, poolOpen>>
    BY <1>7 DEF ReserveExec
  <2>4. CASE opener'[t] = "admitted"
    <3>1. ExecAdmits(Exec(t)) /\ AcquireExec(Exec(t))
      BY <1>7, <2>1, <2>4 DEF ReserveExec, Move, Shape
    <3> QED
      BY <2>1, <2>2, <2>3, <2>4, <3>1, OpenerFrame DEF ExecIn
  <2>5. CASE opener'[t] = "refused"
    <3>1. UNCHANGED execOpen
      BY <1>7, <2>1, <2>5 DEF ReserveExec, Move, Shape
    <3> QED
      BY <2>1, <2>2, <2>3, <2>5, <3>1, OpenerFrame DEF Quiet
  <2> QED
    BY <2>1, <2>4, <2>5
<1>8. ASSUME NEW t \in Tasks, Unreserve(t) PROVE PoolOut(t)
  <2>1. opener[t] = "refused" /\ opener'[t] = "failed"
    BY <1>8 DEF Unreserve, Move
  <2>2. /\ \A u \in Tasks : u # t => opener'[u] = opener[u]
        /\ UNCHANGED <<files, closer, target, cleanup>>
    BY <1>8 DEF Unreserve, Move
  <2> HIDE DEF Shape, Owned, Exclusive, HoldsPool, HoldsExec, CloserHas, CleanupHas, InRegistry
  <2> QED
    BY <1>8, <2>1, <2>2, OpenerFrame DEF Unreserve, Move, PoolOut
<1>9. ASSUME NEW t \in Tasks, BackendOpen(t) PROVE Quiet \/ Opens(t)
  <2>1. opener[t] = "admitted" /\ opener'[t] \in {"opened", "release"}
    BY <1>9 DEF BackendOpen, Move
  <2>2. /\ \A u \in Tasks : u # t => opener'[u] = opener[u]
        /\ UNCHANGED <<files, closer, target, cleanup>>
    BY <1>9 DEF BackendOpen, Move
  <2> HIDE DEF Shape, Owned, Exclusive, HoldsPool, HoldsExec, CloserHas, CleanupHas, InRegistry
  <2> QED
    BY <1>9, <2>1, <2>2, OpenerFrame DEF BackendOpen, Move, Quiet, Opens, Shape
<1>10. ASSUME NEW t \in Tasks, Insert(t) PROVE Quiet
  BY <1>10 DEF Insert, Move, Quiet
<1>11. ASSUME NEW t \in Tasks, CheckInserted(t) PROVE Quiet
  BY <1>11 DEF CheckInserted, Move, Quiet
<1>12. ASSUME NEW t \in Tasks, Withdraw(t) PROVE Quiet
  BY <1>12 DEF Withdraw, Move, Quiet
<1>13. ASSUME NEW t \in Tasks, OpenAbort(t) PROVE Frees(t)
  <2>1. opener[t] = "abort" /\ opener'[t] = "release"
    BY <1>13 DEF OpenAbort, Move
  <2>2. /\ \A u \in Tasks : u # t => opener'[u] = opener[u]
        /\ UNCHANGED <<files, closer, target, cleanup>>
    BY <1>13 DEF OpenAbort, Move
  <2> HIDE DEF Shape, Owned, Exclusive, HoldsPool, HoldsExec, CloserHas, CleanupHas, InRegistry
  <2> QED
    BY SMTT(30), <1>13, <2>1, <2>2, OpenerFrame DEF OpenAbort, Move, Consume, Frees, Shape
<1>14. ASSUME NEW t \in Tasks, OpenReleasePool(t) PROVE PoolOut(t)
  <2>1. opener[t] = "release" /\ opener'[t] = "releaseExec"
    BY <1>14 DEF OpenReleasePool, Move
  <2>2. /\ \A u \in Tasks : u # t => opener'[u] = opener[u]
        /\ UNCHANGED <<files, closer, target, cleanup>>
    BY <1>14 DEF OpenReleasePool, Move
  <2> HIDE DEF Shape, Owned, Exclusive, HoldsPool, HoldsExec, CloserHas, CleanupHas, InRegistry
  <2> QED
    BY <1>14, <2>1, <2>2, OpenerFrame DEF OpenReleasePool, Move, PoolOut
<1>15. ASSUME NEW t \in Tasks, OpenReleaseExec(t) PROVE ExecOut(t)
  <2>1. opener[t] = "releaseExec" /\ opener'[t] = "failed"
    BY <1>15 DEF OpenReleaseExec, Move
  <2>2. /\ \A u \in Tasks : u # t => opener'[u] = opener[u]
        /\ UNCHANGED <<files, closer, target, cleanup>>
    BY <1>15 DEF OpenReleaseExec, Move
  <2> HIDE DEF Shape, Owned, Exclusive, HoldsPool, HoldsExec, CloserHas, CleanupHas, InRegistry
  <2> QED
    BY <1>15, <2>1, <2>2, OpenerFrame DEF OpenReleaseExec, Move, ExecOut
<1>16. ASSUME NEW t \in Tasks, Deliver(t) PROVE Quiet
  BY <1>16 DEF Deliver, Move, Quiet
<1>17. ASSUME NEW t \in Tasks, DropOpen(t) PROVE Quiet
  BY <1>17 DEF DropOpen, Move, Quiet
<1>18. ASSUME NEW t \in Tasks, DropHandoff(t) PROVE Quiet
  BY <1>18 DEF DropHandoff, Move, Abandon, Orphan, Quiet, Filed
<1>19. ASSUME NEW t \in Tasks, DropOwned(t) PROVE Quiet
  BY <1>19 DEF DropOwned, Abandon, Orphan, Quiet, Filed
<1>20. ASSUME NEW t \in Tasks, CleanupHandle(t) PROVE Quiet
  BY <1>20 DEF CleanupHandle, Clean, Quiet
<1>21. ASSUME NEW t \in Tasks, CleanupReceive(t) PROVE Quiet
  BY <1>21 DEF CleanupReceive, Clean, Quiet
<1>22. ASSUME NEW t \in Tasks, CleanupAbort(t) PROVE Frees(t)
  BY <1>22 DEF CleanupAbort, Clean, Consume, Frees, BackendAgrees
<1>23. ASSUME NEW t \in Tasks, CleanupReleasePool(t) PROVE PoolOut(t)
  BY <1>23 DEF CleanupReleasePool, Clean, ReleasePool, PoolOut, BackendAgrees
<1>24. ASSUME NEW t \in Tasks, CleanupReleaseExec(t) PROVE ExecOut(t)
  BY SMTT(30), <1>24 DEF CleanupReleaseExec, Clean, ReleaseExec, ExecOut, BackendAgrees
<1>25. ASSUME NEW c \in Closers, NEW t \in Tasks, NEW abort \in BOOLEAN, FinishCall(c, t, abort)
       PROVE  Quiet
  BY <1>25 DEF FinishCall, Step, Quiet
<1>26. ASSUME NEW c \in Closers, FinishPermit(c) PROVE Quiet
  BY <1>26 DEF FinishPermit, Step, Quiet
<1>27. ASSUME NEW c \in Closers, DropFinish(c) PROVE Quiet
  BY <1>27 DEF DropFinish, Step, Quiet
<1>28. ASSUME NEW c \in Closers, FinishRemove(c) PROVE Quiet
  BY <1>28 DEF FinishRemove, Step, Quiet
<1>29. ASSUME NEW c \in Closers, FinishCheck(c) PROVE Quiet
  BY <1>29 DEF FinishCheck, Step, Quiet
<1>30. ASSUME NEW c \in Closers, FinishBackend(c) PROVE Frees(target[c])
  <2>1. closer[c] \in {"commit", "abort"} /\ closer'[c] = "release" /\ target[c] \in Tasks
    BY <1>30 DEF FinishBackend, Step
  <2>2. /\ \A d \in Closers : d # c => closer'[d] = closer[d]
        /\ UNCHANGED <<opener, files, target, cleanup, poolOpen, execOpen>>
    BY <1>30 DEF FinishBackend, Step
  <2>3. backend'[target[c]] # "open" /\ \A u \in Tasks : u # target[c] => backend'[u] = backend[u]
    BY <1>30 DEF FinishBackend, Consume
  <2>4. CloserHas(c, target[c])
    BY <2>1
  <2> HIDE DEF Shape, Owned, Exclusive, HoldsPool, HoldsExec, CloserHas, CleanupHas, InRegistry
  <2> QED
    BY <2>1, <2>2, <2>3, <2>4, CloserFrame DEF Frees
<1>31. ASSUME NEW c \in Closers, FinishReleasePool(c) PROVE PoolOut(target[c])
  <2>1. closer[c] = "release" /\ closer'[c] = "releaseExec" /\ target[c] \in Tasks
    BY <1>31 DEF FinishReleasePool, Step
  <2>2. /\ \A d \in Closers : d # c => closer'[d] = closer[d]
        /\ UNCHANGED <<opener, files, target, cleanup, execOpen>>
    BY <1>31 DEF FinishReleasePool, Step
  <2>3. ReleasePool /\ UNCHANGED backend
    BY <1>31 DEF FinishReleasePool
  <2>4. CloserHas(c, target[c])
    BY <2>1
  <2> HIDE DEF Shape, Owned, Exclusive, HoldsPool, HoldsExec, CloserHas, CleanupHas, InRegistry
  <2> QED
    BY <2>1, <2>2, <2>3, <2>4, CloserFrame DEF PoolOut
<1>32. ASSUME NEW c \in Closers, FinishReleaseExec(c) PROVE ExecOut(target[c])
  <2>1. closer[c] = "releaseExec" /\ closer'[c] = "idle" /\ target[c] \in Tasks
    BY <1>32 DEF FinishReleaseExec, Step
  <2>2. /\ \A d \in Closers : d # c => closer'[d] = closer[d]
        /\ UNCHANGED <<opener, files, target, cleanup, poolOpen>>
    BY <1>32 DEF FinishReleaseExec, Step
  <2>3. ReleaseExec(Exec(target[c])) /\ UNCHANGED backend
    BY <1>32 DEF FinishReleaseExec
  <2>4. CloserHas(c, target[c])
    BY <2>1
  <2> HIDE DEF Shape, Owned, Exclusive, HoldsPool, HoldsExec, CloserHas, CleanupHas, InRegistry
  <2> QED
    BY <2>1, <2>2, <2>3, <2>4, CloserFrame DEF ExecOut
<1>33. ASSUME NEW e \in Execs, Expire(e) PROVE Quiet
  BY <1>33 DEF Expire, Quiet
<1>34. ASSUME NEW e \in Execs, CancelFlag(e) PROVE Quiet
  BY <1>34 DEF CancelFlag, Quiet
<1>35. ASSUME NEW e \in Execs, CancelTake(e) PROVE Quiet
  BY <1>35 DEF CancelTake, Quiet
<1>36. ASSUME NEW e \in Execs, NEW r \in Registries, AbandonAll(e, r) PROVE Quiet
  BY <1>36 DEF AbandonAll, Orphan, Quiet, Filed
<1>37. ASSUME NEW e \in Execs, CancelReturn(e) PROVE Quiet
  BY <1>37 DEF CancelReturn, Quiet
<1>38. CASE UNCHANGED vars
  BY <1>38 DEF vars, Quiet
<1>39. \A c \in Closers : target[c] \in Tasks
  OBVIOUS
<1> HIDE DEF Shape, Owned, Exclusive, HoldsPool, HoldsExec, KeepsPool, KeepsExec, KeepsOpen,
    Others, InRegistry, IsOpen, CloserHas, CleanupHas, OpenerHas
<1> DEFINE Goal == Quiet \/ \E t \in Tasks : OneTask(t)
<1>41. ASSUME NEW c \in Closers, CloserRuns(c) PROVE Goal
  BY <1>28, <1>29, <1>30, <1>31, <1>32, <1>39, <1>41 DEF CloserRuns, OneTask
<1>42. ASSUME NEW t \in Tasks, OpenerRuns(t) PROVE Goal
  BY <1>5, <1>6, <1>7, <1>8, <1>9, <1>10, <1>11, <1>12, <1>13, <1>14, <1>15, <1>18, <1>42
     DEF OpenerRuns, OneTask
<1>43. ASSUME NEW t \in Tasks, CleanupRuns(t) PROVE Goal
  BY <1>20, <1>21, <1>22, <1>23, <1>24, <1>43 DEF CleanupRuns, OneTask
<1>44. ASSUME NEW e \in Execs, CancellerRuns(e) PROVE Goal
  BY <1>35, <1>36, <1>37, <1>44 DEF CancellerRuns
<1> QED
  BY <1>1, <1>2, <1>3, <1>4, <1>16, <1>17, <1>19, <1>25, <1>26, <1>27, <1>33, <1>34, <1>38,
     <1>41, <1>42, <1>43, <1>44 DEF Next

-----------------------------------------------------------------------------
(* Every step is a step of the abstract ceiling of the pools, and of the   *)
(* abstract ceiling of each execution.                                     *)

LEMMA PoolStep == Shape /\ Owned /\ [Next]_vars => [PoolAdmission!Next]_(PoolAdmission!vars)
<1> SUFFICES ASSUME Shape, Owned, [Next]_vars
             PROVE  UNCHANGED <<poolOpen, PoolHolders, Live(Tasks)>> \/ PoolAdmission!Next
  BY DEF PoolAdmission!vars
<1> USE DEF PoolHolders, Live, IsOpen, Others, KeepsPool, KeepsOpen
<1>1. ASSUME Quiet PROVE UNCHANGED <<poolOpen, PoolHolders, Live(Tasks)>>
  BY <1>1 DEF Quiet
<1>2. ASSUME NEW t \in Tasks, PoolIn(t) PROVE PoolAdmission!Admit(t)
  BY <1>2 DEF PoolIn, PoolAdmission!Admit, AcquirePool
<1>3. ASSUME NEW t \in Tasks, PoolOut(t) PROVE PoolAdmission!Retire(t)
  BY <1>3 DEF PoolOut, PoolAdmission!Retire, ReleasePool
<1>4. ASSUME NEW t \in Tasks, ExecIn(t) \/ ExecOut(t)
      PROVE  UNCHANGED <<poolOpen, PoolHolders, Live(Tasks)>>
  BY <1>4 DEF ExecIn, ExecOut
<1>5. ASSUME NEW t \in Tasks, Opens(t) PROVE PoolAdmission!Open(t)
  BY <1>5 DEF Opens, PoolAdmission!Open
<1>6. ASSUME NEW t \in Tasks, Frees(t) PROVE PoolAdmission!Close(t)
  BY <1>6 DEF Frees, PoolAdmission!Close
<1> HIDE DEF PoolHolders, Live
<1> QED
  BY <1>1, <1>2, <1>3, <1>4, <1>5, <1>6, EffectStep DEF OneTask, PoolAdmission!Next

LEMMA ExecStep ==
    ASSUME Shape, Owned, [Next]_vars, NEW x \in Execs
    PROVE  [ExecAdmission(x)!Next]_(ExecAdmission(x)!vars)
<1> DEFINE Same == UNCHANGED <<execOpen[x], ExecHolders(x), Live(TasksOf(x))>>
<1> SUFFICES Same \/ ExecAdmission(x)!Next
  BY DEF ExecAdmission!vars
<1> USE DEF ExecHolders, TasksOf, Live, IsOpen, Others, KeepsExec, KeepsOpen
<1>1. ASSUME Quiet PROVE Same
  BY <1>1 DEF Quiet
<1>2. ASSUME NEW t \in Tasks, PoolIn(t) \/ PoolOut(t) PROVE Same
  BY <1>2 DEF PoolIn, PoolOut
<1>3. ASSUME NEW t \in Tasks, OneTask(t), Exec(t) # x PROVE Same
  <2>1. execOpen'[x] = execOpen[x] /\ Others(t)
    BY <1>3 DEF Shape, OneTask, PoolIn, PoolOut, ExecIn, ExecOut, Opens, Frees, AcquireExec,
       ReleaseExec
  <2> QED
    BY <1>3, <2>1
<1>4. ASSUME NEW t \in Tasks, ExecIn(t), Exec(t) = x PROVE ExecAdmission(x)!Admit(t)
  <2>1. execOpen[x] < MaxOpenFiles /\ execOpen'[x] = execOpen[x] + 1
    BY <1>4 DEF ExecIn, ExecAdmits, AcquireExec
  <2> QED
    BY <1>4, <2>1 DEF ExecIn, ExecAdmission!Admit
<1>5. ASSUME NEW t \in Tasks, ExecOut(t), Exec(t) = x PROVE ExecAdmission(x)!Retire(t)
  <2>1. execOpen'[x] = execOpen[x] - 1
    BY <1>5 DEF ExecOut, ReleaseExec
  <2> QED
    BY <1>5, <2>1 DEF ExecOut, ExecAdmission!Retire
<1>6. ASSUME NEW t \in Tasks, Opens(t), Exec(t) = x PROVE ExecAdmission(x)!Open(t)
  BY SMTT(30), <1>6 DEF Opens, ExecAdmission!Open
<1>7. ASSUME NEW t \in Tasks, Frees(t), Exec(t) = x PROVE ExecAdmission(x)!Close(t)
  <2>1. HoldsExec(t)
    BY <1>7 DEF Frees, Owned, BackendAgrees, HoldsExec
  <2> QED
    BY <1>7, <2>1 DEF Frees, ExecAdmission!Close
<1>8. \A t \in Tasks : Exec(t) = x => t \in TasksOf(x)
  OBVIOUS
<1> HIDE DEF ExecHolders, Live, TasksOf, Others, Same
<1> QED
  BY <1>1, <1>2, <1>3, <1>4, <1>5, <1>6, <1>7, <1>8, EffectStep DEF OneTask, ExecAdmission!Next

-----------------------------------------------------------------------------
(* The counters count the admissions.                                      *)

Counted ==
    /\ poolOpen = Cardinality(PoolHolders)
    /\ poolOpen <= OpenFiles
    /\ \A e \in Execs : /\ execOpen[e] = Cardinality(ExecHolders(e))
                        /\ execOpen[e] <= MaxOpenFiles

LEMMA FiniteHolders ==
    /\ IsFiniteSet(PoolHolders)
    /\ \A e \in Execs : IsFiniteSet(ExecHolders(e))
<1>1. PoolHolders \in SUBSET Tasks /\ \A e \in Execs : ExecHolders(e) \in SUBSET Tasks
  BY DEF PoolHolders, ExecHolders, TasksOf
<1> QED
  BY <1>1, FS_Subset, FiniteAssumption

LEMMA CountedStep == Shape /\ Owned /\ Counted /\ [Next]_vars => Counted'
<1> SUFFICES ASSUME Shape, Owned, Counted, [Next]_vars PROVE Counted'
  OBVIOUS
<1>1. poolOpen \in Int /\ OpenFiles \in Int /\ MaxOpenFiles \in Int
      /\ \A e \in Execs : execOpen[e] \in Int
  BY CapacityAssumption DEF Shape
<1>2. poolOpen' = Cardinality(PoolHolders') /\ poolOpen' <= OpenFiles
  <2>1. PoolAdmission!Next \/ UNCHANGED <<poolOpen, PoolHolders>>
    BY PoolStep DEF PoolAdmission!vars
  <2>2. ASSUME NEW h \in Tasks, PoolAdmission!Admit(h)
        PROVE  poolOpen' = Cardinality(PoolHolders') /\ poolOpen' <= OpenFiles
    BY <1>1, <2>2, FiniteHolders, FS_AddElement DEF PoolAdmission!Admit, Counted
  <2>3. ASSUME NEW h \in Tasks, PoolAdmission!Retire(h)
        PROVE  poolOpen' = Cardinality(PoolHolders') /\ poolOpen' <= OpenFiles
    <3>1. h \in PoolHolders /\ poolOpen' = poolOpen - 1 /\ PoolHolders' = PoolHolders \ {h}
      BY <2>3 DEF PoolAdmission!Retire
    <3>2. Cardinality(PoolHolders \ {h}) = Cardinality(PoolHolders) - 1
      BY <3>1, FiniteHolders, FS_RemoveElement
    <3> QED
      BY <1>1, <3>1, <3>2 DEF Counted
  <2>4. ASSUME NEW h \in Tasks, PoolAdmission!Open(h) \/ PoolAdmission!Close(h)
        PROVE  poolOpen' = Cardinality(PoolHolders') /\ poolOpen' <= OpenFiles
    BY <2>4 DEF PoolAdmission!Open, PoolAdmission!Close, Counted
  <2>5. CASE UNCHANGED <<poolOpen, PoolHolders>>
    BY <2>5 DEF Counted
  <2> QED
    BY <2>1, <2>2, <2>3, <2>4, <2>5 DEF PoolAdmission!Next
<1>3. ASSUME NEW e \in Execs
      PROVE  execOpen'[e] = Cardinality(ExecHolders(e)') /\ execOpen'[e] <= MaxOpenFiles
  <2>1. ExecAdmission(e)!Next \/ UNCHANGED <<execOpen[e], ExecHolders(e)>>
    BY ExecStep DEF ExecAdmission!vars
  <2>2. ASSUME NEW h \in TasksOf(e), ExecAdmission(e)!Admit(h)
        PROVE  execOpen'[e] = Cardinality(ExecHolders(e)') /\ execOpen'[e] <= MaxOpenFiles
    <3>1. /\ h \notin ExecHolders(e) /\ execOpen[e] < MaxOpenFiles
          /\ execOpen'[e] = execOpen[e] + 1 /\ ExecHolders(e)' = ExecHolders(e) \cup {h}
      BY <2>2 DEF ExecAdmission!Admit
    <3>2. Cardinality(ExecHolders(e) \cup {h}) = Cardinality(ExecHolders(e)) + 1
      BY <3>1, FiniteHolders, FS_AddElement
    <3>3. execOpen[e] \in Int /\ execOpen[e] = Cardinality(ExecHolders(e))
      BY <1>1 DEF Counted
    <3> QED
      BY <1>1, <3>1, <3>2, <3>3
  <2>3. ASSUME NEW h \in TasksOf(e), ExecAdmission(e)!Retire(h)
        PROVE  execOpen'[e] = Cardinality(ExecHolders(e)') /\ execOpen'[e] <= MaxOpenFiles
    <3>1. /\ h \in ExecHolders(e)
          /\ execOpen'[e] = execOpen[e] - 1 /\ ExecHolders(e)' = ExecHolders(e) \ {h}
      BY <2>3 DEF ExecAdmission!Retire
    <3>2. Cardinality(ExecHolders(e) \ {h}) = Cardinality(ExecHolders(e)) - 1
      BY <3>1, FiniteHolders, FS_RemoveElement
    <3>3. /\ execOpen[e] \in Int /\ execOpen[e] <= MaxOpenFiles
          /\ execOpen[e] = Cardinality(ExecHolders(e))
      BY <1>1 DEF Counted
    <3> QED
      BY <1>1, <3>1, <3>2, <3>3
  <2>4. ASSUME NEW h \in TasksOf(e), ExecAdmission(e)!Open(h) \/ ExecAdmission(e)!Close(h)
        PROVE  execOpen'[e] = Cardinality(ExecHolders(e)') /\ execOpen'[e] <= MaxOpenFiles
    BY <2>4 DEF ExecAdmission!Open, ExecAdmission!Close, Counted
  <2>5. CASE UNCHANGED <<execOpen[e], ExecHolders(e)>>
    BY <2>5 DEF Counted
  <2> QED
    BY <2>1, <2>2, <2>3, <2>4, <2>5 DEF ExecAdmission!Next
<1> QED
  BY <1>2, <1>3 DEF Counted

LEMMA InitCounted == Init => Counted
<1> SUFFICES ASSUME Init PROVE Counted
  OBVIOUS
<1>1. PoolHolders = {} /\ \A e \in Execs : ExecHolders(e) = {}
  BY OwnerAssumption DEF Init, PoolHolders, ExecHolders, HoldsPool, HoldsExec, InRegistry, TasksOf
<1>2. Cardinality({}) = 0
  BY FS_EmptySet
<1>3. poolOpen = Cardinality(PoolHolders) /\ poolOpen <= OpenFiles
  BY <1>1, <1>2, CapacityAssumption DEF Init
<1>4. ASSUME NEW e \in Execs
      PROVE  execOpen[e] = Cardinality(ExecHolders(e)) /\ execOpen[e] <= MaxOpenFiles
  <2>1. ExecHolders(e) = {} /\ execOpen[e] = 0
    BY <1>1, <1>4 DEF Init
  <2> QED
    BY <2>1, <1>2, CapacityAssumption
<1> QED
  BY <1>3, <1>4 DEF Counted

IInv == Shape /\ Owned /\ Counted

LEMMA Invariance == Spec => []IInv
<1>1. Shape /\ Owned /\ Counted /\ [Next]_vars => Counted'
  BY CountedStep
<1> QED
  BY <1>1, InitCounted, Ownership, PTL DEF Spec, IInv

-----------------------------------------------------------------------------
(* Theorems.                                                               *)

LEMMA CountersNatural == IInv => poolOpen \in Nat /\ execOpen \in [Execs -> Nat]
<1> SUFFICES ASSUME IInv PROVE poolOpen \in Nat /\ \A e \in Execs : execOpen[e] \in Nat
  BY DEF IInv, Shape
<1> QED
  BY FiniteHolders, FS_CardinalityType DEF IInv, Counted

\* Every variable keeps its type; in particular the unsigned counters of the
\* pools and of the executions never wrap below zero.
THEOREM TypeCorrect == Spec => []TypeOK
<1>1. IInv => TypeOK
  BY CountersNatural DEF IInv, Shape, TypeOK
<1> QED
  BY <1>1, Invariance, PTL

\* Handles the backend holds are always admitted, and neither the pool ceiling
\* nor the execution ceiling is ever exceeded.
THEOREM AdmissionHolds == Spec => []AdmissionCoversBackend
<1>1. ASSUME IInv PROVE AdmissionCoversBackend
  <2>1. Live(Tasks) \in SUBSET PoolHolders
    BY <1>1 DEF IInv, Owned, BackendAgrees, Live, PoolHolders, HoldsPool
  <2>2. Cardinality(Live(Tasks)) <= Cardinality(PoolHolders)
    BY <2>1, FS_Subset, FiniteHolders
  <2>3. ASSUME NEW e \in Execs
        PROVE  Cardinality(Live(TasksOf(e))) <= Cardinality(ExecHolders(e))
    <3>1. Live(TasksOf(e)) \in SUBSET ExecHolders(e)
      BY <1>1 DEF IInv, Owned, BackendAgrees, Live, ExecHolders, HoldsExec, TasksOf
    <3> QED
      BY <3>1, FS_Subset, FiniteHolders
  <2> QED
    BY <1>1, <2>2, <2>3 DEF IInv, Counted, AdmissionCoversBackend
<1> QED
  BY <1>1, Invariance, PTL

\* Pools::open_files implements the abstract ceiling.
THEOREM PoolRefinement == Spec => PoolImplements
<1>1. Init => PoolAdmission!Init
  <2> SUFFICES ASSUME Init PROVE PoolHolders = {} /\ Live(Tasks) = {} /\ poolOpen = 0
    BY DEF PoolAdmission!Init
  <2> QED
    BY OwnerAssumption DEF Init, PoolHolders, HoldsPool, InRegistry, Live
<1>2. IInv /\ [Next]_vars => [PoolAdmission!Next]_(PoolAdmission!vars)
  BY PoolStep DEF IInv
<1> QED
  BY <1>1, <1>2, Invariance, PTL DEF Spec, PoolImplements, PoolAdmission!Spec

\* ExecutionControl::open_files implements the abstract ceiling, in every
\* execution.
THEOREM ExecRefinement == Spec => ExecImplements
<1>1. Init => \A e \in Execs : ExecAdmission(e)!Init
  <2> SUFFICES ASSUME Init, NEW e \in Execs
               PROVE  ExecHolders(e) = {} /\ Live(TasksOf(e)) = {} /\ execOpen[e] = 0
    BY DEF ExecAdmission!Init
  <2> QED
    BY OwnerAssumption DEF Init, ExecHolders, HoldsExec, InRegistry, Live, TasksOf
<1>2. IInv /\ [Next]_vars =>
        [\A e \in Execs : [ExecAdmission(e)!Next]_(ExecAdmission(e)!vars)]_vars
  BY ExecStep DEF IInv
<1> QED
  BY <1>1, <1>2, Invariance, PTL DEF Spec, ExecImplements

\* HandleRegistry::reserve and release keep both counters as the abstract
\* ceiling does, whatever the opens, the closes and the cancellations do.
THEOREM AdmissionRefinement == Spec => AdmissionImplemented
  BY PoolRefinement, ExecRefinement DEF AdmissionImplemented

\* With no call in flight and no handle open both counters are zero.
THEOREM NoLeak == Spec => []NothingLeaks
<1>1. ASSUME IInv,
             \A t \in Tasks : /\ opener[t] \in {"idle", "delivered", "failed"}
                              /\ cleanup[t] \in {"none", "done"}
                              /\ backend[t] # "open",
             \A c \in Closers : closer[c] = "idle"
      PROVE  poolOpen = 0 /\ \A e \in Execs : execOpen[e] = 0
  <2>1. \A t \in Tasks : ~InRegistry(t)
    BY <1>1 DEF IInv, Owned, BackendAgrees
  <2>2. PoolHolders = {} /\ \A e \in Execs : ExecHolders(e) = {}
    BY <1>1, <2>1 DEF PoolHolders, ExecHolders, HoldsPool, HoldsExec, TasksOf
  <2>3. Cardinality({}) = 0
    BY FS_EmptySet
  <2>4. poolOpen = 0
    BY <1>1, <2>2, <2>3 DEF IInv, Counted
  <2>5. ASSUME NEW e \in Execs PROVE execOpen[e] = 0
    <3>1. ExecHolders(e) = {}
      BY <2>2
    <3> QED
      BY <1>1, <2>3, <3>1 DEF IInv, Counted
  <2> QED
    BY <2>4, <2>5
<1>2. IInv => NothingLeaks
  BY <1>1 DEF NothingLeaks
<1> QED
  BY <1>2, Invariance, PTL
=============================================================================
