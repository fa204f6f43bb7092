-------------------------- MODULE HandleOwnership ---------------------------
(***************************************************************************)
(* Proofs about HandleLifecycle for any number of open calls, close calls, *)
(* registries and executions, and any capacities: at every moment exactly  *)
(* one party answers for a backend handle, and a cancel() that has         *)
(* returned leaves no usable handle of its execution behind.               *)
(***************************************************************************)
EXTENDS HandleLifecycle, TLAPS

-----------------------------------------------------------------------------
(* The inductive invariant.                                                *)

\* TypeOK before it is known that the counters cannot fall below zero.
Shape ==
    /\ poolOpen \in Int
    /\ execOpen \in [Execs -> Int]
    /\ cancelled \in [Execs -> BOOLEAN]
    /\ expired \in [Execs -> BOOLEAN]
    /\ registries \in [Execs -> SUBSET Registries]
    /\ life \in [Registries -> {"new", "live", "dropped"}]
    /\ files \in [Registries -> SUBSET Tasks]
    /\ opener \in [Tasks -> OpenerSteps]
    /\ dropped \subseteq Tasks
    /\ backend \in [Tasks -> BackendStates]
    /\ closer \in [Closers -> CloserSteps]
    /\ target \in [Closers -> Tasks]
    /\ discard \in [Closers -> BOOLEAN]
    /\ cleanup \in [Tasks -> CleanupSteps]
    /\ canceller \in [Execs -> {"idle", "flagged", "abandoning"}]
    /\ pending \in [Execs -> SUBSET Registries]

OpenerHas(t) ==
    opener[t] \in {"pooled", "refused", "admitted", "opened", "abort",
                   "release", "releaseExec"}

CloserHas(c, t) ==
    /\ target[c] = t
    /\ closer[c] \in {"removed", "commit", "abort", "release", "releaseExec"}

CleanupHas(t) ==
    cleanup[t] \in {"taken", "queued", "abort", "release", "releaseExec"}

\* At most one party is responsible for a handle and its admissions.
Exclusive ==
    \A t \in Tasks :
        /\ OpenerHas(t) => ~InRegistry(t) /\ ~CleanupHas(t)
        /\ InRegistry(t) =>
             /\ ~CleanupHas(t)
             /\ opener[t] \in {"inserted", "withdraw", "handoff", "delivered"}
        /\ CleanupHas(t) =>
             opener[t] \in {"inserted", "withdraw", "handoff", "delivered", "failed"}
        /\ \A c \in Closers :
             /\ target[c] = t /\ closer[c] # "idle" => opener[t] = "delivered"
             /\ CloserHas(c, t) => ~InRegistry(t) /\ ~CleanupHas(t)
             /\ \A d \in Closers : CloserHas(c, t) /\ CloserHas(d, t) => c = d

\* A handle is filed in the registry it was opened through.
Filed == \A r \in Registries : \A t \in files[r] : RegistryOf[t] = r

\* The backend holds a handle exactly while some party still has to free it.
BackendAgrees ==
    \A t \in Tasks :
        /\ backend[t] # "misused"
        /\ backend[t] = "open" <=>
             \/ opener[t] \in {"opened", "abort"}
             \/ InRegistry(t)
             \/ \E c \in Closers :
                  target[c] = t /\ closer[c] \in {"removed", "commit", "abort"}
             \/ cleanup[t] \in {"taken", "queued", "abort"}

Owned == Exclusive /\ Filed /\ BackendAgrees

-----------------------------------------------------------------------------
(* Initial states.                                                         *)

LEMMA InitOwned == Init => Shape /\ Owned
<1> SUFFICES ASSUME Init PROVE Shape /\ Owned
  OBVIOUS
<1>1. Shape
  BY DEF Init, Shape, OpenerSteps, CloserSteps, CleanupSteps, BackendStates
<1>2. Owned
  BY OwnerAssumption DEF Init, Owned, Exclusive, Filed, BackendAgrees, OpenerHas, CloserHas,
     CleanupHas, InRegistry
<1> QED
  BY <1>1, <1>2

-----------------------------------------------------------------------------
(* Every step keeps the shape.                                             *)

LEMMA ShapeStep == Shape /\ [Next]_vars => Shape'
<1> SUFFICES ASSUME Shape, [Next]_vars PROVE Shape'
  OBVIOUS
<1> USE OwnerAssumption DEF Shape, OpenerSteps, CloserSteps, CleanupSteps, BackendStates,
    poolVars, openVars, closeVars, cancelVars
<1>1. ASSUME NEW r \in Registries, Build(r) PROVE Shape'
  BY <1>1 DEF Build
<1>2. ASSUME NEW r \in Registries, DropRegistry(r) PROVE Shape'
  BY <1>2 DEF DropRegistry, Orphan
<1>3. ASSUME NEW t \in Tasks, OpenCall(t) PROVE Shape'
  BY <1>3 DEF OpenCall, Move
<1>4. ASSUME NEW t \in Tasks, OpenPermit(t) PROVE Shape'
  BY <1>4 DEF OpenPermit, Move
<1>5. ASSUME NEW t \in Tasks, WorkerCheck(t) PROVE Shape'
  BY <1>5 DEF WorkerCheck, Move
<1>6. ASSUME NEW t \in Tasks, ReservePool(t) PROVE Shape'
  BY SMTT(30), <1>6 DEF ReservePool, Move, AcquirePool
<1>7. ASSUME NEW t \in Tasks, ReserveExec(t) PROVE Shape'
  BY <1>7 DEF ReserveExec, Move, AcquireExec
<1>8. ASSUME NEW t \in Tasks, Unreserve(t) PROVE Shape'
  BY <1>8 DEF Unreserve, Move, ReleasePool
<1>9. ASSUME NEW t \in Tasks, BackendOpen(t) PROVE Shape'
  BY <1>9 DEF BackendOpen, Move
<1>10. ASSUME NEW t \in Tasks, Insert(t) PROVE Shape'
  BY <1>10 DEF Insert, Move
<1>11. ASSUME NEW t \in Tasks, CheckInserted(t) PROVE Shape'
  BY <1>11 DEF CheckInserted, Move
<1>12. ASSUME NEW t \in Tasks, Withdraw(t) PROVE Shape'
  BY <1>12 DEF Withdraw, Move
<1>13. ASSUME NEW t \in Tasks, OpenAbort(t) PROVE Shape'
  BY <1>13 DEF OpenAbort, Move, Consume
<1>14. ASSUME NEW t \in Tasks, OpenReleasePool(t) PROVE Shape'
  BY <1>14 DEF OpenReleasePool, Move, ReleasePool
<1>15. ASSUME NEW t \in Tasks, OpenReleaseExec(t) PROVE Shape'
  BY <1>15 DEF OpenReleaseExec, Move, ReleaseExec
<1>16. ASSUME NEW t \in Tasks, Deliver(t) PROVE Shape'
  BY <1>16 DEF Deliver, Move
<1>17. ASSUME NEW t \in Tasks, DropOpen(t) PROVE Shape'
  BY <1>17 DEF DropOpen, Move
<1>18. ASSUME NEW t \in Tasks, DropHandoff(t) PROVE Shape'
  BY <1>18 DEF DropHandoff, Move, Abandon, Orphan
<1>19. ASSUME NEW t \in Tasks, DropOwned(t) PROVE Shape'
  BY <1>19 DEF DropOwned, Abandon, Orphan
<1>20. ASSUME NEW t \in Tasks, CleanupHandle(t) PROVE Shape'
  BY <1>20 DEF CleanupHandle, Clean
<1>21. ASSUME NEW t \in Tasks, CleanupReceive(t) PROVE Shape'
  BY <1>21 DEF CleanupReceive, Clean
<1>22. ASSUME NEW t \in Tasks, CleanupAbort(t) PROVE Shape'
  BY <1>22 DEF CleanupAbort, Clean, Consume
<1>23. ASSUME NEW t \in Tasks, CleanupReleasePool(t) PROVE Shape'
  BY <1>23 DEF CleanupReleasePool, Clean, ReleasePool
<1>24. ASSUME NEW t \in Tasks, CleanupReleaseExec(t) PROVE Shape'
  BY <1>24 DEF CleanupReleaseExec, Clean, ReleaseExec
<1>25. ASSUME NEW c \in Closers, NEW t \in Tasks, NEW abort \in BOOLEAN, FinishCall(c, t, abort)
       PROVE  Shape'
  BY <1>25 DEF FinishCall, Step
<1>26. ASSUME NEW c \in Closers, FinishPermit(c) PROVE Shape'
  BY <1>26 DEF FinishPermit, Step
<1>27. ASSUME NEW c \in Closers, DropFinish(c) PROVE Shape'
  BY <1>27 DEF DropFinish, Step
<1>28. ASSUME NEW c \in Closers, FinishRemove(c) PROVE Shape'
  BY <1>28 DEF FinishRemove, Step
<1>29. ASSUME NEW c \in Closers, FinishCheck(c) PROVE Shape'
  BY <1>29 DEF FinishCheck, Step
<1>30. ASSUME NEW c \in Closers, FinishBackend(c) PROVE Shape'
  BY <1>30 DEF FinishBackend, Step, Consume
<1>31. ASSUME NEW c \in Closers, FinishReleasePool(c) PROVE Shape'
  BY <1>31 DEF FinishReleasePool, Step, ReleasePool
<1>32. ASSUME NEW c \in Closers, FinishReleaseExec(c) PROVE Shape'
  BY <1>32 DEF FinishReleaseExec, Step, ReleaseExec
<1>33. ASSUME NEW e \in Execs, Expire(e) PROVE Shape'
  BY <1>33 DEF Expire
<1>34. ASSUME NEW e \in Execs, CancelFlag(e) PROVE Shape'
  BY <1>34 DEF CancelFlag
<1>35. ASSUME NEW e \in Execs, CancelTake(e) PROVE Shape'
  BY <1>35 DEF CancelTake
<1>36. ASSUME NEW e \in Execs, NEW r \in Registries, AbandonAll(e, r) PROVE Shape'
  BY <1>36 DEF AbandonAll, Orphan
<1>37. ASSUME NEW e \in Execs, CancelReturn(e) PROVE Shape'
  BY <1>37 DEF CancelReturn
<1>38. CASE UNCHANGED vars
  BY <1>38 DEF vars
<1> HIDE DEF Shape
<1> QED
  BY <1>1, <1>2, <1>3, <1>4, <1>5, <1>6, <1>7, <1>8, <1>9, <1>10, <1>11, <1>12, <1>13,
     <1>14, <1>15, <1>16, <1>17, <1>18, <1>19, <1>20, <1>21, <1>22, <1>23, <1>24, <1>25,
     <1>26, <1>27, <1>28, <1>29, <1>30, <1>31, <1>32, <1>33, <1>34, <1>35, <1>36, <1>37,
     <1>38 DEF Next, OpenerRuns, CloserRuns, CleanupRuns, CancellerRuns

-----------------------------------------------------------------------------
(* Handles stay filed in their own registry. *)

LEMMA FiledStep == Shape /\ Owned /\ [Next]_vars => Filed'
<1> SUFFICES ASSUME Shape, Owned, [Next]_vars PROVE Filed'
  OBVIOUS
<1> USE OwnerAssumption DEF Shape, Owned, Filed,
    poolVars, openVars, closeVars, cancelVars
<1>1. ASSUME NEW r \in Registries, Build(r) PROVE Filed'
  BY <1>1 DEF Build
<1>2. ASSUME NEW r \in Registries, DropRegistry(r) PROVE Filed'
  BY <1>2 DEF DropRegistry, Orphan
<1>3. ASSUME NEW t \in Tasks, OpenCall(t) PROVE Filed'
  BY <1>3 DEF OpenCall, Move
<1>4. ASSUME NEW t \in Tasks, OpenPermit(t) PROVE Filed'
  BY <1>4 DEF OpenPermit, Move
<1>5. ASSUME NEW t \in Tasks, WorkerCheck(t) PROVE Filed'
  BY <1>5 DEF WorkerCheck, Move
<1>6. ASSUME NEW t \in Tasks, ReservePool(t) PROVE Filed'
  BY <1>6 DEF ReservePool, Move, AcquirePool
<1>7. ASSUME NEW t \in Tasks, ReserveExec(t) PROVE Filed'
  BY <1>7 DEF ReserveExec, Move, AcquireExec
<1>8. ASSUME NEW t \in Tasks, Unreserve(t) PROVE Filed'
  BY <1>8 DEF Unreserve, Move, ReleasePool
<1>9. ASSUME NEW t \in Tasks, BackendOpen(t) PROVE Filed'
  BY <1>9 DEF BackendOpen, Move
<1>10. ASSUME NEW t \in Tasks, Insert(t) PROVE Filed'
  BY <1>10 DEF Insert, Move
<1>11. ASSUME NEW t \in Tasks, CheckInserted(t) PROVE Filed'
  BY <1>11 DEF CheckInserted, Move
<1>12. ASSUME NEW t \in Tasks, Withdraw(t) PROVE Filed'
  BY <1>12 DEF Withdraw, Move
<1>13. ASSUME NEW t \in Tasks, OpenAbort(t) PROVE Filed'
  BY <1>13 DEF OpenAbort, Move, Consume
<1>14. ASSUME NEW t \in Tasks, OpenReleasePool(t) PROVE Filed'
  BY <1>14 DEF OpenReleasePool, Move, ReleasePool
<1>15. ASSUME NEW t \in Tasks, OpenReleaseExec(t) PROVE Filed'
  BY <1>15 DEF OpenReleaseExec, Move, ReleaseExec
<1>16. ASSUME NEW t \in Tasks, Deliver(t) PROVE Filed'
  BY <1>16 DEF Deliver, Move
<1>17. ASSUME NEW t \in Tasks, DropOpen(t) PROVE Filed'
  BY <1>17 DEF DropOpen, Move
<1>18. ASSUME NEW t \in Tasks, DropHandoff(t) PROVE Filed'
  BY <1>18 DEF DropHandoff, Move, Abandon, Orphan
<1>19. ASSUME NEW t \in Tasks, DropOwned(t) PROVE Filed'
  BY <1>19 DEF DropOwned, Abandon, Orphan
<1>20. ASSUME NEW t \in Tasks, CleanupHandle(t) PROVE Filed'
  BY <1>20 DEF CleanupHandle, Clean
<1>21. ASSUME NEW t \in Tasks, CleanupReceive(t) PROVE Filed'
  BY <1>21 DEF CleanupReceive, Clean
<1>22. ASSUME NEW t \in Tasks, CleanupAbort(t) PROVE Filed'
  BY <1>22 DEF CleanupAbort, Clean, Consume
<1>23. ASSUME NEW t \in Tasks, CleanupReleasePool(t) PROVE Filed'
  BY <1>23 DEF CleanupReleasePool, Clean, ReleasePool
<1>24. ASSUME NEW t \in Tasks, CleanupReleaseExec(t) PROVE Filed'
  BY <1>24 DEF CleanupReleaseExec, Clean, ReleaseExec
<1>25. ASSUME NEW c \in Closers, NEW t \in Tasks, NEW abort \in BOOLEAN, FinishCall(c, t, abort)
       PROVE  Filed'
  BY <1>25 DEF FinishCall, Step
<1>26. ASSUME NEW c \in Closers, FinishPermit(c) PROVE Filed'
  BY <1>26 DEF FinishPermit, Step
<1>27. ASSUME NEW c \in Closers, DropFinish(c) PROVE Filed'
  BY <1>27 DEF DropFinish, Step
<1>28. ASSUME NEW c \in Closers, FinishRemove(c) PROVE Filed'
  BY <1>28 DEF FinishRemove, Step
<1>29. ASSUME NEW c \in Closers, FinishCheck(c) PROVE Filed'
  BY <1>29 DEF FinishCheck, Step
<1>30. ASSUME NEW c \in Closers, FinishBackend(c) PROVE Filed'
  BY <1>30 DEF FinishBackend, Step, Consume
<1>31. ASSUME NEW c \in Closers, FinishReleasePool(c) PROVE Filed'
  BY <1>31 DEF FinishReleasePool, Step, ReleasePool
<1>32. ASSUME NEW c \in Closers, FinishReleaseExec(c) PROVE Filed'
  BY <1>32 DEF FinishReleaseExec, Step, ReleaseExec
<1>33. ASSUME NEW e \in Execs, Expire(e) PROVE Filed'
  BY <1>33 DEF Expire
<1>34. ASSUME NEW e \in Execs, CancelFlag(e) PROVE Filed'
  BY <1>34 DEF CancelFlag
<1>35. ASSUME NEW e \in Execs, CancelTake(e) PROVE Filed'
  BY <1>35 DEF CancelTake
<1>36. ASSUME NEW e \in Execs, NEW r \in Registries, AbandonAll(e, r) PROVE Filed'
  BY <1>36 DEF AbandonAll, Orphan
<1>37. ASSUME NEW e \in Execs, CancelReturn(e) PROVE Filed'
  BY <1>37 DEF CancelReturn
<1>38. CASE UNCHANGED vars
  BY <1>38 DEF vars
<1> HIDE DEF Shape, Owned, Exclusive, Filed, BackendAgrees
<1> QED
  BY <1>1, <1>2, <1>3, <1>4, <1>5, <1>6, <1>7, <1>8, <1>9, <1>10, <1>11, <1>12, <1>13,
     <1>14, <1>15, <1>16, <1>17, <1>18, <1>19, <1>20, <1>21, <1>22, <1>23, <1>24, <1>25,
     <1>26, <1>27, <1>28, <1>29, <1>30, <1>31, <1>32, <1>33, <1>34, <1>35, <1>36, <1>37,
     <1>38 DEF Next, OpenerRuns, CloserRuns, CleanupRuns, CancellerRuns

-----------------------------------------------------------------------------
(* Responsibility is handed over, never shared. *)

LEMMA ExclusiveStep == Shape /\ Owned /\ [Next]_vars => Exclusive'
<1> SUFFICES ASSUME Shape, Owned, [Next]_vars PROVE Exclusive'
  OBVIOUS
<1> USE OwnerAssumption DEF Shape, Owned, Exclusive, Filed, OpenerHas, CloserHas, CleanupHas, InRegistry,
    poolVars, openVars, closeVars, cancelVars
<1>1. ASSUME NEW r \in Registries, Build(r) PROVE Exclusive'
  BY <1>1 DEF Build
<1>2. ASSUME NEW r \in Registries, DropRegistry(r) PROVE Exclusive'
  BY <1>2 DEF DropRegistry, Orphan
<1>3. ASSUME NEW t \in Tasks, OpenCall(t) PROVE Exclusive'
  BY <1>3 DEF OpenCall, Move
<1>4. ASSUME NEW t \in Tasks, OpenPermit(t) PROVE Exclusive'
  BY <1>4 DEF OpenPermit, Move
<1>5. ASSUME NEW t \in Tasks, WorkerCheck(t) PROVE Exclusive'
  BY <1>5 DEF WorkerCheck, Move
<1>6. ASSUME NEW t \in Tasks, ReservePool(t) PROVE Exclusive'
  BY <1>6 DEF ReservePool, Move, AcquirePool
<1>7. ASSUME NEW t \in Tasks, ReserveExec(t) PROVE Exclusive'
  BY <1>7 DEF ReserveExec, Move, AcquireExec
<1>8. ASSUME NEW t \in Tasks, Unreserve(t) PROVE Exclusive'
  BY <1>8 DEF Unreserve, Move, ReleasePool
<1>9. ASSUME NEW t \in Tasks, BackendOpen(t) PROVE Exclusive'
  BY <1>9 DEF BackendOpen, Move
<1>10. ASSUME NEW t \in Tasks, Insert(t) PROVE Exclusive'
  BY <1>10 DEF Insert, Move
<1>11. ASSUME NEW t \in Tasks, CheckInserted(t) PROVE Exclusive'
  BY <1>11 DEF CheckInserted, Move
<1>12. ASSUME NEW t \in Tasks, Withdraw(t) PROVE Exclusive'
  BY <1>12 DEF Withdraw, Move
<1>13. ASSUME NEW t \in Tasks, OpenAbort(t) PROVE Exclusive'
  BY <1>13 DEF OpenAbort, Move, Consume
<1>14. ASSUME NEW t \in Tasks, OpenReleasePool(t) PROVE Exclusive'
  BY <1>14 DEF OpenReleasePool, Move, ReleasePool
<1>15. ASSUME NEW t \in Tasks, OpenReleaseExec(t) PROVE Exclusive'
  BY <1>15 DEF OpenReleaseExec, Move, ReleaseExec
<1>16. ASSUME NEW t \in Tasks, Deliver(t) PROVE Exclusive'
  BY <1>16 DEF Deliver, Move
<1>17. ASSUME NEW t \in Tasks, DropOpen(t) PROVE Exclusive'
  BY <1>17 DEF DropOpen, Move
<1>18. ASSUME NEW t \in Tasks, DropHandoff(t) PROVE Exclusive'
  BY <1>18 DEF DropHandoff, Move, Abandon, Orphan
<1>19. ASSUME NEW t \in Tasks, DropOwned(t) PROVE Exclusive'
  BY <1>19 DEF DropOwned, Abandon, Orphan
<1>20. ASSUME NEW t \in Tasks, CleanupHandle(t) PROVE Exclusive'
  BY <1>20 DEF CleanupHandle, Clean
<1>21. ASSUME NEW t \in Tasks, CleanupReceive(t) PROVE Exclusive'
  BY <1>21 DEF CleanupReceive, Clean
<1>22. ASSUME NEW t \in Tasks, CleanupAbort(t) PROVE Exclusive'
  BY <1>22 DEF CleanupAbort, Clean, Consume
<1>23. ASSUME NEW t \in Tasks, CleanupReleasePool(t) PROVE Exclusive'
  BY <1>23 DEF CleanupReleasePool, Clean, ReleasePool
<1>24. ASSUME NEW t \in Tasks, CleanupReleaseExec(t) PROVE Exclusive'
  BY <1>24 DEF CleanupReleaseExec, Clean, ReleaseExec
<1>25. ASSUME NEW c \in Closers, NEW t \in Tasks, NEW abort \in BOOLEAN, FinishCall(c, t, abort)
       PROVE  Exclusive'
  BY <1>25 DEF FinishCall, Step
<1>26. ASSUME NEW c \in Closers, FinishPermit(c) PROVE Exclusive'
  BY <1>26 DEF FinishPermit, Step
<1>27. ASSUME NEW c \in Closers, DropFinish(c) PROVE Exclusive'
  BY <1>27 DEF DropFinish, Step
<1>28. ASSUME NEW c \in Closers, FinishRemove(c) PROVE Exclusive'
  BY <1>28 DEF FinishRemove, Step
<1>29. ASSUME NEW c \in Closers, FinishCheck(c) PROVE Exclusive'
  BY <1>29 DEF FinishCheck, Step
<1>30. ASSUME NEW c \in Closers, FinishBackend(c) PROVE Exclusive'
  BY <1>30 DEF FinishBackend, Step, Consume
<1>31. ASSUME NEW c \in Closers, FinishReleasePool(c) PROVE Exclusive'
  BY <1>31 DEF FinishReleasePool, Step, ReleasePool
<1>32. ASSUME NEW c \in Closers, FinishReleaseExec(c) PROVE Exclusive'
  BY <1>32 DEF FinishReleaseExec, Step, ReleaseExec
<1>33. ASSUME NEW e \in Execs, Expire(e) PROVE Exclusive'
  BY <1>33 DEF Expire
<1>34. ASSUME NEW e \in Execs, CancelFlag(e) PROVE Exclusive'
  BY <1>34 DEF CancelFlag
<1>35. ASSUME NEW e \in Execs, CancelTake(e) PROVE Exclusive'
  BY <1>35 DEF CancelTake
<1>36. ASSUME NEW e \in Execs, NEW r \in Registries, AbandonAll(e, r) PROVE Exclusive'
  BY <1>36 DEF AbandonAll, Orphan
<1>37. ASSUME NEW e \in Execs, CancelReturn(e) PROVE Exclusive'
  BY <1>37 DEF CancelReturn
<1>38. CASE UNCHANGED vars
  BY <1>38 DEF vars
<1> HIDE DEF Shape, Owned, Exclusive, Filed, BackendAgrees
<1> QED
  BY <1>1, <1>2, <1>3, <1>4, <1>5, <1>6, <1>7, <1>8, <1>9, <1>10, <1>11, <1>12, <1>13,
     <1>14, <1>15, <1>16, <1>17, <1>18, <1>19, <1>20, <1>21, <1>22, <1>23, <1>24, <1>25,
     <1>26, <1>27, <1>28, <1>29, <1>30, <1>31, <1>32, <1>33, <1>34, <1>35, <1>36, <1>37,
     <1>38 DEF Next, OpenerRuns, CloserRuns, CleanupRuns, CancellerRuns

-----------------------------------------------------------------------------
(* The backend frees a handle once, by the party responsible for it. *)

LEMMA BackendStep == Shape /\ Owned /\ [Next]_vars => BackendAgrees'
<1> SUFFICES ASSUME Shape, Owned, [Next]_vars PROVE BackendAgrees'
  OBVIOUS
<1> USE OwnerAssumption DEF Shape, Owned, Exclusive, Filed, BackendAgrees, OpenerHas, CloserHas, CleanupHas, InRegistry,
    poolVars, openVars, closeVars, cancelVars
<1>1. ASSUME NEW r \in Registries, Build(r) PROVE BackendAgrees'
  BY <1>1 DEF Build
<1>2. ASSUME NEW r \in Registries, DropRegistry(r) PROVE BackendAgrees'
  BY <1>2 DEF DropRegistry, Orphan
<1>3. ASSUME NEW t \in Tasks, OpenCall(t) PROVE BackendAgrees'
  BY <1>3 DEF OpenCall, Move
<1>4. ASSUME NEW t \in Tasks, OpenPermit(t) PROVE BackendAgrees'
  BY <1>4 DEF OpenPermit, Move
<1>5. ASSUME NEW t \in Tasks, WorkerCheck(t) PROVE BackendAgrees'
  BY <1>5 DEF WorkerCheck, Move
<1>6. ASSUME NEW t \in Tasks, ReservePool(t) PROVE BackendAgrees'
  <2>1. \A u \in Tasks : opener'[u] \in {"opened", "abort"} <=> opener[u] \in {"opened", "abort"}
    BY <1>6 DEF ReservePool, Move
  <2>2. UNCHANGED <<target, closer, cleanup, files, backend>>
    BY <1>6 DEF ReservePool
  <2> QED
    BY <2>1, <2>2
<1>7. ASSUME NEW t \in Tasks, ReserveExec(t) PROVE BackendAgrees'
  <2>1. \A u \in Tasks : opener'[u] \in {"opened", "abort"} <=> opener[u] \in {"opened", "abort"}
    BY <1>7 DEF ReserveExec, Move
  <2>2. UNCHANGED <<target, closer, cleanup, files, backend>>
    BY <1>7 DEF ReserveExec
  <2> QED
    BY <2>1, <2>2
<1>8. ASSUME NEW t \in Tasks, Unreserve(t) PROVE BackendAgrees'
  <2>1. \A u \in Tasks : opener'[u] \in {"opened", "abort"} <=> opener[u] \in {"opened", "abort"}
    BY <1>8 DEF Unreserve, Move
  <2>2. UNCHANGED <<target, closer, cleanup, files, backend>>
    BY <1>8 DEF Unreserve
  <2> QED
    BY <2>1, <2>2
<1>9. ASSUME NEW t \in Tasks, BackendOpen(t) PROVE BackendAgrees'
  BY <1>9 DEF BackendOpen, Move
<1>10. ASSUME NEW t \in Tasks, Insert(t) PROVE BackendAgrees'
  BY <1>10 DEF Insert, Move
<1>11. ASSUME NEW t \in Tasks, CheckInserted(t) PROVE BackendAgrees'
  BY <1>11 DEF CheckInserted, Move
<1>12. ASSUME NEW t \in Tasks, Withdraw(t) PROVE BackendAgrees'
  BY <1>12 DEF Withdraw, Move
<1>13. ASSUME NEW t \in Tasks, OpenAbort(t) PROVE BackendAgrees'
  BY <1>13 DEF OpenAbort, Move, Consume
<1>14. ASSUME NEW t \in Tasks, OpenReleasePool(t) PROVE BackendAgrees'
  BY <1>14 DEF OpenReleasePool, Move, ReleasePool
<1>15. ASSUME NEW t \in Tasks, OpenReleaseExec(t) PROVE BackendAgrees'
  BY <1>15 DEF OpenReleaseExec, Move, ReleaseExec
<1>16. ASSUME NEW t \in Tasks, Deliver(t) PROVE BackendAgrees'
  BY <1>16 DEF Deliver, Move
<1>17. ASSUME NEW t \in Tasks, DropOpen(t) PROVE BackendAgrees'
  BY <1>17 DEF DropOpen, Move
<1>18. ASSUME NEW t \in Tasks, DropHandoff(t) PROVE BackendAgrees'
  BY <1>18 DEF DropHandoff, Move, Abandon, Orphan
<1>19. ASSUME NEW t \in Tasks, DropOwned(t) PROVE BackendAgrees'
  BY <1>19 DEF DropOwned, Abandon, Orphan
<1>20. ASSUME NEW t \in Tasks, CleanupHandle(t) PROVE BackendAgrees'
  BY <1>20 DEF CleanupHandle, Clean
<1>21. ASSUME NEW t \in Tasks, CleanupReceive(t) PROVE BackendAgrees'
  BY <1>21 DEF CleanupReceive, Clean
<1>22. ASSUME NEW t \in Tasks, CleanupAbort(t) PROVE BackendAgrees'
  BY <1>22 DEF CleanupAbort, Clean, Consume
<1>23. ASSUME NEW t \in Tasks, CleanupReleasePool(t) PROVE BackendAgrees'
  BY <1>23 DEF CleanupReleasePool, Clean, ReleasePool
<1>24. ASSUME NEW t \in Tasks, CleanupReleaseExec(t) PROVE BackendAgrees'
  BY <1>24 DEF CleanupReleaseExec, Clean, ReleaseExec
<1>25. ASSUME NEW c \in Closers, NEW t \in Tasks, NEW abort \in BOOLEAN, FinishCall(c, t, abort)
       PROVE  BackendAgrees'
  BY SMTT(30), <1>25 DEF FinishCall, Step
<1>26. ASSUME NEW c \in Closers, FinishPermit(c) PROVE BackendAgrees'
  <2>1. \A d \in Closers : closer'[d] \in {"removed", "commit", "abort"}
                              <=> closer[d] \in {"removed", "commit", "abort"}
    BY <1>26 DEF FinishPermit, Step
  <2>2. UNCHANGED <<target, opener, cleanup, files, backend>>
    BY <1>26 DEF FinishPermit
  <2> QED
    BY <2>1, <2>2
<1>27. ASSUME NEW c \in Closers, DropFinish(c) PROVE BackendAgrees'
  <2>1. \A d \in Closers : closer'[d] \in {"removed", "commit", "abort"}
                              <=> closer[d] \in {"removed", "commit", "abort"}
    BY <1>27 DEF DropFinish, Step
  <2>2. UNCHANGED <<target, opener, cleanup, files, backend>>
    BY <1>27 DEF DropFinish
  <2> QED
    BY <2>1, <2>2
<1>28. ASSUME NEW c \in Closers, FinishRemove(c) PROVE BackendAgrees'
  BY SMTT(30), <1>28 DEF FinishRemove, Step
<1>29. ASSUME NEW c \in Closers, FinishCheck(c) PROVE BackendAgrees'
  BY <1>29 DEF FinishCheck, Step
<1>30. ASSUME NEW c \in Closers, FinishBackend(c) PROVE BackendAgrees'
  BY SMTT(30), <1>30 DEF FinishBackend, Step, Consume
<1>31. ASSUME NEW c \in Closers, FinishReleasePool(c) PROVE BackendAgrees'
  <2>1. \A d \in Closers : closer'[d] \in {"removed", "commit", "abort"}
                              <=> closer[d] \in {"removed", "commit", "abort"}
    BY <1>31 DEF FinishReleasePool, Step
  <2>2. UNCHANGED <<target, opener, cleanup, files, backend>>
    BY <1>31 DEF FinishReleasePool
  <2> QED
    BY <2>1, <2>2
<1>32. ASSUME NEW c \in Closers, FinishReleaseExec(c) PROVE BackendAgrees'
  <2>1. \A d \in Closers : closer'[d] \in {"removed", "commit", "abort"}
                              <=> closer[d] \in {"removed", "commit", "abort"}
    BY SMTT(30), <1>32 DEF FinishReleaseExec, Step
  <2>2. UNCHANGED <<target, opener, cleanup, files, backend>>
    BY <1>32 DEF FinishReleaseExec
  <2> QED
    BY <2>1, <2>2
<1>33. ASSUME NEW e \in Execs, Expire(e) PROVE BackendAgrees'
  BY <1>33 DEF Expire
<1>34. ASSUME NEW e \in Execs, CancelFlag(e) PROVE BackendAgrees'
  BY <1>34 DEF CancelFlag
<1>35. ASSUME NEW e \in Execs, CancelTake(e) PROVE BackendAgrees'
  BY <1>35 DEF CancelTake
<1>36. ASSUME NEW e \in Execs, NEW r \in Registries, AbandonAll(e, r) PROVE BackendAgrees'
  BY SMTT(30), <1>36 DEF AbandonAll, Orphan
<1>37. ASSUME NEW e \in Execs, CancelReturn(e) PROVE BackendAgrees'
  BY <1>37 DEF CancelReturn
<1>38. CASE UNCHANGED vars
  BY <1>38 DEF vars
<1> HIDE DEF Shape, Owned, Exclusive, Filed, BackendAgrees
<1> QED
  BY <1>1, <1>2, <1>3, <1>4, <1>5, <1>6, <1>7, <1>8, <1>9, <1>10, <1>11, <1>12, <1>13,
     <1>14, <1>15, <1>16, <1>17, <1>18, <1>19, <1>20, <1>21, <1>22, <1>23, <1>24, <1>25,
     <1>26, <1>27, <1>28, <1>29, <1>30, <1>31, <1>32, <1>33, <1>34, <1>35, <1>36, <1>37,
     <1>38 DEF Next, OpenerRuns, CloserRuns, CleanupRuns, CancellerRuns

-----------------------------------------------------------------------------
(* The invariant, and what it says of the backend.                         *)

LEMMA Ownership == Spec => [](Shape /\ Owned)
<1>1. Shape /\ Owned /\ [Next]_vars => Shape' /\ Owned'
  BY ShapeStep, FiledStep, ExclusiveStep, BackendStep DEF Owned
<1> QED
  BY <1>1, InitOwned, PTL DEF Spec

\* No handle is closed or aborted twice, whoever races to release it.
THEOREM ReleaseIsUnique == Spec => []ConsumedOnce
<1>1. Owned => ConsumedOnce
  BY DEF Owned, BackendAgrees, ConsumedOnce
<1> QED
  BY <1>1, Ownership, PTL

-----------------------------------------------------------------------------
(* Cancellation leaves no handle behind.                                   *)

\* A handle its caller can use is in a registry that a cancel() has yet to
\* reach: the registry is listed until the list is taken, and taken until it
\* is abandoned.
Reachable ==
    /\ \A t \in Tasks : opener[t] # "idle" => life[RegistryOf[t]] # "new"
    /\ \A e \in Execs :
         /\ canceller[e] # "idle" => cancelled[e]
         /\ canceller[e] # "abandoning" => pending[e] = {}
         /\ \A r \in Registries :
              ControlOf[r] = e /\ life[r] # "new" /\ ~cancelled[e] => r \in registries[e]
         /\ \A t \in TasksOf(e) :
              InRegistry(t) /\ opener[t] \in {"handoff", "delivered"} =>
                 \/ ~cancelled[e]
                 \/ canceller[e] = "flagged" /\ RegistryOf[t] \in registries[e]
                 \/ RegistryOf[t] \in pending[e]

LEMMA ReachableStep == Shape /\ Owned /\ Reachable /\ [Next]_vars => Reachable'
<1> SUFFICES ASSUME Shape, Owned, Reachable, [Next]_vars PROVE Reachable'
  OBVIOUS
<1> USE OwnerAssumption DEF Shape, Owned, Exclusive, Filed, Reachable, OpenerHas, InRegistry,
    TasksOf, Exec, poolVars, openVars, closeVars, cancelVars
<1>1. ASSUME NEW r \in Registries, Build(r) PROVE Reachable'
  BY <1>1 DEF Build
<1>2. ASSUME NEW r \in Registries, DropRegistry(r) PROVE Reachable'
  BY <1>2 DEF DropRegistry, Orphan
<1>3. ASSUME NEW t \in Tasks, OpenCall(t) PROVE Reachable'
  BY <1>3 DEF OpenCall, Move
<1>4. ASSUME NEW t \in Tasks, OpenPermit(t) PROVE Reachable'
  BY <1>4 DEF OpenPermit, Move
<1>5. ASSUME NEW t \in Tasks, WorkerCheck(t) PROVE Reachable'
  BY <1>5 DEF WorkerCheck, Move
<1>6. ASSUME NEW t \in Tasks, ReservePool(t) PROVE Reachable'
  BY <1>6 DEF ReservePool, Move, AcquirePool
<1>7. ASSUME NEW t \in Tasks, ReserveExec(t) PROVE Reachable'
  BY <1>7 DEF ReserveExec, Move, AcquireExec
<1>8. ASSUME NEW t \in Tasks, Unreserve(t) PROVE Reachable'
  BY <1>8 DEF Unreserve, Move, ReleasePool
<1>9. ASSUME NEW t \in Tasks, BackendOpen(t) PROVE Reachable'
  BY <1>9 DEF BackendOpen, Move
<1>10. ASSUME NEW t \in Tasks, Insert(t) PROVE Reachable'
  BY <1>10 DEF Insert, Move
<1>11. ASSUME NEW t \in Tasks, CheckInserted(t) PROVE Reachable'
  BY <1>11 DEF CheckInserted, Move, IsCancelled
<1>12. ASSUME NEW t \in Tasks, Withdraw(t) PROVE Reachable'
  BY <1>12 DEF Withdraw, Move
<1>13. ASSUME NEW t \in Tasks, OpenAbort(t) PROVE Reachable'
  BY <1>13 DEF OpenAbort, Move, Consume
<1>14. ASSUME NEW t \in Tasks, OpenReleasePool(t) PROVE Reachable'
  BY <1>14 DEF OpenReleasePool, Move, ReleasePool
<1>15. ASSUME NEW t \in Tasks, OpenReleaseExec(t) PROVE Reachable'
  BY <1>15 DEF OpenReleaseExec, Move, ReleaseExec
<1>16. ASSUME NEW t \in Tasks, Deliver(t) PROVE Reachable'
  BY <1>16 DEF Deliver, Move
<1>17. ASSUME NEW t \in Tasks, DropOpen(t) PROVE Reachable'
  BY <1>17 DEF DropOpen, Move
<1>18. ASSUME NEW t \in Tasks, DropHandoff(t) PROVE Reachable'
  BY <1>18 DEF DropHandoff, Move, Abandon, Orphan
<1>19. ASSUME NEW t \in Tasks, DropOwned(t) PROVE Reachable'
  BY <1>19 DEF DropOwned, Abandon, Orphan
<1>20. ASSUME NEW t \in Tasks, CleanupHandle(t) PROVE Reachable'
  BY <1>20 DEF CleanupHandle, Clean
<1>21. ASSUME NEW t \in Tasks, CleanupReceive(t) PROVE Reachable'
  BY <1>21 DEF CleanupReceive, Clean
<1>22. ASSUME NEW t \in Tasks, CleanupAbort(t) PROVE Reachable'
  BY <1>22 DEF CleanupAbort, Clean, Consume
<1>23. ASSUME NEW t \in Tasks, CleanupReleasePool(t) PROVE Reachable'
  BY <1>23 DEF CleanupReleasePool, Clean, ReleasePool
<1>24. ASSUME NEW t \in Tasks, CleanupReleaseExec(t) PROVE Reachable'
  BY <1>24 DEF CleanupReleaseExec, Clean, ReleaseExec
<1>25. ASSUME NEW c \in Closers, NEW t \in Tasks, NEW abort \in BOOLEAN, FinishCall(c, t, abort)
       PROVE  Reachable'
  BY <1>25 DEF FinishCall, Step
<1>26. ASSUME NEW c \in Closers, FinishPermit(c) PROVE Reachable'
  BY <1>26 DEF FinishPermit, Step
<1>27. ASSUME NEW c \in Closers, DropFinish(c) PROVE Reachable'
  BY <1>27 DEF DropFinish, Step
<1>28. ASSUME NEW c \in Closers, FinishRemove(c) PROVE Reachable'
  BY <1>28 DEF FinishRemove, Step
<1>29. ASSUME NEW c \in Closers, FinishCheck(c) PROVE Reachable'
  BY <1>29 DEF FinishCheck, Step
<1>30. ASSUME NEW c \in Closers, FinishBackend(c) PROVE Reachable'
  BY <1>30 DEF FinishBackend, Step, Consume
<1>31. ASSUME NEW c \in Closers, FinishReleasePool(c) PROVE Reachable'
  BY <1>31 DEF FinishReleasePool, Step, ReleasePool
<1>32. ASSUME NEW c \in Closers, FinishReleaseExec(c) PROVE Reachable'
  BY <1>32 DEF FinishReleaseExec, Step, ReleaseExec
<1>33. ASSUME NEW e \in Execs, Expire(e) PROVE Reachable'
  BY <1>33 DEF Expire
<1>34. ASSUME NEW e \in Execs, CancelFlag(e) PROVE Reachable'
  BY <1>34 DEF CancelFlag
<1>35. ASSUME NEW e \in Execs, CancelTake(e) PROVE Reachable'
  BY <1>35 DEF CancelTake
<1>36. ASSUME NEW e \in Execs, NEW r \in Registries, AbandonAll(e, r) PROVE Reachable'
  BY <1>36 DEF AbandonAll, Orphan
<1>37. ASSUME NEW e \in Execs, CancelReturn(e) PROVE Reachable'
  BY <1>37 DEF CancelReturn
<1>38. CASE UNCHANGED vars
  BY <1>38 DEF vars
<1> HIDE DEF Shape, Owned, Exclusive, Filed, Reachable
<1> QED
  BY <1>1, <1>2, <1>3, <1>4, <1>5, <1>6, <1>7, <1>8, <1>9, <1>10, <1>11, <1>12, <1>13,
     <1>14, <1>15, <1>16, <1>17, <1>18, <1>19, <1>20, <1>21, <1>22, <1>23, <1>24, <1>25,
     <1>26, <1>27, <1>28, <1>29, <1>30, <1>31, <1>32, <1>33, <1>34, <1>35, <1>36, <1>37,
     <1>38 DEF Next, OpenerRuns, CloserRuns, CleanupRuns, CancellerRuns

\* Once cancel() has returned, only open calls that have yet to make their own
\* check have a handle in a registry of the execution.
THEOREM CancelStrandsNothing == Spec => []NoneStranded
<1>1. Init => Reachable
  <2> SUFFICES ASSUME Init PROVE Reachable
    OBVIOUS
  <2>1. \A t \in Tasks : opener[t] = "idle" /\ ~InRegistry(t)
    BY OwnerAssumption DEF Init, InRegistry
  <2>2. \A e \in Execs : canceller[e] = "idle" /\ pending[e] = {} /\ ~cancelled[e]
    BY DEF Init
  <2>3. \A r \in Registries : life[r] = "new"
    BY DEF Init
  <2> QED
    BY <2>1, <2>2, <2>3 DEF Reachable, TasksOf
<1>2. Shape /\ Owned /\ Reachable /\ [Next]_vars => Reachable'
  BY ReachableStep
<1>3. Shape /\ Owned /\ Reachable => NoneStranded
  BY OwnerAssumption DEF Owned, Exclusive, Reachable, NoneStranded, InRegistry, TasksOf
<1> QED
  BY <1>1, <1>2, <1>3, Ownership, PTL DEF Spec
=============================================================================
