---------------------------- MODULE VfsContract ----------------------------
(* The conformance suites run on the contract itself: one call per step.    *)
EXTENDS VfsConformance

VARIABLES todo,           \* the calls of the test that are left
          v, other,       \* the file system, and the other side of a branch
          saved,          \* the snapshot
          names,          \* the handles, by the test's names
          last            \* the answer of the last call and the call

contractVars == <<todo, v, other, saved, names, last>>

ContractInit ==
    /\ \E t \in Suite \cup SnapshotSuite : todo = t.calls /\ v = NewVfs(t.quota, FALSE)
    /\ other = v
    /\ saved = v
    /\ names = <<>>
    /\ last = [expect |-> "ok", res |-> "ok"]

Norm(raw) == NormalizePath(raw, MaxPathDepth)
Handle(call) == IF call.h \in DOMAIN names THEN names[call.h] ELSE 0

\* A path call on the normal form of its path.
OnNormal(call) ==
    LET p == Norm(call.path).parts
    IN  CASE ~Norm(call.path).ok -> Error(v, "EINVAL")
          [] call.op = "stat" -> Stat(v, p)
          [] call.op = "readdir" -> Readdir(v, p)
          [] call.op = "mkdir" -> Mkdir(v, p)
          [] call.op = "unlink" -> UnlinkFile(v, p)
          [] call.op = "rmdir" -> Rmdir(v, p)
          [] call.op = "rename" -> Rename(v, p, Norm(call.to).parts)
          [] call.op = "open" -> Open(v, p, call.mode)
OnHandle(call) ==
    CASE call.op = "read" -> ReadAt(v, Handle(call), call.off, call.len)
      [] call.op = "write" -> WriteAt(v, Handle(call), call.off, call.bytes)
      [] call.op = "truncate" -> TruncateTo(v, Handle(call), call.len)
      [] call.op = "close" -> Close(v, Handle(call))
OnTree(call) ==
    CASE call.op = "stats" -> Answer(v, "ok", <<UsedBytes(v), FileCount(v)>>)
      [] call.op = "restore" -> Restore(v, saved)
      [] call.op = "smaller" -> Done(NewVfs([v.quota EXCEPT !.bytes = @ - 1], FALSE))
      [] call.op = "branch" -> Done(saved)
      [] call.op = "switch" -> Done(other)
      [] call.op = "snapshot" -> Done(v)

Answered(call) == IF "path" \in DOMAIN call THEN OnNormal(call) ELSE IF "h" \in DOMAIN call THEN OnHandle(call) ELSE OnTree(call)

ContractStep ==
    /\ todo # <<>>
    /\ \E a \in {Answered(Head(todo))} :
         LET call == Head(todo)
         IN  /\ v' = a.v
             /\ other' = IF call.op \in {"branch", "switch"} THEN v ELSE other
             /\ saved' = IF call.op = "snapshot" THEN Snapshot(v) ELSE saved
             /\ names' = IF call.op = "open" /\ a.res = "ok" THEN call.h :> a.val @@ names ELSE names
             /\ last' = [expect |-> call.expect, res |-> a.res,
                         val |-> IF "val" \in DOMAIN call THEN <<a.val = call.val>> ELSE <<>>]
             /\ todo' = Tail(todo)

ContractEnd == todo = <<>> /\ UNCHANGED contractVars
ContractNext == ContractStep \/ ContractEnd
ContractSpec == ContractInit /\ [][ContractNext]_contractVars

(* The contract the file tools are composed with answers every call of the  *)
(* repository's conformance suites as its tests assert, holes, quotas,      *)
(* unlinked files that are still open and snapshots included.               *)
ContractConforms ==
    /\ last.res = last.expect
    /\ "val" \in DOMAIN last /\ last.val # <<>> => last.val[1]
=============================================================================
