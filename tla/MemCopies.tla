------------------------------ MODULE MemCopies -----------------------------
(***************************************************************************)
(* What InMemoryVfs promises about file contents across snapshots, with no *)
(* sharing at all: every file system and every snapshot has copies of its  *)
(* own, an operation on a file changes that file of that file system and   *)
(* nothing else, and a snapshot stays as it was taken until it is dropped. *)
(***************************************************************************)
EXTENDS Sequences

CONSTANTS Systems, Snapshots, Inodes, Bytes, Absent

VARIABLE data  \* file system or snapshot -> inode -> its bytes, or Absent

Nothing == [i \in Inodes |-> Absent]

Init == data = [h \in Systems \union Snapshots |-> Nothing]

\* A file is created, written, truncated or removed.
Change(v, i) ==
  /\ data'[v][i] \in Seq(Bytes) \union {Absent}
  /\ data' = [data EXCEPT ![v] = [@ EXCEPT ![i] = data'[v][i]]]

\* A snapshot of the files that paths reach.
Take(v, s, reached) ==
  /\ data[s] = Nothing
  /\ data' = [data EXCEPT ![s] = [i \in Inodes |-> IF i \in reached THEN data[v][i] ELSE Absent]]

\* restore, or branch.
Return(s, v) == data' = [data EXCEPT ![v] = data[s]]

Drop(h) == data' = [data EXCEPT ![h] = Nothing]

Next ==
  \/ \E v \in Systems, i \in Inodes : Change(v, i)
  \/ \E v \in Systems, s \in Snapshots : Return(s, v) \/ \E reached \in SUBSET Inodes : Take(v, s, reached)
  \/ \E h \in Systems \union Snapshots : Drop(h)

Spec == Init /\ [][Next]_data
=============================================================================
