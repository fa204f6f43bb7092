------------------------------- MODULE MemCow -------------------------------
(***************************************************************************)
(* The contents of InMemoryVfs files (src/vfs/mem.rs): FileNode::data is   *)
(* an Arc<Vec<u8>> that a file system shares with the snapshots taken of   *)
(* it, with the file systems branched from those, and with what it is      *)
(* restored to.  A buffer is changed in place when nobody else holds it    *)
(* and is replaced by a new one otherwise.                                 *)
(*                                                                         *)
(* Names, handles and quotas are in MemVfs; here a file is its inode.      *)
(* Each operation runs under the mutex of its file system.  Another file   *)
(* system may drop its reference meanwhile, which at worst makes the copy  *)
(* superfluous; nobody can gain a reference to a buffer whose only holder  *)
(* is locked.  So each operation is one action.                            *)
(***************************************************************************)
EXTENDS Sequences, Integers, FiniteSets

CONSTANTS
  Systems,   \* InMemoryVfs values
  Snapshots, \* InMemoryVfsSnapshot values
  Inodes,
  Bytes,
  Zero,      \* the byte 0
  Blocks,    \* heap buffers
  NoBlock,
  Offsets,   \* what callers pass to write_at and truncate
  Pieces,
  Sizes,
  Absent

ASSUME HeapAssumption ==
  /\ IsFiniteSet(Systems) /\ IsFiniteSet(Snapshots) /\ IsFiniteSet(Inodes)
  /\ Systems \intersect Snapshots = {}
  /\ Zero \in Bytes /\ NoBlock \notin Blocks
  /\ Absent \notin Seq(Bytes)
  /\ Offsets \subseteq Nat /\ Sizes \subseteq Nat
  /\ Pieces \subseteq Seq(Bytes) \ {<<>>}

VARIABLES
  file,  \* file system or snapshot -> inode -> buffer, or NoBlock
  heap   \* buffer -> its bytes

vars == <<file, heap>>

Holders == Systems \union Snapshots

\* The file system or snapshot without files.
Empty == [i \in Inodes |-> NoBlock]

Init ==
  /\ file = [h \in Holders |-> Empty]
  /\ heap = [b \in Blocks |-> <<>>]

References(b) == {r \in Holders \X Inodes : file[r[1]][r[2]] = b}

\* Arc::strong_count.
StrongCount(b) == Cardinality(References(b))

\* Arc::new: a buffer nobody holds.
Free == {b \in Blocks : References(b) = {}}

-----------------------------------------------------------------------------
(***************************************************************************)
(* Mutants: each is a plausible slip in the definition it stands for.      *)
(***************************************************************************)
ResizedUnfilled(d, n) == [k \in 1..n |-> IF k <= Len(d) THEN d[k] ELSE Absent]

ReplaceInPlace(v, i, d) ==
  /\ file[v][i] # NoBlock
  /\ file' = [file EXCEPT ![v][i] = @]
  /\ heap' = [heap EXCEPT ![file[v][i]] = d]

-----------------------------------------------------------------------------
\* Vec::resize, zero-filled.
Resized(d, n) == [k \in 1..n |-> IF k <= Len(d) THEN d[k] ELSE Zero]

\* write_at: the resize and then the copy.
Overwritten(d, offset, piece) ==
  LET end == offset + Len(piece)
      grown == Resized(d, IF end > Len(d) THEN end ELSE Len(d))
  IN  [k \in DOMAIN grown |->
         IF k \in (offset + 1)..end THEN piece[k - offset] ELSE grown[k]]

\* File i of v gets the buffer b with the bytes d.
Point(v, i, b, d) ==
  /\ file' = [file EXCEPT ![v][i] = b]
  /\ heap' = [heap EXCEPT ![b] = d]

-----------------------------------------------------------------------------
\* Arc::make_mut and what resize_file and write_at store through it, or the
\* prefix resize_file copies out of a shared buffer.
Replace(v, i, d) ==
  /\ file[v][i] # NoBlock
  /\ \/ StrongCount(file[v][i]) = 1 /\ Point(v, i, file[v][i], d)
     \/ StrongCount(file[v][i]) > 1 /\ \E b \in Free : Point(v, i, b, d)

Create(v, i) ==
  /\ file[v][i] = NoBlock
  /\ \E b \in Free : Point(v, i, b, <<>>)

WriteAt(v, i, offset, piece) == Replace(v, i, Overwritten(heap[file[v][i]], offset, piece))

Truncate(v, i, n) == Replace(v, i, Resized(heap[file[v][i]], n))

\* The last name and the last handle of a file are gone.
Release(v, i) ==
  /\ file[v][i] # NoBlock
  /\ file' = [file EXCEPT ![v][i] = NoBlock]
  /\ UNCHANGED heap

\* snapshot: a reference to every buffer that a path reaches.
Snapshot(v, s, reached) ==
  /\ file[s] = Empty
  /\ file' = [file EXCEPT ![s] = [i \in Inodes |-> IF i \in reached THEN file[v][i] ELSE NoBlock]]
  /\ UNCHANGED heap

\* restore, or branch when nothing of v was there yet.
Restore(v, s) ==
  /\ file' = [file EXCEPT ![v] = file[s]]
  /\ UNCHANGED heap

DropHolder(h) ==
  /\ file' = [file EXCEPT ![h] = Empty]
  /\ UNCHANGED heap

Next ==
  \/ \E v \in Systems, i \in Inodes :
       \/ Create(v, i) \/ Release(v, i)
       \/ \E offset \in Offsets, piece \in Pieces : WriteAt(v, i, offset, piece)
       \/ \E n \in Sizes : Truncate(v, i, n)
  \/ \E v \in Systems, s \in Snapshots :
       \/ Restore(v, s)
       \/ \E reached \in SUBSET Inodes : Snapshot(v, s, reached)
  \/ \E h \in Holders : DropHolder(h)

Spec == Init /\ [][Next]_vars

-----------------------------------------------------------------------------
(***************************************************************************)
(* Properties.                                                             *)
(***************************************************************************)
\* Every file has a buffer or none, and every buffer holds bytes.
TypeOK ==
  /\ file \in [Holders -> [Inodes -> Blocks \union {NoBlock}]]
  /\ heap \in [Blocks -> Seq(Bytes)]

Data ==
  [h \in Holders |-> [i \in Inodes |->
     IF file[h][i] = NoBlock THEN Absent ELSE heap[file[h][i]]]]

Copies == INSTANCE MemCopies WITH data <- Data

\* Sharing is invisible: with copy-on-write every file system and every
\* snapshot behaves as if it had copies of its own, so a write or truncate
\* in one changes no other, and a snapshot reads as it did when taken.
CopiesImplemented == Copies!Spec
=============================================================================
