---------------------------- MODULE MemCowProofs ----------------------------
(***************************************************************************)
(* Copy-on-write gives every file system and every snapshot of MemCow      *)
(* copies of its own, for any number of them and any contents.             *)
(*                                                                         *)
(* The argument: a buffer is changed in place only when its strong count   *)
(* is one, and then no other file anywhere refers to it (Alone); otherwise *)
(* the changed buffer is one that nobody referred to.  Either way exactly  *)
(* one file of one holder reads differently afterwards (PointStep).        *)
(***************************************************************************)
EXTENDS MemCow, FiniteSetTheorems, TLAPS

\* Truncating or extending yields bytes again.
LEMMA ResizedType ==
  ASSUME NEW d \in Seq(Bytes), NEW n \in Nat
  PROVE  Resized(d, n) \in Seq(Bytes)
BY HeapAssumption DEF Resized

\* So does writing a piece, gap included.
LEMMA OverwrittenType ==
  ASSUME NEW d \in Seq(Bytes), NEW offset \in Nat, NEW piece \in Seq(Bytes)
  PROVE  Overwritten(d, offset, piece) \in Seq(Bytes)
<1> DEFINE end == offset + Len(piece)
           n == IF end > Len(d) THEN end ELSE Len(d)
<1>1. n \in Nat
  OBVIOUS
<1>2. Resized(d, n) \in Seq(Bytes) /\ DOMAIN Resized(d, n) = 1..n
  BY <1>1, ResizedType DEF Resized
<1>3. \A k \in (offset + 1)..end : piece[k - offset] \in Bytes
  OBVIOUS
<1>4. \A k \in 1..n : Resized(d, n)[k] \in Bytes
  BY <1>1, <1>2
<1>5. Overwritten(d, offset, piece) =
        [k \in 1..n |-> IF k \in (offset + 1)..end THEN piece[k - offset] ELSE Resized(d, n)[k]]
  BY <1>2 DEF Overwritten
<1> HIDE DEF n, end
<1> QED
  BY <1>1, <1>3, <1>4, <1>5

\* A strong count of one means one file.
LEMMA Alone ==
  ASSUME TypeOK, NEW v \in Holders, NEW i \in Inodes, NEW h \in Holders, NEW j \in Inodes,
         StrongCount(file[v][i]) = 1, file[h][j] = file[v][i]
  PROVE  h = v /\ j = i
<1> DEFINE R == References(file[v][i])
<1>1. IsFiniteSet(Holders \X Inodes)
  <2>1. IsFiniteSet(Holders)
    BY HeapAssumption, FS_Union DEF Holders
  <2> QED
    BY <2>1, HeapAssumption, FS_Product
<1>2. IsFiniteSet(R)
  BY <1>1, FS_Subset DEF References
<1>3. PICK r : R = {r}
  BY <1>2, FS_Singleton DEF StrongCount
<1>4. <<v, i>> \in R /\ <<h, j>> \in R
  BY DEF References
<1> QED
  BY <1>3, <1>4

\* Arc::new returns a buffer that no file refers to.
LEMMA FreeUnheld ==
  ASSUME NEW b \in Free
  PROVE  b \in Blocks /\ \A h \in Holders, j \in Inodes : file[h][j] # b
<1>1. \A h \in Holders, j \in Inodes : file[h][j] = b => <<h, j>> \in References(b)
  BY DEF References
<1> QED
  BY <1>1 DEF Free

\* Giving one file of v a buffer that no other file refers to changes what
\* that file reads and nothing else.
LEMMA PointStep ==
  ASSUME TypeOK, NEW v \in Systems, NEW i \in Inodes, NEW b \in Blocks, NEW d \in Seq(Bytes),
         \A h \in Holders, j \in Inodes : file[h][j] = b => h = v /\ j = i,
         Point(v, i, b, d)
  PROVE  TypeOK' /\ Copies!Next
<1>1. TypeOK'
  BY DEF TypeOK, Point, Holders
<1>2. Data'[v][i] = d
  BY HeapAssumption DEF Data, Point, TypeOK, Holders
<1>3. \A h \in Holders, j \in Inodes : h # v \/ j # i => Data'[h][j] = Data[h][j]
  BY DEF Data, Point, TypeOK, Holders
<1>4. Copies!Change(v, i)
  <2>1. Data' = [h \in Holders |-> [j \in Inodes |-> Data'[h][j]]]
    BY DEF Data
  <2>2. Data = [h \in Holders |-> [j \in Inodes |-> Data[h][j]]]
    BY DEF Data
  <2>3. Data' = [Data EXCEPT ![v] = [@ EXCEPT ![i] = Data'[v][i]]]
    <3>1. Data'[v] = [Data[v] EXCEPT ![i] = Data'[v][i]]
      <4>1. Data'[v] = [j \in Inodes |-> Data'[v][j]]
        BY <2>1, Zenon DEF Holders
      <4>2. Data[v] = [j \in Inodes |-> Data[v][j]]
        BY <2>2, Zenon DEF Holders
      <4>3. \A j \in Inodes : j # i => Data'[v][j] = Data[v][j]
        BY <1>3 DEF Holders
      <4> QED
        BY <4>1, <4>2, <4>3
    <3>2. \A h \in Holders : h # v => Data'[h] = Data[h]
      BY <1>3, <2>1, <2>2
    <3> QED
      BY <3>1, <3>2, <2>1, <2>2 DEF Holders
  <2> QED
    BY <1>2, <2>3 DEF Copies!Change
<1> QED
  BY <1>1, <1>4 DEF Copies!Next

\* The two branches of Arc::make_mut.
LEMMA ReplaceStep ==
  ASSUME TypeOK, NEW v \in Systems, NEW i \in Inodes, NEW d \in Seq(Bytes), Replace(v, i, d)
  PROVE  TypeOK' /\ Copies!Next
<1>1. file[v][i] \in Blocks
  BY DEF Replace, TypeOK, Holders
<1>2. CASE StrongCount(file[v][i]) = 1 /\ Point(v, i, file[v][i], d)
  <2>1. \A h \in Holders, j \in Inodes : file[h][j] = file[v][i] => h = v /\ j = i
    BY <1>2, Alone DEF Holders
  <2> QED
    BY <1>1, <1>2, <2>1, PointStep
<1>3. CASE \E b \in Free : Point(v, i, b, d)
  BY <1>3, FreeUnheld, PointStep
<1> QED
  BY <1>2, <1>3 DEF Replace

\* Every step of the file systems is a step of the specification without
\* sharing.
LEMMA NextStep ==
  ASSUME TypeOK, Next
  PROVE  TypeOK' /\ Copies!Next
<1>1. ASSUME NEW v \in Systems, NEW i \in Inodes, Create(v, i)
      PROVE  TypeOK' /\ Copies!Next
  <2>1. PICK b \in Free : Point(v, i, b, <<>>)
    BY <1>1 DEF Create
  <2>2. <<>> \in Seq(Bytes)
    OBVIOUS
  <2>3. b \in Blocks /\ \A h \in Holders, j \in Inodes : file[h][j] # b
    BY FreeUnheld
  <2> QED
    BY <2>1, <2>2, <2>3, PointStep
<1>2. ASSUME NEW v \in Systems, NEW i \in Inodes, Release(v, i)
      PROVE  TypeOK' /\ Copies!Next
  <2>1. TypeOK'
    BY <1>2 DEF TypeOK, Release, Holders
  <2>2. Copies!Change(v, i)
    BY <1>2 DEF Copies!Change, Data, Release, TypeOK, Holders
  <2> QED
    BY <2>1, <2>2 DEF Copies!Next
<1>3. ASSUME NEW v \in Systems, NEW i \in Inodes, NEW offset \in Offsets, NEW piece \in Pieces,
             WriteAt(v, i, offset, piece)
      PROVE  TypeOK' /\ Copies!Next
  <2>1. heap[file[v][i]] \in Seq(Bytes)
    BY <1>3 DEF WriteAt, Replace, TypeOK, Holders
  <2> QED
    BY <1>3, <2>1, OverwrittenType, ReplaceStep, HeapAssumption DEF WriteAt
<1>4. ASSUME NEW v \in Systems, NEW i \in Inodes, NEW n \in Sizes, Truncate(v, i, n)
      PROVE  TypeOK' /\ Copies!Next
  <2>1. heap[file[v][i]] \in Seq(Bytes)
    BY <1>4 DEF Truncate, Replace, TypeOK, Holders
  <2> QED
    BY <1>4, <2>1, ResizedType, ReplaceStep, HeapAssumption DEF Truncate
<1>5. ASSUME NEW v \in Systems, NEW s \in Snapshots, Restore(v, s)
      PROVE  TypeOK' /\ Copies!Next
  <2>1. TypeOK'
    BY <1>5 DEF TypeOK, Restore, Holders
  <2>2. Copies!Return(s, v)
    BY <1>5 DEF Copies!Return, Data, Restore, TypeOK, Holders
  <2> QED
    BY <2>1, <2>2 DEF Copies!Next
<1>6. ASSUME NEW v \in Systems, NEW s \in Snapshots, NEW reached \in SUBSET Inodes,
             Snapshot(v, s, reached)
      PROVE  TypeOK' /\ Copies!Next
  <2>1. TypeOK'
    BY <1>6 DEF TypeOK, Snapshot, Holders
  <2>2. Copies!Take(v, s, reached)
    BY <1>6 DEF Copies!Take, Copies!Nothing, Data, Snapshot, Empty, TypeOK, Holders
  <2> QED
    BY <2>1, <2>2 DEF Copies!Next
<1>7. ASSUME NEW h \in Holders, DropHolder(h)
      PROVE  TypeOK' /\ Copies!Next
  <2>1. TypeOK'
    BY <1>7 DEF TypeOK, DropHolder, Empty, Holders
  <2>2. Copies!Drop(h)
    BY <1>7 DEF Copies!Drop, Copies!Nothing, Data, DropHolder, Empty, TypeOK, Holders
  <2> QED
    BY <2>1, <2>2 DEF Copies!Next, Holders
<1> QED
  BY <1>1, <1>2, <1>3, <1>4, <1>5, <1>6, <1>7 DEF Next

\* Copy-on-write in InMemoryVfs is invisible: every file system and every
\* snapshot behaves as if nothing were shared, for any number of file
\* systems, snapshots and files and any contents.
THEOREM CopyOnWrite == Spec => CopiesImplemented
<1>1. Init => TypeOK /\ Copies!Init
  BY DEF Init, TypeOK, Empty, Copies!Init, Copies!Nothing, Data, Holders
<1>2. TypeOK /\ [Next]_vars => TypeOK' /\ [Copies!Next]_Data
  <2>1. CASE Next
    BY <2>1, NextStep
  <2>2. CASE UNCHANGED vars
    BY <2>2 DEF vars, TypeOK, Data
  <2> QED
    BY <2>1, <2>2
<1> QED
  BY <1>1, <1>2, PTL DEF Spec, CopiesImplemented, Copies!Spec

\* Every file of every file system and snapshot of InMemoryVfs has one buffer
\* or none, and every buffer holds bytes, whatever is written, cut, cloned,
\* restored or dropped.
THEOREM CowTypes == Spec => []TypeOK
<1>1. Init => TypeOK
  BY DEF Init, TypeOK, Empty, Holders
<1>2. TypeOK /\ [Next]_vars => TypeOK'
  <2>1. CASE Next
    BY <2>1, NextStep
  <2>2. CASE UNCHANGED vars
    BY <2>2 DEF vars, TypeOK
  <2> QED
    BY <2>1, <2>2
<1> QED
  BY <1>1, <1>2, PTL DEF Spec
=============================================================================
