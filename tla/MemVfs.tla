------------------------------- MODULE MemVfs -------------------------------
(***************************************************************************)
(* InMemoryVfs (src/vfs/mem.rs): a tree of directories and files, an inode *)
(* table that outlives the names pointing into it, open handles, running   *)
(* totals checked against a quota, and snapshots.                          *)
(*                                                                         *)
(* Every operation runs under the one state mutex, so each is one action.  *)
(* A call that returns an error changes nothing and is a stuttering step:  *)
(* the guard of an action is the conjunction of the checks the call must   *)
(* pass.  stat, readdir and read_at change nothing.  A file's bytes are    *)
(* abstracted to their number; MemCow keeps the bytes and the sharing.     *)
(*                                                                         *)
(* A path is the sequence of components normalize_path returns, and the    *)
(* tree is the set of its directories' paths together with the function    *)
(* from its files' paths to inodes.  The root is <<>> and is in neither.   *)
(***************************************************************************)
EXTENDS Integers, Sequences, FiniteSets, Functions

CONSTANTS
  Names,       \* path components
  MaxDepth,    \* MAX_PATH_DEPTH
  MaxBytes,    \* VfsQuota::max_bytes
  MaxFiles,    \* VfsQuota::max_files
  MaxFileSize, \* VfsQuota::max_file_size
  Offsets,     \* the offsets and lengths callers pass
  Snapshots,   \* the snapshot values callers keep
  NoSnapshot,
  MaxInode,    \* bounds on the counters next_inode and next_handle
  MaxHandle

QuotaAssumption ==
  /\ {MaxDepth, MaxBytes, MaxFiles, MaxFileSize, MaxInode, MaxHandle} \subseteq Nat
  /\ Offsets \subseteq Nat

VARIABLES
  dirs,        \* paths of the directories below the root
  entries,     \* path -> inode, for the files
  files,       \* inode -> FileNode
  nextInode,
  handles,     \* open handle -> Handle
  nextHandle,
  usedBytes,
  fileCount,
  saved,       \* snapshot -> SnapshotState
  retired      \* history: the handles that close or restore have taken back

tree == <<dirs, entries>>
totals == <<usedBytes, fileCount>>
history == <<saved, retired>>
vars == <<tree, files, nextInode, handles, nextHandle, totals, history>>

\* What normalize_path accepts, the root apart.
Paths == UNION {[1..n -> Names] : n \in 1..MaxDepth}

FileNode == [len : Nat, links : Nat, open : Nat]
Handle == [inode : Nat, writable : BOOLEAN, append : BOOLEAN]

\* The sum of the values of a function into the naturals.
TotalLen(len) == Cardinality(UNION {{x} \X (1..len[x]) : x \in DOMAIN len})

Init ==
  /\ dirs = {} /\ entries = <<>> /\ files = <<>> /\ handles = <<>>
  /\ nextInode = 1 /\ nextHandle = 1
  /\ usedBytes = 0 /\ fileCount = 0
  /\ saved = [s \in Snapshots |-> NoSnapshot]
  /\ retired = {}

Parent(p) == SubSeq(p, 1, Len(p) - 1)
HasPrefix(p, q) == Len(q) <= Len(p) /\ SubSeq(p, 1, Len(q)) = q
Below(p, q) == HasPrefix(p, q) /\ p # q

Exists(p) == p \in dirs \union DOMAIN entries
ParentIsDir(p) == Parent(p) \in dirs \union {<<>>}
Children(p) == {q \in dirs \union DOMAIN entries : Below(q, p)}
EntrySlotFree == fileCount < MaxFiles

Without(f, x) == Restrict(f, DOMAIN f \ {x})
With(f, x, y) == [z \in DOMAIN f \union {x} |-> IF z = x THEN y ELSE f[z]]

-----------------------------------------------------------------------------
(***************************************************************************)
(* Mutants: each is a plausible slip in the definition it stands for.      *)
(***************************************************************************)
ReleaseOnUnlink(i, node) ==
  IF node.links > 0
    THEN /\ files' = [files EXCEPT ![i] = node]
         /\ UNCHANGED totals
    ELSE /\ files' = Without(files, i)
         /\ usedBytes' = usedBytes - node.len
         /\ fileCount' = fileCount - 1

ResizeAnyTotal(i, n) ==
  /\ n <= MaxFileSize
  /\ usedBytes' = usedBytes + n - files[i].len
  /\ files' = [files EXCEPT ![i].len = n]

SubtreeFitsUnchecked(from, to) == from \in dirs => ~HasPrefix(to, from)

FromSnapshotAfresh(state, next) ==
  /\ dirs' = state.dirs /\ entries' = state.entries
  /\ files' = [i \in DOMAIN state.size |-> [len |-> state.size[i], links |-> 1, open |-> 0]]
  /\ nextInode' = state.nextInode
  /\ handles' = <<>> /\ nextHandle' = 1
  /\ usedBytes' = state.usedBytes /\ fileCount' = state.fileCount

-----------------------------------------------------------------------------
(***************************************************************************)
(* The inode table.                                                        *)
(***************************************************************************)
\* release_file_if_unreferenced, node being inode i's entry after its count
\* of links or of handles went down: a file goes, and its bytes and its
\* entry are given back, when neither a name nor a handle is left.
Release(i, node) ==
  IF node.links > 0 \/ node.open > 0
    THEN /\ files' = [files EXCEPT ![i] = node]
         /\ UNCHANGED totals
    ELSE /\ files' = Without(files, i)
         /\ usedBytes' = usedBytes - node.len
         /\ fileCount' = fileCount - 1

\* remove_tree of a file node.
Unname(i) == Release(i, [files[i] EXCEPT !.links = @ - 1])

\* resize_file.
Resize(i, n) ==
  /\ n <= MaxFileSize
  /\ usedBytes + n - files[i].len <= MaxBytes
  /\ usedBytes' = usedBytes + n - files[i].len
  /\ files' = [files EXCEPT ![i].len = n]

\* The tail of open: a new handle on inode i, whose node is node.
Hand(i, node, mode, table) ==
  /\ nextHandle < MaxHandle
  /\ handles' = With(handles, nextHandle,
                     [inode |-> i, writable |-> mode.write, append |-> mode.append])
  /\ nextHandle' = nextHandle + 1
  /\ files' = With(table, i, [node EXCEPT !.open = @ + 1])

-----------------------------------------------------------------------------
(***************************************************************************)
(* Names.                                                                  *)
(***************************************************************************)
Mkdir(p) ==
  /\ ~Exists(p) /\ ParentIsDir(p) /\ EntrySlotFree
  /\ dirs' = dirs \union {p}
  /\ fileCount' = fileCount + 1
  /\ UNCHANGED <<entries, files, nextInode, handles, nextHandle, usedBytes, history>>

Unlink(p) ==
  /\ p \in DOMAIN entries
  /\ entries' = Without(entries, p)
  /\ Unname(entries[p])
  /\ UNCHANGED <<dirs, nextInode, handles, nextHandle, history>>

Rmdir(p) ==
  /\ p \in dirs /\ Children(p) = {}
  /\ dirs' = dirs \ {p}
  /\ fileCount' = fileCount - 1
  /\ UNCHANGED <<entries, files, nextInode, handles, nextHandle, usedBytes, history>>

\* Where rename(from, to) takes a path.
Moved(from, to, p) ==
  IF HasPrefix(p, from) THEN to \o SubSeq(p, Len(from) + 1, Len(p)) ELSE p

\* A directory moves neither into itself nor deeper than a path can reach.
MoveAllowed(from, to) ==
  from \in dirs =>
    /\ ~HasPrefix(to, from)
    /\ \A p \in Children(from) : Len(Moved(from, to, p)) <= MaxDepth

\* What is replaced at to: nothing, a file by a file, or an empty directory
\* by a directory.
Rename(from, to) ==
  /\ Exists(from) /\ from # to
  /\ MoveAllowed(from, to) /\ ParentIsDir(to)
  /\ \/ ~Exists(to) /\ UNCHANGED <<files, totals>>
     \/ {from, to} \subseteq DOMAIN entries /\ Unname(entries[to])
     \/ /\ {from, to} \subseteq dirs /\ Children(to) = {}
        /\ fileCount' = fileCount - 1
        /\ UNCHANGED <<files, usedBytes>>
  /\ dirs' = {Moved(from, to, p) : p \in dirs \ {to}}
  /\ LET kept == DOMAIN entries \ {to}
     IN  entries' = [q \in {Moved(from, to, p) : p \in kept} |->
                       entries[CHOOSE p \in kept : Moved(from, to, p) = q]]
  /\ UNCHANGED <<nextInode, handles, nextHandle, history>>

-----------------------------------------------------------------------------
(***************************************************************************)
(* Handles.                                                                *)
(***************************************************************************)
\* The open modes that OpenMode::validate lets through.  The read flag only
\* decides what read_at answers; without write it must be set.
Modes ==
  {mode \in [write : BOOLEAN, append : BOOLEAN, truncate : BOOLEAN,
             create : BOOLEAN, createNew : BOOLEAN] :
     mode.truncate \/ mode.append => mode.write}

OpenExisting(p, mode) ==
  /\ p \in DOMAIN entries /\ ~mode.createNew
  /\ LET i == entries[p]
         kept == IF mode.truncate THEN 0 ELSE files[i].len
     IN  /\ Hand(i, [files[i] EXCEPT !.len = kept], mode, files)
         /\ usedBytes' = usedBytes + kept - files[i].len
  /\ UNCHANGED <<tree, nextInode, fileCount, history>>

OpenCreate(p, mode) ==
  /\ ~Exists(p) /\ ParentIsDir(p)
  /\ mode.create \/ mode.createNew
  /\ EntrySlotFree /\ nextInode < MaxInode
  /\ Hand(nextInode, [len |-> 0, links |-> 1, open |-> 0], mode, files)
  /\ entries' = With(entries, p, nextInode)
  /\ nextInode' = nextInode + 1
  /\ fileCount' = fileCount + 1
  /\ UNCHANGED <<dirs, usedBytes, history>>

\* write_at of n bytes, at the end of the file for a handle in append mode.
WriteAt(h, offset, n) ==
  /\ h \in DOMAIN handles /\ handles[h].writable /\ n > 0
  /\ LET i == handles[h].inode
         end == n + (IF handles[h].append THEN files[i].len ELSE offset)
     IN  Resize(i, IF end > files[i].len THEN end ELSE files[i].len)
  /\ UNCHANGED <<tree, nextInode, handles, nextHandle, fileCount, history>>

Truncate(h, n) ==
  /\ h \in DOMAIN handles /\ handles[h].writable
  /\ Resize(handles[h].inode, n)
  /\ UNCHANGED <<tree, nextInode, handles, nextHandle, fileCount, history>>

Close(h) ==
  /\ h \in DOMAIN handles
  /\ handles' = Without(handles, h)
  /\ LET i == handles[h].inode IN Release(i, [files[i] EXCEPT !.open = @ - 1])
  /\ retired' = retired \union {h}
  /\ UNCHANGED <<tree, nextInode, nextHandle, saved>>

-----------------------------------------------------------------------------
(***************************************************************************)
(* Snapshots.  One keeps what paths can reach, with totals of its own:     *)
(* an unlinked file that handles keep alive is in the live totals only.    *)
(***************************************************************************)
SnapshotState ==
  [dirs |-> dirs, entries |-> entries, nextInode |-> nextInode,
   size |-> [i \in Range(entries) |-> files[i].len],
   usedBytes |-> TotalLen([p \in DOMAIN entries |-> files[entries[p]].len]),
   fileCount |-> Cardinality(dirs) + Cardinality(DOMAIN entries)]

Snapshot(s) ==
  /\ saved' = [saved EXCEPT ![s] = SnapshotState]
  /\ UNCHANGED <<tree, files, nextInode, handles, nextHandle, totals, retired>>

FitsQuota(state) ==
  /\ state.usedBytes <= MaxBytes /\ state.fileCount <= MaxFiles
  /\ \A i \in DOMAIN state.size : state.size[i] <= MaxFileSize

\* State::from_snapshot: one link for every file, no handles.
FromSnapshot(state, next) ==
  /\ dirs' = state.dirs /\ entries' = state.entries
  /\ files' = [i \in DOMAIN state.size |-> [len |-> state.size[i], links |-> 1, open |-> 0]]
  /\ nextInode' = state.nextInode
  /\ handles' = <<>> /\ nextHandle' = next
  /\ usedBytes' = state.usedBytes /\ fileCount' = state.fileCount

\* The handle numbers carry on, so a handle from before the restore is EBADF.
Restore(s) ==
  /\ saved[s] # NoSnapshot /\ FitsQuota(saved[s])
  /\ FromSnapshot(saved[s], nextHandle)
  /\ retired' = retired \union DOMAIN handles
  /\ UNCHANGED saved

\* branch: a second file system with the same quota.  The specification
\* follows it from here on; its callers hold no handle yet.
Branch(s) ==
  /\ saved[s] # NoSnapshot /\ FitsQuota(saved[s])
  /\ FromSnapshot(saved[s], 1)
  /\ retired' = {}
  /\ UNCHANGED saved

-----------------------------------------------------------------------------
Next ==
  \/ \E p \in Paths : Mkdir(p) \/ Unlink(p) \/ Rmdir(p)
  \/ \E from, to \in Paths : Rename(from, to)
  \/ \E p \in Paths, mode \in Modes : OpenExisting(p, mode) \/ OpenCreate(p, mode)
  \/ \E h \in DOMAIN handles, offset, n \in Offsets : WriteAt(h, offset, n)
  \/ \E h \in DOMAIN handles, n \in Offsets : Truncate(h, n)
  \/ \E h \in DOMAIN handles : Close(h)
  \/ \E s \in Snapshots : Snapshot(s) \/ Restore(s) \/ Branch(s)

Spec == Init /\ [][Next]_vars

-----------------------------------------------------------------------------
(***************************************************************************)
(* Properties.                                                             *)
(***************************************************************************)
\* Every variable has its type; the unsigned totals and counts of mem.rs
\* (used_bytes, file_count, links, open_handles) never go below zero.
TypeOK ==
  /\ dirs \subseteq Paths
  /\ DOMAIN entries \subseteq Paths /\ Range(entries) \subseteq Nat
  /\ DOMAIN files \subseteq Nat /\ Range(files) \subseteq FileNode
  /\ DOMAIN handles \subseteq Nat /\ Range(handles) \subseteq Handle
  /\ {nextInode, nextHandle, usedBytes, fileCount} \subseteq Nat

\* The running totals are exact: used_bytes is the sum of the lengths of all
\* stored files, and file_count the number of directories and files, in both
\* cases counting the files that only a handle keeps alive, after any mix of
\* resizes, renames over a target, unlinks of open files and restores.
TotalsExact ==
  /\ usedBytes = TotalLen([i \in DOMAIN files |-> files[i].len])
  /\ fileCount = Cardinality(dirs) + Cardinality(DOMAIN files)

\* The quota holds at every moment, restored states included: total bytes,
\* number of entries and the size of each file.  A snapshot always fits the
\* quota it was taken under, so restore and branch never refuse it, whatever
\* was written since.
WithinQuota ==
  /\ usedBytes <= MaxBytes /\ fileCount <= MaxFiles
  /\ \A i \in DOMAIN files : files[i].len <= MaxFileSize
  /\ \A s \in Snapshots : saved[s] # NoSnapshot => FitsQuota(saved[s])

\* Both: the counters that the quota is checked against are the exact totals,
\* and they are within it (InMemoryVfs::write_at, truncate, restore).
TotalsWithinQuota == TotalsExact /\ WithinQuota

\* The inode table holds exactly the referenced files: links and open_handles
\* count the names and the handles of each file, no name or handle dangles
\* (the ENOENT branches on files.get never run), and no file outlives its
\* last reference.
References ==
  /\ Range(entries) \subseteq DOMAIN files
  /\ \A h \in DOMAIN handles : handles[h].inode \in DOMAIN files
  /\ \A i \in DOMAIN files :
       /\ files[i].links = Cardinality({p \in DOMAIN entries : entries[p] = i})
       /\ files[i].open = Cardinality({h \in DOMAIN handles : handles[h].inode = i})
       /\ files[i].links + files[i].open > 0

\* The names form one tree that paths can reach: every entry lies in a
\* directory that exists, at a depth normalize_path accepts, and no path is
\* both a file and a directory; rename keeps this for whole subtrees.
OneTree ==
  /\ dirs \intersect DOMAIN entries = {}
  /\ \A p \in dirs \union DOMAIN entries : ParentIsDir(p) /\ Len(p) <= MaxDepth

\* Both: what the tree, the handles and the open files say of each other
\* agrees (InMemoryVfs::open, close, unlink, rmdir, rename, restore).
TreeSound == References /\ OneTree

\* A handle that was closed, or that was open when the state was restored,
\* never names an open file again.
RetiredStayClosed == retired \intersect DOMAIN handles = {}
=============================================================================
