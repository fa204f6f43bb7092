------------------------------ MODULE LocalVfs ------------------------------
(***************************************************************************)
(* The local directory file system (src/vfs/local.rs).  The host's tree is *)
(* a set of inodes; a call first opens the directories of its paths one    *)
(* component at a time, without the mutex, and then runs under the mutex   *)
(* on the parents it holds open.  Usage is counted beside the tree, and    *)
(* the host may change the tree behind the file system.                    *)
(***************************************************************************)
EXTENDS Naturals, Sequences, FiniteSets, SequencesExt, FiniteSetsExt, Functions, TLC, VfsPath

CONSTANTS Callers, Handles,
          Scripts,           \* a tree, a quota and the calls each caller makes
          MaxPathDepth,
          MaxHost,           \* changes the host makes
          MaxErrors          \* writes that fail in the host

VARIABLES nodes,     \* inodes: directories hold a function from names to inodes
          handles,   \* State::handles
          openFiles, \* State::open_files: handle count and unlinked flag by key
          used, count,   \* State::used_bytes and file_count
          quota,     \* LocalVfs::quota
          call, host, errors,
          skewed,    \* history: the host changed the tree since the last scan
          moved      \* history: a directory was renamed while a call held it open

vars == <<nodes, handles, openFiles, used, count, quota, call, host, errors, skewed, moved>>

Root == 0
NoEntry == [kind |-> "none"]
Op(c) == Head(call[c].todo)
At(c, pc) == call[c].pc = pc

Monus(a, b) == IF a > b THEN a - b ELSE 0

\* What is below a directory, with the depth it is found at.
Reach[n \in 0 .. MaxPathDepth + 3, ino \in Nat] ==
    IF n = 0 \/ nodes[ino].kind # "dir" THEN {}
    ELSE UNION {{<<nodes[ino].ents[name], MaxPathDepth + 4 - n>>} \cup Reach[n - 1, nodes[ino].ents[name]] :
                   name \in DOMAIN nodes[ino].ents}
Below(ino) == {p[1] : p \in Reach[MaxPathDepth + 3, ino]}
Depths(ino) == {p[2] : p \in {q \in Reach[MaxPathDepth + 3, ino] : nodes[q[1]].kind # "other"}}

\* lookup: one entry of an open directory, no link followed.
Lookup(dir, name) ==
    IF name \in DOMAIN nodes[dir].ents
    THEN [ino |-> nodes[dir].ents[name]] @@ nodes[nodes[dir].ents[name]] ELSE NoEntry
Link(dir, name, ino) == [nodes EXCEPT ![dir].ents = [n \in DOMAIN @ \cup {name} |-> IF n = name THEN ino ELSE @[n]]]
Unlink(ns, dir, name) == [ns EXCEPT ![dir].ents = Restrict(@, DOMAIN @ \ {name})]
Linked(dir) == dir \in {Root} \cup Below(Root)
NewInode == Cardinality(DOMAIN nodes)

Visible == {i \in Below(Root) : nodes[i].kind # "other"}
Unlinked == {i \in DOMAIN openFiles : openFiles[i].unlinked}
Size(inos) == FoldSet(LAMBDA i, sum : sum + nodes[i].len, 0, {i \in inos : nodes[i].kind = "file"})

Goto(c, locals) == call' = [call EXCEPT ![c] = locals @@ @] /\ UNCHANGED quota
Result(c, res, val) ==
    /\ call' = [call EXCEPT ![c] = [pc |-> "idle", todo |-> Tail(@.todo), last |-> Op(c), res |-> res, val |-> <<val>>]]
    /\ UNCHANGED quota
Return(c, res) == Result(c, res, 0)
Fail(c, res) == Return(c, res) /\ UNCHANGED <<nodes, handles, openFiles, used, count, host, errors, skewed, moved>>

\* OpenMode::validate
Invalid(mode) == ~mode.write /\ (~mode.read \/ mode.truncate \/ mode.append)

PathOps == {"stat", "readdir", "mkdir", "rename", "unlink", "rmdir", "open"}
RawPaths(op) == IF op.op = "rename" THEN <<op.path, op.to>> ELSE <<op.path>>
Normal(raw) == NormalizePath(raw, MaxPathDepth)
Paths(op) == [i \in DOMAIN RawPaths(op) |-> Normal(RawPaths(op)[i]).parts]

Init ==
    /\ \E s \in Scripts :
          /\ nodes = s.tree /\ quota = s.quota
          /\ call = [c \in Callers |-> [pc |-> "idle", todo |-> s.calls[c], last |-> [op |-> "none"], res |-> "none", val |-> <<0>>]]
    /\ handles = <<>> /\ openFiles = <<>>
    /\ used = Size(Visible) /\ count = Cardinality(Visible)      \* scan_tree
    /\ host = 0 /\ errors = 0 /\ skewed = FALSE /\ moved = FALSE

-----------------------------------------------------------------------------
\* A bad mode is refused first; then resolve starts at the directory opened
\* at construction.
Start(c) ==
    /\ At(c, "idle") /\ call[c].todo # <<>> /\ Op(c).op \in PathOps
    /\ IF (Op(c).op = "open" /\ Invalid(Op(c).mode)) \/ ~Normal(Op(c).path).ok
       THEN Fail(c, "EINVAL")
       ELSE /\ Goto(c, [pc |-> "walk", at |-> Root, left |-> Paths(Op(c))[1], parents |-> <<>>])
            /\ UNCHANGED <<nodes, handles, openFiles, used, count, host, errors, skewed, moved>>

\* resolve: the next ancestor is opened relative to the one before.  A link
\* or special file is invisible; the last component is not looked at.
Walk(c) ==
    /\ At(c, "walk")
    /\ LET left == call[c].left
           next == Lookup(call[c].at, Head(left))
           done == Append(call[c].parents, call[c].at)
       IN  IF Len(left) <= 1
           THEN IF Len(done) < Len(Paths(Op(c))) /\ ~Normal(Op(c).to).ok THEN Fail(c, "EINVAL")
                ELSE
                /\ IF Len(done) < Len(Paths(Op(c)))
                   THEN Goto(c, [at |-> Root, left |-> Paths(Op(c))[2], parents |-> done])
                   ELSE Goto(c, [pc |-> "locked", parents |-> done])
                /\ UNCHANGED <<nodes, handles, openFiles, used, count, host, errors, skewed, moved>>
           ELSE IF next.kind = "dir"
           THEN /\ Goto(c, [at |-> next.ino, left |-> Tail(left)])
                /\ UNCHANGED <<nodes, handles, openFiles, used, count, host, errors, skewed, moved>>
           ELSE Fail(c, IF next.kind = "file" THEN "ENOTDIR" ELSE "ENOENT")

Parent(c) == call[c].parents[1]
From(c) == Paths(Op(c))[1]
Name(c) == Last(From(c))
AtRoot(c) == From(c) = <<>>

\* The entry the call is about; "." of the root for the root itself.
Entry(c) == IF AtRoot(c) THEN [ino |-> Root] @@ nodes[Root] ELSE Lookup(Parent(c), Name(c))

Ready(c, op) == At(c, "locked") /\ Op(c).op = op

StatOrRead(c) ==
    /\ At(c, "locked") /\ Op(c).op \in {"stat", "readdir"}
    /\ CASE Entry(c).kind \in {"none", "other"} -> Return(c, "ENOENT")
         [] Op(c).op = "readdir" /\ Entry(c).kind = "file" -> Return(c, "ENOTDIR")
         [] Op(c).op = "readdir" /\ Entry(c).kind = "dir" ->
              Result(c, "ok", {name \in DOMAIN Entry(c).ents : Lookup(Entry(c).ino, name).kind # "other"})
         [] OTHER -> Result(c, "ok", [kind |-> Entry(c).kind, len |-> IF Entry(c).kind = "file" THEN Entry(c).len ELSE 0])
    /\ UNCHANGED <<nodes, handles, openFiles, used, count, host, errors, skewed, moved>>

\* ensure_entry_slot
NoSlot == count >= quota.files

Mkdir(c) ==
    /\ Ready(c, "mkdir")
    /\ IF Entry(c).kind # "none" THEN Fail(c, "EEXIST")
       ELSE IF NoSlot THEN Fail(c, "ENOSPC")
       ELSE IF ~Linked(Parent(c)) THEN Fail(c, "ENOENT")      \* mkdirat in a removed directory
       ELSE /\ nodes' = Link(Parent(c), Name(c), NewInode) @@ (NewInode :> [kind |-> "dir", ents |-> <<>>])
            /\ count' = count + 1 /\ Return(c, "ok")
            /\ UNCHANGED <<handles, openFiles, used, host, errors, skewed, moved>>

\* A mutant: the entry is released although the file is still open.
ReleaseAtOnce(key, len) == used' = Monus(used, len) /\ count' = Monus(count, 1) /\ UNCHANGED openFiles

\* release_entry: an open file keeps its bytes and slot until its last close.
ReleaseEntry(key, len) ==
    IF key \in DOMAIN openFiles
    THEN openFiles' = [openFiles EXCEPT ![key].unlinked = TRUE] /\ UNCHANGED <<used, count>>
    ELSE used' = Monus(used, len) /\ count' = Monus(count, 1) /\ UNCHANGED openFiles

\* What renameat answers, given the entries its two names hold now.
RenameAt(from, to, dir) ==
    CASE from.kind = "dir" /\ dir \in {from.ino} \cup Below(from.ino) -> "EINVAL"
      [] to.kind # "none" /\ from.kind # "dir" /\ to.kind = "dir" -> "EISDIR"
      [] to.kind # "none" /\ from.kind = "dir" /\ to.kind # "dir" -> "ENOTDIR"
      [] to.kind = "dir" /\ to.ino # from.ino /\ to.ents # <<>> -> "ENOTEMPTY"
      [] ~Linked(dir) -> "ENOENT"
      [] OTHER -> "ok"

\* subtree_deeper_than, for a directory that goes deeper.
TooDeep(from, source, target) ==
    /\ from.kind = "dir" /\ Len(target) > Len(source)
    /\ \E depth \in Depths(from.ino) : depth > Monus(MaxPathDepth, Len(target))

HeldOpen(ino) ==
    \E c \in Callers : \/ At(c, "walk") /\ ino \in {call[c].at} \cup Range(call[c].parents)
                       \/ At(c, "locked") /\ ino \in Range(call[c].parents)

Rename(c) ==
    /\ Ready(c, "rename")
    /\ LET source == From(c)
           target == Paths(Op(c))[2]
           dir == call[c].parents[2]
           from == Entry(c)
           to == Lookup(dir, Last(target))
       IN  IF source = <<>> \/ target = <<>> THEN Fail(c, "EINVAL")
           ELSE IF from.kind \in {"other", "none"} THEN Fail(c, "ENOENT")
           ELSE IF source = target THEN Fail(c, "ok")
           ELSE IF from.kind = "dir" /\ IsStrictPrefix(source, target) THEN Fail(c, "EINVAL")
           ELSE IF TooDeep(from, source, target) THEN Fail(c, "EINVAL")
           ELSE IF RenameAt(from, to, dir) # "ok" THEN Fail(c, RenameAt(from, to, dir))
           ELSE /\ nodes' = IF to.kind # "none" /\ to.ino = from.ino THEN nodes
                            ELSE [Unlink(nodes, Parent(c), Name(c)) EXCEPT
                                    ![dir].ents = [n \in DOMAIN @ \cup {Last(target)} |->
                                                      IF n = Last(target) THEN from.ino ELSE @[n]]]
                /\ CASE to.kind = "file" -> ReleaseEntry(to.ino, to.len)
                     [] to.kind = "dir" -> count' = Monus(count, 1) /\ UNCHANGED <<used, openFiles>>
                     [] OTHER -> UNCHANGED <<used, count, openFiles>>
                /\ moved' = (moved \/ (from.kind = "dir" /\ \E i \in {from.ino} \cup Below(from.ino) : HeldOpen(i)))
                /\ Return(c, "ok") /\ UNCHANGED <<handles, host, errors, skewed>>

UnlinkFile(c) ==
    /\ Ready(c, "unlink")
    /\ IF Entry(c).kind # "file" THEN Fail(c, IF Entry(c).kind = "dir" THEN "EISDIR" ELSE "ENOENT")
       ELSE /\ nodes' = Unlink(nodes, Parent(c), Name(c))
            /\ ReleaseEntry(Entry(c).ino, Entry(c).len)
            /\ Return(c, "ok") /\ UNCHANGED <<handles, host, errors, skewed, moved>>

Rmdir(c) ==
    /\ Ready(c, "rmdir")
    /\ IF AtRoot(c) THEN Fail(c, "EBUSY")
       ELSE IF Entry(c).kind # "dir" THEN Fail(c, IF Entry(c).kind = "file" THEN "ENOTDIR" ELSE "ENOENT")
       ELSE IF Entry(c).ents # <<>> THEN Fail(c, "ENOTEMPTY")
       ELSE /\ nodes' = Unlink(nodes, Parent(c), Name(c))
            /\ count' = Monus(count, 1)
            /\ Return(c, "ok") /\ UNCHANGED <<handles, openFiles, used, host, errors, skewed, moved>>

\* The opened file takes a handle: the tail of open.
OpenFile(c, ino) ==
    LET mode == Op(c).mode
    IN  /\ openFiles' = [k \in DOMAIN openFiles \cup {ino} |->
                            IF k # ino THEN openFiles[k]
                            ELSE IF k \in DOMAIN openFiles THEN [openFiles[k] EXCEPT !.handles = @ + 1]
                            ELSE [handles |-> 1, unlinked |-> FALSE]]
        /\ handles' = Op(c).h :> [key |-> ino, mode |-> mode] @@ handles
        /\ Return(c, "ok") /\ UNCHANGED <<host, errors, skewed, moved>>

Open(c) ==
    /\ Ready(c, "open")
    /\ LET mode == Op(c).mode
       IN  CASE Entry(c).kind = "dir" -> Fail(c, "EISDIR")
             [] Entry(c).kind = "other" -> Fail(c, "EACCES")
             [] Entry(c).kind = "file" /\ mode.createNew -> Fail(c, "EEXIST")
             [] Entry(c).kind = "file" /\ ~mode.createNew ->
                  /\ nodes' = IF mode.truncate THEN [nodes EXCEPT ![Entry(c).ino].len = 0] ELSE nodes
                  /\ used' = IF mode.truncate THEN Monus(used, Entry(c).len) ELSE used
                  /\ UNCHANGED count /\ OpenFile(c, Entry(c).ino)
             [] Entry(c).kind = "none" /\ ~(mode.create \/ mode.createNew) -> Fail(c, "ENOENT")
             [] OTHER ->
                  IF NoSlot THEN Fail(c, "ENOSPC")
                  ELSE IF ~Linked(Parent(c)) THEN Fail(c, "ENOENT")
                  ELSE /\ nodes' = Link(Parent(c), Name(c), NewInode)
                                   @@ (NewInode :> [kind |-> "file", len |-> 0])
                       /\ count' = count + 1 /\ UNCHANGED used /\ OpenFile(c, NewInode)

-----------------------------------------------------------------------------
\* The calls on a handle run under the mutex from start to end.
Using(c, op) == At(c, "idle") /\ call[c].todo # <<>> /\ Op(c).op = op
Handle(c) == handles[Op(c).h]
Held(c) == Op(c).h \in DOMAIN handles

NoRoom == quota.bytes + 1

\* A mutant: the last byte of the quota is refused.
ResizedShort(old, new) ==
    LET total == IF new >= old THEN used + (new - old) ELSE Monus(used, old - new)
    IN  IF new > quota.size \/ total >= quota.bytes THEN NoRoom ELSE total

\* resized_usage: the new total, or no room for it.
ResizedUsage(old, new) ==
    LET total == IF new >= old THEN used + (new - old) ELSE Monus(used, old - new)
    IN  IF new > quota.size \/ total > quota.bytes THEN NoRoom ELSE total

\* write_at: all of it, or an error after a part of it reached the file, and
\* then the usage follows the length the file really has.
Write(c) ==
    /\ Using(c, "write")
    /\ IF ~Held(c) \/ (Held(c) /\ ~Handle(c).mode.write) THEN Fail(c, "EBADF")
       ELSE IF Op(c).bytes = <<>> THEN Fail(c, "ok")
       ELSE LET old == nodes[Handle(c).key].len
                end == (IF Handle(c).mode.append THEN old ELSE Op(c).off) + Len(Op(c).bytes)
                new == IF end > old THEN end ELSE old
            IN  IF end > AddressMax THEN Fail(c, "EINVAL")
                ELSE IF ResizedUsage(old, new) = NoRoom THEN Fail(c, "ENOSPC")
                ELSE \E actual \in old .. new :
                       /\ nodes' = [nodes EXCEPT ![Handle(c).key].len = actual]
                       /\ \/ actual = new /\ used' = ResizedUsage(old, new) /\ Return(c, "ok") /\ UNCHANGED errors
                          \/ /\ errors < MaxErrors /\ errors' = errors + 1
                             /\ used' = Monus(used, old) + actual /\ Return(c, "EIO")
                       /\ UNCHANGED <<handles, openFiles, count, host, skewed, moved>>

Truncate(c) ==
    /\ Using(c, "truncate")
    /\ IF ~Held(c) THEN Fail(c, "EBADF")
       ELSE IF ~Handle(c).mode.write THEN Fail(c, "EINVAL")
       ELSE LET old == nodes[Handle(c).key].len
            IN  IF ResizedUsage(old, Op(c).len) = NoRoom THEN Fail(c, "ENOSPC")
                ELSE /\ nodes' = [nodes EXCEPT ![Handle(c).key].len = Op(c).len]
                     /\ used' = ResizedUsage(old, Op(c).len)
                     /\ Return(c, "ok") /\ UNCHANGED <<handles, openFiles, count, host, errors, skewed, moved>>

Read(c) ==
    /\ Using(c, "read")
    /\ IF Held(c) /\ Handle(c).mode.read
       THEN Result(c, "ok", LET len == nodes[Handle(c).key].len
                            IN  Monus(Min({len, Op(c).off + Op(c).len}), Min({len, Op(c).off})))
       ELSE Return(c, "EBADF")
    /\ UNCHANGED <<nodes, handles, openFiles, used, count, host, errors, skewed, moved>>

\* close: the last handle of an unlinked file releases its bytes and slot.
Close(c) ==
    /\ Using(c, "close")
    /\ IF ~Held(c) THEN Fail(c, "EBADF")
       ELSE LET key == Handle(c).key
                last == openFiles[key].handles = 1
            IN  /\ handles' = Restrict(handles, DOMAIN handles \ {Op(c).h})
                /\ openFiles' = IF last THEN Restrict(openFiles, DOMAIN openFiles \ {key})
                                ELSE [openFiles EXCEPT ![key].handles = @ - 1]
                /\ IF last /\ openFiles[key].unlinked
                   THEN used' = Monus(used, nodes[key].len) /\ count' = Monus(count, 1)
                   ELSE UNCHANGED <<used, count>>
                /\ Return(c, "ok") /\ UNCHANGED <<nodes, host, errors, skewed, moved>>

\* refresh: scan_tree, which refuses too deep a tree, and the unlinked files
\* that are still open.  A file the host removed while open stays out of it.
Refresh(c) ==
    /\ Using(c, "refresh")
    /\ IF \E depth \in Depths(Root) : depth > MaxPathDepth THEN Fail(c, "EINVAL")
       ELSE /\ used' = Size(Visible) + Size(Unlinked)
            /\ count' = Cardinality(Visible) + Cardinality(Unlinked)
            /\ skewed' = (DOMAIN openFiles \ (Visible \cup Unlinked) # {})
            /\ Return(c, "ok") /\ UNCHANGED <<nodes, handles, openFiles, host, errors, moved>>

SetUsage(c) ==
    /\ Using(c, "set_usage")
    /\ used' = Op(c).used /\ count' = Op(c).count /\ skewed' = TRUE
    /\ Return(c, "ok") /\ UNCHANGED <<nodes, handles, openFiles, host, errors, moved>>

\* The host resizes or removes a file behind the file system.
HostChange ==
    /\ host < MaxHost /\ host' = host + 1 /\ skewed' = TRUE
    /\ \/ \E i \in Visible : /\ nodes[i].kind = "file"
                             /\ nodes' = [nodes EXCEPT ![i].len = (@ + 1) % (quota.size + 1)]
       \/ \E dir \in {Root} \cup Visible, name \in {"f", "g"} :
             /\ nodes[dir].kind = "dir" /\ Lookup(dir, name).kind = "file"
             /\ nodes' = Unlink(nodes, dir, name)
    /\ UNCHANGED <<handles, openFiles, used, count, quota, call, errors, moved>>

Finished == \A c \in Callers : At(c, "idle") /\ call[c].todo = <<>>
Terminated == Finished /\ UNCHANGED vars

Next ==
    \/ \E c \in Callers :
          \/ Start(c) \/ Walk(c) \/ StatOrRead(c) \/ Mkdir(c) \/ Rename(c) \/ UnlinkFile(c)
          \/ Rmdir(c) \/ Open(c) \/ Write(c) \/ Truncate(c) \/ Read(c) \/ Close(c)
          \/ Refresh(c) \/ SetUsage(c)
    \/ ~Finished /\ HostChange
    \/ Terminated

Spec == Init /\ [][Next]_vars
-----------------------------------------------------------------------------
Exact == used = Size(Visible \cup Unlinked) /\ count = Cardinality(Visible \cup Unlinked)

\* The answers are the ones the conformance suite asserts, for the calls
\* that come from it, while the host neither interferes nor fails.
LocalConforms ==
    host = 0 /\ errors = 0 =>
        \A c \in Callers :
            LET last == call[c].last
            IN  /\ "expect" \in DOMAIN last => call[c].res = last.expect
                /\ "val" \in DOMAIN last =>
                       IF last.op = "read" THEN call[c].val[1] = Len(last.val) ELSE call[c].val[1] = last.val

\* Every entry leads to a node, open_files has exactly the files with handles
\* and counts them, and the totals never go below zero.
LocalTypeOK ==
    /\ \A i \in DOMAIN nodes :
          CASE nodes[i].kind = "dir" -> \A n \in DOMAIN nodes[i].ents : nodes[i].ents[n] \in DOMAIN nodes
            [] nodes[i].kind = "file" -> nodes[i].len \in 0 .. quota.size
            [] OTHER -> nodes[i].kind = "other"
    /\ DOMAIN handles \subseteq Handles
    /\ DOMAIN openFiles = {handles[h].key : h \in DOMAIN handles}
    /\ \A k \in DOMAIN openFiles :
          openFiles[k].handles = Cardinality({h \in DOMAIN handles : handles[h].key = k})
    /\ used \in Nat /\ count \in Nat /\ host \in 0 .. MaxHost

\* Every path operation is bounded at MAX_PATH_DEPTH, as rename's comment
\* says: no entry lies deeper than the scan that seeds and refreshes the
\* usage is willing to walk.
DepthBounded == \A depth \in Depths(Root) : depth <= MaxPathDepth

\* Usage is what a scan would find together with the unlinked files that are
\* still open, through partial writes, renames over open files and last
\* closes, as long as the host stayed away or a refresh followed it and no
\* directory was renamed between a call's walk and its turn.  Without the
\* host it also stays within the quota, and the scan never meets an entry
\* that is too deep for it.
LocalTotals ==
    /\ ~skewed /\ ~moved => Exact
    /\ host = 0 /\ ~skewed /\ ~moved => used <= quota.bytes /\ count <= quota.files
    /\ ~moved => DepthBounded
=============================================================================
