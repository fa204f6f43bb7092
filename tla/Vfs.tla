--------------------------------- MODULE Vfs ---------------------------------
(***************************************************************************)
(* What a virtual file system promises its callers (the Vfs and            *)
(* VfsSnapshot traits of src/vfs/mod.rs), as operators on a value: each    *)
(* takes the state of a file system and returns its new state with an      *)
(* answer.  A staged file system publishes what a handle wrote when the    *)
(* handle is closed, and discards it when the handle is aborted.           *)
(***************************************************************************)
EXTENDS Naturals, Sequences, FiniteSets, SequencesExt, FiniteSetsExt, Functions, TLC, VfsPath

CONSTANT MaxPathDepth     \* MAX_PATH_DEPTH

Unlimited == [bytes |-> 1024, files |-> 64, size |-> 1024]
NewVfs(quota, staged) ==
    [tree |-> <<>> :> [kind |-> "dir"], data |-> <<>>, open |-> <<>>, next |-> 1, quota |-> quota, staged |-> staged]

Answer(v, res, val) == [v |-> v, res |-> res, val |-> val]
Error(v, res) == Answer(v, res, 0)
Done(v) == Answer(v, "ok", 0)

Kind(v, p) == IF p \in DOMAIN v.tree THEN v.tree[p].kind ELSE "none"
Ino(v, p) == v.tree[p].ino
Children(v, p) == {q \in DOMAIN v.tree : q # <<>> /\ Front(q) = p}
Below(v, p) == {q \in DOMAIN v.tree : IsPrefix(p, q)}
Linked(v) == {v.tree[p].ino : p \in {q \in DOMAIN v.tree : v.tree[q].kind = "file"}}
Held(v) == {v.open[h].ino : h \in DOMAIN v.open}

\* Usage: a removed file counts until its last handle is closed.
UsedBytes(v) == FoldSet(LAMBDA i, sum : sum + Len(v.data[i]), 0, Linked(v) \cup Held(v))
FileCount(v) == Cardinality(DOMAIN v.tree) - 1 + (IF v.staged THEN 0 ELSE Cardinality(Held(v) \ Linked(v)))

\* The first ancestor that is no directory decides.
ParentError(v, p) ==
    LET bad == {n \in 0 .. Len(p) - 1 : Kind(v, SubSeq(p, 1, n)) # "dir"}
    IN  IF bad = {} THEN "ok" ELSE IF Kind(v, SubSeq(p, 1, Min(bad))) = "file" THEN "ENOTDIR" ELSE "ENOENT"

Stat(v, p) ==
    IF ParentError(v, p) # "ok" THEN Error(v, ParentError(v, p))
    ELSE IF Kind(v, p) = "none" THEN Error(v, "ENOENT")
    ELSE Answer(v, "ok", IF Kind(v, p) = "dir" THEN [kind |-> "dir", len |-> 0]
                         ELSE [kind |-> "file", len |-> Len(v.data[Ino(v, p)])])

Readdir(v, p) ==
    IF Stat(v, p).res # "ok" THEN Error(v, Stat(v, p).res)
    ELSE IF Kind(v, p) = "file" THEN Error(v, "ENOTDIR")
    ELSE Answer(v, "ok", {Last(q) : q \in Children(v, p)})

Mkdir(v, p) ==
    IF ParentError(v, p) # "ok" THEN Error(v, ParentError(v, p))
    ELSE IF Kind(v, p) # "none" THEN Error(v, "EEXIST")
    ELSE IF FileCount(v) >= v.quota.files THEN Error(v, "ENOSPC")
    ELSE Done([v EXCEPT !.tree = p :> [kind |-> "dir"] @@ @])

\* Content without a name and without a handle is gone.
Tidy(v) == [v EXCEPT !.data = Restrict(@, Linked(v) \cup Held(v))]
Without(v, gone) == [v EXCEPT !.tree = Restrict(@, DOMAIN @ \ gone)]

\* subtree_fits: nothing below a directory that moves down lies deeper than paths may be.
SubtreeFits(v, from, to) ==
    Len(to) > Len(from) => \A q \in Below(v, from) : Len(to) + Len(q) - Len(from) <= MaxPathDepth

Rename(v, from, to) ==
    LET moved == Below(v, from)
        kept == DOMAIN v.tree \ (moved \cup {to})
        Target(q) == to \o SubSeq(q, Len(from) + 1, Len(q))
        Source(q) == CHOOSE s \in moved : Target(s) = q
    IN  CASE from = <<>> \/ to = <<>> -> Error(v, "EINVAL")
          [] Stat(v, from).res # "ok" -> Error(v, Stat(v, from).res)
          [] from = to -> Done(v)
          [] Kind(v, from) = "dir" /\ IsPrefix(from, to) -> Error(v, "EINVAL")
          [] ParentError(v, to) # "ok" -> Error(v, ParentError(v, to))
          [] Kind(v, from) = "file" /\ Kind(v, to) = "dir" -> Error(v, "EISDIR")
          [] Kind(v, from) = "dir" /\ Kind(v, to) = "file" -> Error(v, "ENOTDIR")
          [] Kind(v, to) = "dir" /\ Children(v, to) # {} -> Error(v, "ENOTEMPTY")
          [] Kind(v, from) = "dir" /\ ~SubtreeFits(v, from, to) -> Error(v, "EINVAL")
          [] OTHER -> Done(Tidy([v EXCEPT !.tree = [q \in kept \cup {Target(s) : s \in moved} |->
                                                  IF q \in kept THEN @[q] ELSE @[Source(q)]]]))

UnlinkFile(v, p) ==
    IF Stat(v, p).res # "ok" THEN Error(v, Stat(v, p).res)
    ELSE IF Kind(v, p) = "dir" THEN Error(v, "EISDIR")
    ELSE Done(Tidy(Without(v, {p})))

Rmdir(v, p) ==
    IF p = <<>> THEN Error(v, "EBUSY")
    ELSE IF Stat(v, p).res # "ok" THEN Error(v, Stat(v, p).res)
    ELSE IF Kind(v, p) = "file" THEN Error(v, "ENOTDIR")
    ELSE IF Children(v, p) # {} THEN Error(v, "ENOTEMPTY")
    ELSE Done(Without(v, {p}))

-----------------------------------------------------------------------------
NoMode == [read |-> FALSE, write |-> FALSE, create |-> FALSE, createNew |-> FALSE, truncate |-> FALSE, append |-> FALSE]
ReadOnly == [NoMode EXCEPT !.read = TRUE]
WriteOnly == [NoMode EXCEPT !.write = TRUE]
ReadWrite == [ReadOnly EXCEPT !.write = TRUE]
Create(mode) == [mode EXCEPT !.create = TRUE]
CreateNew(mode) == [Create(mode) EXCEPT !.createNew = TRUE]
Truncate(mode) == [mode EXCEPT !.truncate = TRUE]
AppendTo(mode) == [mode EXCEPT !.append = TRUE, !.write = TRUE]

\* OpenMode::validate
Invalid(mode) == ~mode.write /\ (~mode.read \/ mode.truncate \/ mode.append)

\* open: a staged handle that may write works on an inode of its own.
Open(v, p, mode) ==
    LET exists == Kind(v, p) = "file"
        own == ~exists \/ (v.staged /\ mode.write)
        ino == IF own THEN v.next ELSE Ino(v, p)
        content == IF ~exists \/ mode.truncate THEN <<>> ELSE v.data[Ino(v, p)]
    IN  CASE Invalid(mode) -> Error(v, "EINVAL")
          [] ParentError(v, p) # "ok" -> Error(v, ParentError(v, p))
          [] Kind(v, p) = "dir" -> Error(v, "EISDIR")
          [] exists /\ mode.createNew -> Error(v, "EEXIST")
          [] ~exists /\ ~mode.create /\ ~mode.createNew -> Error(v, "ENOENT")
          [] ~exists /\ FileCount(v) >= v.quota.files -> Error(v, "ENOSPC")
          [] OTHER -> Answer([v EXCEPT !.next = @ + 1, !.data = ino :> content @@ @,
                                !.tree = IF exists \/ v.staged THEN @ ELSE p :> [kind |-> "file", ino |-> ino] @@ @,
                                !.open = v.next :> [ino |-> ino, path |-> p, mode |-> mode, dirty |-> ~exists \/ mode.truncate] @@ @], "ok", v.next)

Content(v, h) == v.data[v.open[h].ino]
ReadAt(v, h, off, len) ==
    IF h \notin DOMAIN v.open \/ (h \in DOMAIN v.open /\ ~v.open[h].mode.read) THEN Error(v, "EBADF")
    ELSE Answer(v, "ok", SubSeq(Content(v, h), off + 1, Min({off + len, Len(Content(v, h))})))

\* The content after a change, if the quota has room for it.
Resize(v, h, content, val) ==
    LET old == Content(v, h)
        used == UsedBytes(v) + Len(content) - Len(old)
    IN  IF Len(content) > v.quota.size \/ used > v.quota.bytes THEN Error(v, "ENOSPC")
        ELSE Answer([v EXCEPT !.data[v.open[h].ino] = content, !.open[h].dirty = TRUE], "ok", val)

Padded(content, len) == [i \in 1 .. len |-> IF i <= Len(content) THEN content[i] ELSE 0]

WriteAt(v, h, off, bytes) ==
    IF h \notin DOMAIN v.open \/ (h \in DOMAIN v.open /\ ~v.open[h].mode.write) THEN Error(v, "EBADF")
    ELSE IF bytes = <<>> THEN Done(v)
    ELSE LET old == Content(v, h)
             at == IF v.open[h].mode.append THEN Len(old) ELSE off
             end == Max({Len(old), at + Len(bytes)})
         IN  IF at + Len(bytes) > AddressMax THEN Error(v, "EINVAL")
             ELSE Resize(v, h, [i \in 1 .. end |-> IF i \in at + 1 .. at + Len(bytes) THEN bytes[i - at] ELSE Padded(old, end)[i]],
                         Len(bytes))

TruncateTo(v, h, len) ==
    IF h \notin DOMAIN v.open THEN Error(v, "EBADF")
    ELSE IF ~v.open[h].mode.write THEN Error(v, "EINVAL")
    ELSE IF len > v.quota.size THEN Error(v, "ENOSPC")
    ELSE Resize(v, h, Padded(Content(v, h), len), 0)

\* abort: the handle is gone, and with it what was staged.
Abort(v, h) ==
    IF h \notin DOMAIN v.open THEN Error(v, "EBADF")
    ELSE Done(Tidy([v EXCEPT !.open = Restrict(@, DOMAIN @ \ {h})]))

\* close publishes what was staged and changed, where its directory still is; the handle
\* is consumed in any case.
Close(v, h) ==
    IF h \notin DOMAIN v.open THEN Error(v, "EBADF")
    ELSE LET f == v.open[h]
             closed == [v EXCEPT !.open = Restrict(@, DOMAIN @ \ {h})]
         IN  IF ~v.staged \/ ~f.mode.write \/ ~f.dirty THEN Done(Tidy(closed))
             ELSE IF ParentError(v, f.path) # "ok" \/ Kind(v, f.path) = "dir" THEN Error(Tidy(closed), "EINVAL")
             ELSE Done(Tidy([closed EXCEPT !.tree = f.path :> [kind |-> "file", ino |-> f.ino] @@ @]))

-----------------------------------------------------------------------------
\* A snapshot is the visible tree: no handles.
Snapshot(v) == [v EXCEPT !.open = <<>>]
Restore(v, snapshot) ==
    IF \/ UsedBytes(snapshot) > v.quota.bytes
       \/ FileCount(snapshot) > v.quota.files
       \/ \E i \in Linked(snapshot) : Len(snapshot.data[i]) > v.quota.size THEN Error(v, "ENOSPC")
    ELSE Done([snapshot EXCEPT !.quota = v.quota, !.next = Max({v.next, snapshot.next})])
=============================================================================
