----------------------------- MODULE MountedVfs -----------------------------
(***************************************************************************)
(* The mount table (src/vfs/mount.rs) over file systems that keep the      *)
(* promises of module Vfs.  Its root is read-only; the first component of  *)
(* a path names the mount, and a handle is the pair of a mount and the     *)
(* mount's own handle under a number of the table's.                       *)
(***************************************************************************)
EXTENDS Naturals, Sequences, FiniteSets, Functions, TLC

CONSTANT MaxPathDepth

V == INSTANCE Vfs

NewMounts(mounts) == [mounts |-> mounts, handles |-> <<>>, next |-> 1]

Answer(m, res, val) == [v |-> m, res |-> res, val |-> val]
Error(m, res) == Answer(m, res, 0)

\* mounted_path
AtRoot(p) == p = <<>>
Mounted(m, p) == p # <<>> /\ p[1] \in DOMAIN m.mounts
AtMount(p) == Len(p) = 1
Inner(p) == Tail(p)
Lift(m, name, a) == Answer([m EXCEPT !.mounts[name] = a.v], a.res, a.val)
On(m, p) == m.mounts[p[1]]

Stat(m, p) ==
    IF AtRoot(p) THEN Answer(m, "ok", [kind |-> "dir", len |-> 0])
    ELSE IF ~Mounted(m, p) THEN Error(m, "ENOENT") ELSE Lift(m, p[1], V!Stat(On(m, p), Inner(p)))
Readdir(m, p) ==
    IF AtRoot(p) THEN Answer(m, "ok", DOMAIN m.mounts)
    ELSE IF ~Mounted(m, p) THEN Error(m, "ENOENT") ELSE Lift(m, p[1], V!Readdir(On(m, p), Inner(p)))
Mkdir(m, p) ==
    IF ~Mounted(m, p) THEN Error(m, "EACCES")
    ELSE IF AtMount(p) THEN Error(m, "EEXIST") ELSE Lift(m, p[1], V!Mkdir(On(m, p), Inner(p)))
UnlinkFile(m, p) ==
    IF ~AtRoot(p) /\ ~Mounted(m, p) THEN Error(m, "ENOENT")
    ELSE IF AtRoot(p) \/ AtMount(p) THEN Error(m, "EISDIR") ELSE Lift(m, p[1], V!UnlinkFile(On(m, p), Inner(p)))
Rmdir(m, p) ==
    IF ~AtRoot(p) /\ ~Mounted(m, p) THEN Error(m, "ENOENT")
    ELSE IF AtRoot(p) \/ AtMount(p) THEN Error(m, "EBUSY") ELSE Lift(m, p[1], V!Rmdir(On(m, p), Inner(p)))

\* rename stays within one mount.
Rename(m, from, to) ==
    CASE ~AtRoot(from) /\ ~Mounted(m, from) -> Error(m, "ENOENT")
      [] AtRoot(from) \/ AtMount(from) -> Error(m, "EBUSY")
      [] ~AtRoot(to) /\ ~Mounted(m, to) -> Error(m, "EACCES")
      [] AtRoot(to) \/ AtMount(to) -> Error(m, "EBUSY")
      [] from[1] # to[1] -> Error(m, "EXDEV")
      [] OTHER -> Lift(m, from[1], V!Rename(On(m, from), Inner(from), Inner(to)))

InsertHandle(m, name, inner) ==
    Answer([m EXCEPT !.handles = m.next :> [mount |-> name, inner |-> inner] @@ @, !.next = @ + 1], "ok", m.next)
Open(m, p, mode) ==
    IF ~AtRoot(p) /\ ~Mounted(m, p) THEN Error(m, "ENOENT")
    ELSE IF AtRoot(p) \/ AtMount(p) THEN Error(m, "EISDIR")
    ELSE LET a == V!Open(On(m, p), Inner(p), mode)
         IN  IF a.res # "ok" THEN Error(m, a.res) ELSE InsertHandle(Lift(m, p[1], a).v, p[1], a.val)

\* handle: the mount and the handle an outer number stands for.
Known(m, h) == h \in DOMAIN m.handles
Of(m, h) == m.handles[h]
ReadAt(m, h, off, len) ==
    IF ~Known(m, h) THEN Error(m, "EBADF")
    ELSE Lift(m, Of(m, h).mount, V!ReadAt(m.mounts[Of(m, h).mount], Of(m, h).inner, off, len))
WriteAt(m, h, off, bytes) ==
    IF ~Known(m, h) THEN Error(m, "EBADF")
    ELSE Lift(m, Of(m, h).mount, V!WriteAt(m.mounts[Of(m, h).mount], Of(m, h).inner, off, bytes))
TruncateTo(m, h, len) ==
    IF ~Known(m, h) THEN Error(m, "EBADF")
    ELSE Lift(m, Of(m, h).mount, V!TruncateTo(m.mounts[Of(m, h).mount], Of(m, h).inner, len))

\* close and abort take the number out of the table before they call.
Removed(m, h) == [m EXCEPT !.handles = Restrict(@, DOMAIN @ \ {h})]
Close(m, h) ==
    IF ~Known(m, h) THEN Error(m, "EBADF")
    ELSE Lift(Removed(m, h), Of(m, h).mount, V!Close(m.mounts[Of(m, h).mount], Of(m, h).inner))
Abort(m, h) ==
    IF ~Known(m, h) THEN Error(m, "EBADF")
    ELSE Lift(Removed(m, h), Of(m, h).mount, V!Abort(m.mounts[Of(m, h).mount], Of(m, h).inner))
=============================================================================
