------------------------------ MODULE SandboxFs ------------------------------
(***************************************************************************)
(* The facade commands see (Fs in src/sandbox/fs.rs): every call checks    *)
(* that its execution still runs, /bin is a read-only view of the          *)
(* commands, and a close of a cancelled execution aborts.  Dispatch to     *)
(* threads and handle admission are in module HandleLifecycle; here a call *)
(* is one step.                                                            *)
(***************************************************************************)
EXTENDS Naturals, Sequences, FiniteSets, TLC

CONSTANTS BinCommands, MaxPathDepth

M == INSTANCE MountedVfs

Error(m, res) == M!Error(m, res)

\* check_path
Refused(stopped, p) == IF stopped THEN "EIO" ELSE IF Len(p) > MaxPathDepth THEN "EINVAL" ELSE "ok"
IsBin(p) == p # <<>> /\ p[1] = "bin"
Checked(m, stopped, p, a) == IF Refused(stopped, p) # "ok" THEN Error(m, Refused(stopped, p)) ELSE a
Guarded(m, stopped, p, a) == Checked(m, stopped, p, IF IsBin(p) THEN Error(m, "EACCES") ELSE a)

\* bin_stat
BinStat(m, p) ==
    IF Len(p) = 1 THEN M!Answer(m, "ok", [kind |-> "dir", len |-> 0])
    ELSE IF Len(p) = 2 /\ p[2] \in BinCommands THEN M!Answer(m, "ok", [kind |-> "file", len |-> 0]) ELSE Error(m, "ENOENT")

Stat(m, stopped, p) == Checked(m, stopped, p, IF IsBin(p) THEN BinStat(m, p) ELSE M!Stat(m, p))
Readdir(m, stopped, p) ==
    Checked(m, stopped, p,
        CASE p = <<>> -> M!Answer(m, "ok", M!Readdir(m, p).val \cup {"bin"})
          [] p = <<"bin">> -> M!Answer(m, "ok", BinCommands)
          [] IsBin(p) /\ Len(p) > 1 -> Error(m, "ENOTDIR")
          [] OTHER -> M!Readdir(m, p))
Mkdir(m, stopped, p) == Guarded(m, stopped, p, M!Mkdir(m, p))
UnlinkFile(m, stopped, p) == Guarded(m, stopped, p, M!UnlinkFile(m, p))
Rmdir(m, stopped, p) == Guarded(m, stopped, p, M!Rmdir(m, p))
Rename(m, stopped, from, to) ==
    IF IsBin(from) \/ IsBin(to) THEN Error(m, "EACCES")
    ELSE Checked(m, stopped, from, Checked(m, stopped, to, M!Rename(m, from, to)))

Open(m, stopped, p, mode) ==
    Checked(m, stopped, p,
        CASE p = <<"bin">> -> Error(m, "EISDIR")
          [] IsBin(p) /\ Len(p) > 1 -> Error(m, IF ~mode.write /\ ~(Len(p) = 2 /\ p[2] \in BinCommands) THEN "ENOENT" ELSE "EACCES")
          [] OTHER -> M!Open(m, p, mode))
ReadAt(m, stopped, h, off, len) == IF stopped THEN Error(m, "EIO") ELSE M!ReadAt(m, h, off, len)
WriteAt(m, stopped, h, off, bytes) == IF stopped THEN Error(m, "EIO") ELSE M!WriteAt(m, h, off, bytes)

TruncateTo(m, stopped, h, len) == IF stopped THEN Error(m, "EIO") ELSE M!TruncateTo(m, h, len)

\* finish
Close(m, stopped, h) == IF stopped THEN M!Abort(m, h) ELSE M!Close(m, h)
Abort(m, h) == M!Abort(m, h)
=============================================================================
