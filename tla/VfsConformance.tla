---------------------------- MODULE VfsConformance ----------------------------
(***************************************************************************)
(* The public conformance suites (src/vfs/conformance.rs): each test is a  *)
(* quota and the calls it makes, with the answer it asserts.  File         *)
(* contents are short sequences of numbers, and 0 is the byte of a hole.   *)
(***************************************************************************)
EXTENDS Vfs

Quota(bytes, files, size) == [bytes |-> bytes, files |-> files, size |-> size]
P(parts) == <<"">> \o parts

\* Calls with the answer asserted of them.
OnPath(op, parts, res) == <<[op |-> op, path |-> P(parts), expect |-> res]>>
Moving(from, to, res) == <<[op |-> "rename", path |-> P(from), to |-> P(to), expect |-> res]>>
StatLen(parts, len) == <<[op |-> "stat", path |-> P(parts), expect |-> "ok", val |-> [kind |-> "file", len |-> len]]>>
StatDir(parts) == <<[op |-> "stat", path |-> P(parts), expect |-> "ok", val |-> [kind |-> "dir", len |-> 0]]>>
Listing(parts, names) == <<[op |-> "readdir", path |-> P(parts), expect |-> "ok", val |-> names]>>
Opening(h, parts, mode, res) == <<[op |-> "open", h |-> h, path |-> P(parts), mode |-> mode, expect |-> res]>>
Writing(h, off, bytes, res) == <<[op |-> "write", h |-> h, off |-> off, bytes |-> bytes, expect |-> res]>>
Reading(h, off, len, bytes) == <<[op |-> "read", h |-> h, off |-> off, len |-> len, expect |-> "ok", val |-> bytes]>>
NotReading(h, res) == <<[op |-> "read", h |-> h, off |-> 0, len |-> 1, expect |-> res]>>
Truncating(h, len, res) == <<[op |-> "truncate", h |-> h, len |-> len, expect |-> res]>>
Closing(h, res) == <<[op |-> "close", h |-> h, expect |-> res]>>

\* write_file and assert_contents
WriteFile(parts, bytes) == Opening("tmp", parts, CreateNew(WriteOnly), "ok") \o Writing("tmp", 0, bytes, "ok") \o Closing("tmp", "ok")
Contents(parts, bytes) == Opening("tmp", parts, ReadOnly, "ok") \o Reading("tmp", 0, Len(bytes) + 8, bytes) \o Closing("tmp", "ok")

Old == <<1, 2, 3>>
New == <<4, 5>>
Four == <<1, 2, 3, 4>>
Five == <<1, 2, 3, 4, 5>>
File == <<"file">>
Dir == <<"dir">>

OpenModesAndErrors ==
       Opening("h", <<"missing">>, ReadOnly, "ENOENT") \o Opening("h", <<"invalid">>, NoMode, "EINVAL")
    \o Opening("w", File, CreateNew(WriteOnly), "ok") \o Opening("h", File, CreateNew(WriteOnly), "EEXIST")
    \o Opening("p", File, Create(WriteOnly), "ok") \o Closing("p", "ok")
    \o NotReading("w", "EBADF") \o Writing("w", 0, Old, "ok") \o Closing("w", "ok")
    \o Opening("r", File, ReadOnly, "ok") \o Writing("r", 0, <<1>>, "EBADF") \o Truncating("r", 0, "EINVAL") \o Closing("r", "ok")
    \o Opening("t", File, Truncate(WriteOnly), "ok") \o Closing("t", "ok") \o StatLen(File, 0)
    \o OnPath("mkdir", Dir, "ok") \o Opening("h", Dir, ReadOnly, "EISDIR")
    \o Opening("h", <<"file", "child">>, ReadOnly, "ENOTDIR") \o Opening("h", <<"missing", "file">>, Create(WriteOnly), "ENOENT")

AppendModeAppends ==
       WriteFile(File, Old) \o Opening("a", File, AppendTo(WriteOnly), "ok") \o Writing("a", 0, New, "ok")
    \o Closing("a", "ok") \o Contents(File, Old \o New)

OffsetsAndOverwrite ==
       Opening("h", <<"sparse">>, CreateNew(ReadWrite), "ok") \o Writing("h", 2, <<1>>, "ok") \o StatLen(<<"sparse">>, 3)
    \o Reading("h", 10, 8, <<>>) \o Reading("h", 0, 8, <<0, 0, 1>>)
    \o WriteFile(File, Old) \o Opening("o", File, ReadWrite, "ok") \o Writing("o", 0, <<9>>, "ok") \o Closing("o", "ok")
    \o Contents(File, <<9, 2, 3>>)

CrossHandleVisibility ==
       Opening("w", File, CreateNew(ReadWrite), "ok") \o Opening("r", File, ReadOnly, "ok")
    \o Writing("w", 0, Old, "ok") \o Reading("r", 0, 8, Old)
    \o Truncating("w", 1, "ok") \o StatLen(File, 1) \o Reading("r", 0, 8, <<1>>) \o Closing("r", "ok") \o Closing("w", "ok")

RenameSemantics ==
       WriteFile(<<"a">>, New) \o WriteFile(<<"b">>, Old) \o Moving(<<"a">>, <<"b">>, "ok")
    \o OnPath("stat", <<"a">>, "ENOENT") \o Contents(<<"b">>, New)
    \o Moving(<<"missing">>, <<"target">>, "ENOENT") \o Moving(<<"missing">>, <<"missing">>, "ENOENT")
    \o OnPath("mkdir", Dir, "ok") \o WriteFile(File, <<1>>) \o Moving(File, Dir, "EISDIR") \o Moving(Dir, File, "ENOTDIR")
    \o OnPath("mkdir", <<"es">>, "ok") \o OnPath("mkdir", <<"et">>, "ok") \o Moving(<<"es">>, <<"et">>, "ok")
    \o OnPath("stat", <<"es">>, "ENOENT") \o StatDir(<<"et">>)
    \o OnPath("mkdir", <<"full">>, "ok") \o WriteFile(<<"full", "child">>, <<1>>) \o Moving(<<"et">>, <<"full">>, "ENOTEMPTY")
    \o OnPath("mkdir", <<"et", "child">>, "ok") \o Moving(<<"et">>, <<"et", "child", "moved">>, "EINVAL")

RemovalSemantics ==
       OnPath("mkdir", Dir, "ok") \o WriteFile(<<"dir", "file">>, <<1>>)
    \o OnPath("rmdir", Dir, "ENOTEMPTY") \o OnPath("unlink", Dir, "EISDIR")
    \o OnPath("unlink", <<"dir", "file">>, "ok") \o OnPath("rmdir", Dir, "ok") \o OnPath("stat", Dir, "ENOENT")
    \o WriteFile(File, <<1>>) \o OnPath("rmdir", File, "ENOTDIR") \o OnPath("rmdir", <<"missing">>, "ENOENT")
    \o OnPath("rmdir", <<>>, "EBUSY")

QuotaExact ==
       WriteFile(File, Four) \o Opening("h", File, WriteOnly, "ok") \o Writing("h", 0, Five, "ENOSPC") \o Closing("h", "ok")
    \o Contents(File, Four)
QuotaAfterUnlink ==
       WriteFile(<<"a">>, Four) \o Opening("b", <<"b">>, CreateNew(WriteOnly), "ok") \o Writing("b", 0, <<1>>, "ENOSPC")
    \o OnPath("unlink", <<"a">>, "ok") \o Writing("b", 0, <<1>>, "ok") \o Closing("b", "ok")
QuotaAfterTruncate ==
       WriteFile(<<"a">>, Four) \o Opening("a", <<"a">>, WriteOnly, "ok") \o Truncating("a", 1, "ok") \o Closing("a", "ok")
    \o WriteFile(<<"b">>, Old)
QuotaAfterRename ==
       WriteFile(<<"old">>, Four) \o WriteFile(<<"new">>, Four) \o Moving(<<"new">>, <<"old">>, "ok") \o WriteFile(<<"extra">>, Four)

PathNormalization ==
       OnPath("mkdir", Dir, "ok") \o WriteFile(<<"dir", "", ".", "file">>, <<1>>) \o StatLen(<<"dir", "file">>, 1)
    \o WriteFile(<<"..", "..", "contained">>, <<1>>) \o StatLen(<<"contained">>, 1)
    \o <<[op |-> "stat", path |-> <<"relative">>, expect |-> "EINVAL"]>>

ClosedHandleErrors ==
       Opening("h", File, CreateNew(ReadWrite), "ok") \o Closing("h", "ok") \o NotReading("h", "EBADF")
    \o Writing("h", 0, <<1>>, "EBADF") \o Truncating("h", 0, "EBADF") \o Closing("h", "EBADF")

TruncateGrowsAndShrinks ==
       Opening("h", File, CreateNew(ReadWrite), "ok") \o Writing("h", 0, Old, "ok") \o Truncating("h", 5, "ok")
    \o Reading("h", 0, 8, Old \o <<0, 0>>) \o Truncating("h", 2, "ok") \o StatLen(File, 2) \o Reading("h", 0, 8, <<1, 2>>)

OffsetBoundaries ==
       Opening("h", File, CreateNew(ReadWrite), "ok") \o Writing("h", AddressMax, <<>>, "ok")
    \o Writing("h", AddressMax, <<1>>, "EINVAL") \o Truncating("h", AddressMax, "ENOSPC")
    \o Writing("h", 0, Four, "ok") \o Writing("h", 4, <<1>>, "ENOSPC") \o Truncating("h", 0, "ok") \o StatLen(File, 0) \o Closing("h", "ok")

ReaddirSemantics ==
       OnPath("mkdir", Dir, "ok") \o WriteFile(File, <<1>>) \o Listing(<<>>, {"dir", "file"})
    \o OnPath("unlink", File, "ok") \o OnPath("mkdir", <<"new">>, "ok") \o Listing(<<>>, {"dir", "new"})
    \o OnPath("readdir", <<"dir", "missing">>, "ENOENT") \o WriteFile(<<"dir", "file">>, <<1>>)
    \o OnPath("readdir", <<"dir", "file">>, "ENOTDIR")

MkdirErrors ==
       OnPath("mkdir", Dir, "ok") \o OnPath("mkdir", Dir, "EEXIST") \o OnPath("mkdir", <<"missing", "child">>, "ENOENT")
    \o WriteFile(File, <<1>>) \o OnPath("mkdir", <<"file", "child">>, "ENOTDIR")

HeldAfterUnlink ==
       Opening("held", <<"held">>, CreateNew(ReadWrite), "ok") \o Writing("held", 0, Four, "ok") \o OnPath("unlink", <<"held">>, "ok")
    \o OnPath("stat", <<"held">>, "ENOENT") \o Reading("held", 0, 4, Four)
    \o Opening("next", <<"next">>, CreateNew(WriteOnly), "ok") \o Writing("next", 0, <<1>>, "ENOSPC")
    \o Closing("held", "ok") \o Writing("next", 0, <<1>>, "ok") \o Closing("next", "ok")
HeldAfterRename ==
       WriteFile(<<"path">>, Old) \o Opening("old", <<"path">>, ReadOnly, "ok") \o WriteFile(<<"r">>, New)
    \o Moving(<<"r">>, <<"path">>, "ok") \o Contents(<<"path">>, New) \o Reading("old", 0, 8, Old) \o Closing("old", "ok")

DirectoriesCount ==
       OnPath("mkdir", Dir, "ok") \o OnPath("mkdir", <<"other">>, "ENOSPC") \o Opening("h", File, CreateNew(WriteOnly), "ENOSPC")
    \o OnPath("rmdir", Dir, "ok") \o Opening("h", File, CreateNew(WriteOnly), "ok")

\* run: every test with the quota its file system is made with.
Suite == {[quota |-> Unlimited, calls |-> calls] :
             calls \in {OpenModesAndErrors, AppendModeAppends, OffsetsAndOverwrite, CrossHandleVisibility, RenameSemantics,
                        RemovalSemantics, PathNormalization, ClosedHandleErrors, TruncateGrowsAndShrinks, ReaddirSemantics,
                        MkdirErrors, HeldAfterRename}}
    \cup {[quota |-> Quota(4, 8, 4), calls |-> calls] : calls \in {QuotaExact, QuotaAfterUnlink, QuotaAfterTruncate, OffsetBoundaries, HeldAfterUnlink}}
    \cup {[quota |-> Quota(8, 8, 4), calls |-> QuotaAfterRename], [quota |-> Quota(16, 1, 16), calls |-> DirectoriesCount]}

-----------------------------------------------------------------------------
Usage(bytes, files) == <<[op |-> "stats", expect |-> "ok", val |-> <<bytes, files>>]>>
Call(op, res) == <<[op |-> op, expect |-> res]>>

\* run_snapshots: "branch" makes the branch current, "switch" changes sides.
MutateAfterSnapshot ==
       WriteFile(File, Old) \o Call("snapshot", "ok") \o Opening("h", File, WriteOnly, "ok") \o Writing("h", 0, New, "ok") \o Closing("h", "ok")
    \o OnPath("unlink", File, "ok") \o Call("branch", "ok") \o Contents(File, Old)
    \o Call("switch", "ok") \o Call("restore", "ok") \o Contents(File, Old)
RestoreRecreates ==
       OnPath("mkdir", Dir, "ok") \o WriteFile(<<"dir", "a">>, Old) \o WriteFile(<<"root">>, New) \o Opening("held", <<"root">>, ReadOnly, "ok")
    \o Call("snapshot", "ok") \o Moving(<<"dir", "a">>, <<"renamed">>, "ok") \o OnPath("unlink", <<"root">>, "ok") \o Call("restore", "ok")
    \o Contents(<<"dir", "a">>, Old) \o Contents(<<"root">>, New) \o OnPath("stat", <<"renamed">>, "ENOENT") \o NotReading("held", "EBADF")
BranchesIndependent ==
       WriteFile(File, Old) \o Call("snapshot", "ok") \o Call("branch", "ok") \o Call("switch", "ok")
    \o Opening("s", File, WriteOnly, "ok") \o Writing("s", 0, <<9>>, "ok") \o Closing("s", "ok") \o Call("switch", "ok")
    \o Opening("b", File, WriteOnly, "ok") \o Writing("b", 0, New, "ok") \o Closing("b", "ok")
    \o Call("switch", "ok") \o Contents(File, <<9, 2, 3>>) \o Call("switch", "ok") \o Contents(File, <<4, 5, 3>>)
SnapshotQuota ==
       OnPath("mkdir", Dir, "ok") \o WriteFile(File, Four) \o Usage(4, 2) \o Call("snapshot", "ok")
    \o OnPath("unlink", File, "ok") \o Usage(0, 1) \o Call("restore", "ok") \o Usage(4, 2) \o Contents(File, Four)
    \o Call("branch", "ok") \o Usage(4, 2) \o Opening("h", File, WriteOnly, "ok") \o Writing("h", 0, Five, "ENOSPC") \o Closing("h", "ok")
    \o Call("smaller", "ok") \o Call("restore", "ENOSPC") \o Usage(0, 0)

SnapshotSuite == {[quota |-> Unlimited, calls |-> calls] : calls \in {MutateAfterSnapshot, RestoreRecreates, BranchesIndependent}}
    \cup {[quota |-> Quota(4, 2, 4), calls |-> SnapshotQuota]}
=============================================================================
