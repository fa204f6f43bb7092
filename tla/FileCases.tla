----------------------------- MODULE FileCases -----------------------------
(***************************************************************************)
(* The calls that the run files makes on LocalVfs and on S3Vfs.            *)
(***************************************************************************)
EXTENDS Naturals, Sequences, TLC

CONSTANT MaxPathDepth

(***************************************************************************)
(* LocalVfs: two callers that meet on the same directories, and the        *)
(* conformance suite.                                                      *)
(***************************************************************************)
C == INSTANCE VfsConformance

LocalHandles == {"h1", "h2", "h3", "h", "w", "p", "r", "t", "a", "o", "b", "tmp", "held", "next", "old"}

Dir(ents) == [kind |-> "dir", ents |-> ents]
File(len) == [kind |-> "file", len |-> len]
Other == [kind |-> "other"]

\* /a/f, /a/g, /b/f, /d and the link /l
LocalTree == 0 :> Dir("a" :> 1 @@ "b" :> 2 @@ "d" :> 3 @@ "l" :> 4) @@ 1 :> Dir("f" :> 5 @@ "g" :> 6)
          @@ 2 :> Dir("f" :> 7) @@ 3 :> Dir(<<>>) @@ 4 :> Other @@ 5 :> File(1) @@ 6 :> File(2) @@ 7 :> File(1)

Path(op, path) == [op |-> op, path |-> <<"">> \o path]
Move(from, to) == [op |-> "rename", path |-> <<"">> \o from, to |-> <<"">> \o to]
Mode == [read |-> TRUE, write |-> TRUE, append |-> FALSE, create |-> FALSE, createNew |-> FALSE, truncate |-> FALSE]
ReadOnly == [Mode EXCEPT !.write = FALSE]
Create == [Mode EXCEPT !.create = TRUE]
Replace == [Create EXCEPT !.truncate = TRUE]
CreateNew == [Create EXCEPT !.createNew = TRUE]
OpenAs(h, path, mode) == [op |-> "open", path |-> <<"">> \o path, mode |-> mode, h |-> h]
WriteTo(h, off, len) == [op |-> "write", h |-> h, off |-> off, bytes |-> [i \in 1 .. len |-> 1]]
TruncateTo(h, len) == [op |-> "truncate", h |-> h, len |-> len]
OnHandle(op, h) == [op |-> op, h |-> h]
ReadFrom(h) == [op |-> "read", h |-> h, off |-> 0, len |-> 2]
RefreshAll == [op |-> "refresh"]

Af == <<"a", "f">>
Bf == <<"b", "f">>

\* A file written and replaced while it is open, against what moves or
\* removes it.
Sessions == {
    <<OpenAs("h1", Af, Mode), WriteTo("h1", 1, 2), WriteTo("h1", 0, 3), TruncateTo("h1", 0), OnHandle("close", "h1")>>,
    <<OpenAs("h1", Bf, Replace), WriteTo("h1", 0, 2), Path("unlink", Bf), WriteTo("h1", 2, 1), OnHandle("close", "h1"), RefreshAll>>,
    <<OpenAs("h1", <<"a", "n">>, CreateNew), WriteTo("h1", 0, 1), Move(<<"a", "n">>, Af), OnHandle("close", "h1")>>,
    <<OpenAs("h1", Af, ReadOnly), ReadFrom("h1"), WriteTo("h1", 0, 1), TruncateTo("h1", 1), Path("unlink", Af), OnHandle("close", "h1")>>,
    <<OpenAs("h1", Af, [Mode EXCEPT !.append = TRUE]), OpenAs("h3", Af, ReadOnly), Move(<<"a", "g">>, Af),
      OnHandle("close", "h1"), RefreshAll, OnHandle("close", "h3")>>}

Intruders == {
    <<Move(Bf, Af), Path("unlink", Af), Path("mkdir", Af), Path("rmdir", Af)>>,
    <<Path("unlink", Af), OpenAs("h2", Af, Create), WriteTo("h2", 0, 1), OnHandle("close", "h2"), Path("stat", Af)>>,
    <<Move(<<"a">>, <<"d">>), Path("readdir", <<"a">>), RefreshAll, Path("rmdir", <<"b">>), Path("rmdir", <<"d">>)>>,
    <<Path("unlink", Bf), Path("rmdir", <<"b">>), Path("mkdir", <<"b">>), OpenAs("h2", Bf, Create), OnHandle("close", "h2")>>,
    <<Move(Af, <<"l">>), Path("stat", <<"l">>), Path("mkdir", <<"l">>), OnHandle("close", "h2")>>,
    <<[op |-> "set_usage", used |-> 6, count |-> 2], OpenAs("h2", Bf, Mode), WriteTo("h2", 0, 2), RefreshAll>>}

\* The answers one caller alone gets at the edges of each call.
Edges == {
    <<Path("stat", <<>>), Path("mkdir", <<>>), Path("unlink", <<>>), Path("rmdir", <<>>), Move(<<>>, Af), OpenAs("h1", <<>>, Mode)>>,
    <<Path("stat", <<"l">>), OpenAs("h1", <<"l">>, Mode), Path("unlink", <<"l">>), Path("rmdir", <<"l">>), Path("readdir", <<"l">>), Move(<<"l">>, Af)>>,
    <<Path("stat", <<"l", "f">>), Path("stat", <<"a", "f", "g">>), Path("readdir", Af), Path("rmdir", Af), Path("rmdir", <<"a">>), Path("unlink", <<"a">>)>>,
    <<Move(<<"a">>, <<"a", "d">>), Move(<<"a">>, <<"d", "a">>), Move(Af, <<"d">>), Move(<<"d">>, Af), Move(<<"d">>, <<"b">>), Move(Af, Af)>>,
    <<OpenAs("h1", Af, CreateNew), OpenAs("h1", <<"a", "z">>, Mode), Path("mkdir", <<"d", "n">>), Path("mkdir", <<"d", "m">>), OpenAs("h1", <<"d", "o">>, Create),
      Move(<<"a">>, <<"d", "n", "a">>), Path("stat", <<"d", "n", "a", "f">>), Move(Af, <<"d", "n", "a", "f">>)>>,
    <<OnHandle("close", "h1"), WriteTo("h1", 0, 1), TruncateTo("h1", 0), ReadFrom("h1"), OpenAs("h1", Af, Mode), WriteTo("h1", 4, 1), TruncateTo("h1", 3)>>}

\* Calls whose directories another call renames between walk and turn.
Movers == {<<Move(<<"a">>, <<"d">>)>>, <<Move(<<"a">>, <<"d", "a">>)>>}
Walkers == {<<Move(Af, <<"d", "f">>)>>, <<Path("mkdir", <<"a", "n">>)>>, <<OpenAs("h1", <<"a", "n">>, Create)>>}

SmallQuota == [bytes |-> 7, files |-> 8, size |-> 4]
Pair(s, t) == [tree |-> LocalTree, quota |-> SmallQuota, calls |-> "c1" :> s @@ "c2" :> t]
Alone(test) == [tree |-> 0 :> Dir(<<>>), quota |-> test.quota, calls |-> "c1" :> test.calls @@ "c2" :> <<>>]

\* /a/e and /d: an entry made in /a/e while /a moves below /d
DeepTree == 0 :> Dir("a" :> 1 @@ "d" :> 2) @@ 1 :> Dir("e" :> 3) @@ 2 :> Dir(<<>>) @@ 3 :> Dir(<<>>)
Deep == {[tree |-> DeepTree, quota |-> SmallQuota,
          calls |-> "c1" :> <<Path("mkdir", <<"a", "e", "n">>)>> @@ "c2" :> <<Move(<<"a">>, <<"d", "a">>)>>]}

LocalScripts == {Pair(s, t) : s \in Sessions, t \in Intruders} \cup {Pair(s, <<>>) : s \in Edges}
             \cup {Pair(s, t) : s \in Walkers, t \in Movers} \cup Deep \cup {Alone(test) : test \in C!Suite}

-----------------------------------------------------------------------------
(***************************************************************************)
(* S3Vfs: two callers over a bucket that holds x, d/f, the marker of e,    *)
(* and the object y beside the key y/z.                                    *)
(***************************************************************************)
c1 == "c1"
c2 == "c2"
h1 == "h1"
h2 == "h2"
S3Callers == {c1, c2}
S3Handles == {h1, h2}

x == <<"x">>
y == <<"y">>
d == <<"d">>
e == <<"e">>
f == <<"d", "f">>
g == <<"d", "g">>

S3Bodies == x :> <<1, 2, 3>> @@ f :> <<1>> @@ <<"e", "">> :> <<>> @@ y :> <<1>> @@ <<"y", "z">> :> <<>>

ModeOf(read, write, create, createNew, truncate, append) ==
    [read |-> read, write |-> write, create |-> create, createNew |-> createNew,
     truncate |-> truncate, append |-> append]
R == ModeOf(TRUE, FALSE, FALSE, FALSE, FALSE, FALSE)
RC == ModeOf(TRUE, FALSE, TRUE, FALSE, FALSE, FALSE)
W == ModeOf(FALSE, TRUE, TRUE, FALSE, TRUE, FALSE)
WX == ModeOf(FALSE, TRUE, TRUE, TRUE, FALSE, FALSE)
A == ModeOf(FALSE, TRUE, TRUE, FALSE, FALSE, TRUE)
RW == ModeOf(TRUE, TRUE, FALSE, FALSE, FALSE, FALSE)
WR == ModeOf(TRUE, TRUE, TRUE, FALSE, TRUE, FALSE)

open(h, path, mode) == [op |-> "open", h |-> h, path |-> path, mode |-> mode]
write(h, off, data) == [op |-> "write", h |-> h, off |-> off, data |-> data]
read(h, off) == [op |-> "read", h |-> h, off |-> off]
truncate(h, len) == [op |-> "truncate", h |-> h, len |-> len]
close(h) == [op |-> "close", h |-> h]
abort(h) == [op |-> "abort", h |-> h]
path(op, p) == [op |-> op, path |-> p]
rename(p, to) == [op |-> "rename", path |-> p, to |-> to]

Both(s1, s2) == (c1 :> s1) @@ (c2 :> s2)

\* A shared handle: one caller writes through it while the other releases it.
Shared == {Both(<<open(h1, x, W), write(h1, 0, <<7>>), write(h1, 3, <<8, 9>>)>>, <<s, write(h1, 1, <<6>>)>>) :
              s \in {close(h1), abort(h1), truncate(h1, 1)}}
          \cup {Both(<<open(h1, <<"n">>, W), write(h1, 4, <<8>>), truncate(h1, 6), truncate(h1, 3), close(h1)>>,
                     <<truncate(h1, 1), read(h1, 0)>>)}

\* Two handles on one file: edits, replacements, exclusive creations, reads.
Edits == {<<open(h1, x, A), write(h1, 0, <<7>>), close(h1)>>,
          <<open(h1, x, RW), read(h1, 1), write(h1, 1, <<8>>), truncate(h1, 4), close(h1)>>,
          <<open(h1, x, R), read(h1, 0), read(h1, 3), close(h1)>>}
Others == {<<open(h2, x, W), write(h2, 0, <<9, 9>>), write(h2, 2, <<9>>), close(h2)>>,
           <<open(h2, x, WR), write(h2, 0, <<5>>), read(h2, 0), close(h2)>>,
           <<path("unlink", x)>>, <<rename(f, x)>>}
Creates == {Both(<<open(h1, g, WX), write(h1, 0, <<7>>), close(h1)>>, <<open(h2, g, WX), close(h2)>>)}
           \cup {Both(<<open(h1, g, W), write(h1, 0, <<7>>), close(h1)>>, <<open(h2, g, W), write(h2, 0, <<8>>), close(h2)>>)}

\* Path calls against each other and against a commit in the same directory.
Paths == {<<path("unlink", f)>>, <<rename(f, <<"e", "f">>)>>, <<rename(d, e)>>,
          <<path("mkdir", d), path("rmdir", d)>>, <<path("rmdir", e), path("mkdir", e)>>,
          <<path("stat", f), path("readdir", d), path("readdir", f)>>}
Commits == {<<open(h2, f, RW), write(h2, 0, <<6>>), close(h2)>>, <<open(h2, g, RC), close(h2)>>,
            <<rename(f, g), path("unlink", g)>>}

\* Refusals that need no concurrency.
Refusals == {Both(<<rename(d, <<"d", "k">>), rename(x, d), rename(d, x), rename(e, d), rename(x, x), rename(x, <<>>),
                    path("mkdir", <<>>), path("rmdir", d), path("rmdir", x), path("unlink", d), path("unlink", y),
                    path("stat", <<"x", "k">>), path("stat", <<"k", "k">>), path("rmdir", <<"k">>),
                    open(h1, d, R), open(h1, <<"k">>, R), open(h1, x, WX), open(h1, x, RW),
                    write(h1, 4, <<1>>), close(h1), read(h1, 0)>>, <<>>)}

S3Scripts == {Both(s, t) : s \in Edits \cup Paths, t \in Others \cup Commits}
             \cup Shared \cup Creates \cup Refusals
=============================================================================
