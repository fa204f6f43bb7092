---------------------------- MODULE CommandCases ----------------------------
(***************************************************************************)
(* Commands for FileTools, JsRuntime, JqWorker and TextTools.              *)
(***************************************************************************)
EXTENDS Naturals, Sequences, TLC

CONSTANT MaxPathDepth

-----------------------------------------------------------------------------
\* Commands on files, over two mounts: "m" writes through, "s" stages until close.
V == INSTANCE Vfs
M == INSTANCE MountedVfs

Tools == {"p", "q"}
FileRoom == [bytes |-> 9, files |-> 8, size |-> 4]
FileM == [V!NewVfs(FileRoom, FALSE) EXCEPT !.tree = (<<>> :> [kind |-> "dir"] @@ <<"d">> :> [kind |-> "dir"] @@ <<"d", "e">> :> [kind |-> "dir"]
                                                  @@ <<"d", "a">> :> [kind |-> "file", ino |-> 1]),
                                        !.data = 1 :> <<1, 2, 3>>, !.next = 2]
FileS == [V!NewVfs(FileRoom, TRUE) EXCEPT !.tree = (<<>> :> [kind |-> "dir"] @@ <<"f">> :> [kind |-> "file", ino |-> 1]),
                                       !.data = 1 :> <<7>>, !.next = 2]
FileStart == M!NewMounts([n \in {"m", "s"} |-> IF n = "m" THEN FileM ELSE FileS])

Cmd(name, flags, paths) == [name |-> name, flags |-> flags, paths |-> paths]
A == <<"m", "d", "a">>
D == <<"m", "d">>
S == <<"s">>
SF == <<"s", "f">>
NoFiles == Cmd("touch", {}, <<>>)

\* Commands that change the same files, and single commands on the edges.
FileWorks == {Cmd("cp", {"r"}, <<D, S>>), Cmd("cp", {}, <<A, SF>>), Cmd("rm", {"r", "f"}, <<D>>), Cmd("cp", {}, <<SF, A, D>>)}
Neighbours == {Cmd("mv", {}, <<A, Append(D, "b")>>), Cmd("rm", {}, <<A>>), Cmd("touch", {}, <<SF>>)}
FileEdges == {Cmd("rm", {"x"}, <<>>), Cmd("rm", {"f"}, <<>>), Cmd("cp", {}, <<A>>), Cmd("cp", {}, <<A, SF, SF>>),
          Cmd("cp", {}, <<D, S>>), Cmd("cp", {"r"}, <<D, Append(D, "e")>>), Cmd("cp", {}, <<A, A>>), Cmd("mv", {}, <<A, S>>),
          Cmd("mv", {}, <<A, SF, D>>), Cmd("mkdir", {"p"}, <<SF, <<"m", "n", "o">>>>), Cmd("mkdir", {}, <<D, <<"x">>, <<"m", "n">>>>),
          Cmd("rm", {}, <<D>>), Cmd("rm", {"r"}, <<D, <<>>>>), Cmd("cp", {}, <<<<"bin", "ls">>, S>>), Cmd("touch", {}, <<<<"bin", "ls">>>>),
          Cmd("cp", {}, <<<<"m", "nothing">>, S>>), Cmd("mv", {}, <<D, <<"m", "a", "b", "c", "d">>>>), Cmd("cp", {}, <<A, Append(SF, "x")>>)}
FileLines == {("p" :> w @@ "q" :> o) : w \in FileWorks, o \in Neighbours} \cup {("p" :> e @@ "q" :> NoFiles) : e \in FileEdges}

-----------------------------------------------------------------------------
\* Scripts of js, over two such mounts.
JsRoom == [bytes |-> 9, files |-> 6, size |-> 4]
DirNode == [kind |-> "dir"]
FileNode(i) == [kind |-> "file", ino |-> i]
JsM == [V!NewVfs(JsRoom, FALSE) EXCEPT !.tree = (<<>> :> DirNode @@ <<"d">> :> DirNode @@ <<"d", "a">> :> FileNode(1)),
                                        !.data = 1 :> <<1, 2, 3>>, !.next = 2]
JsS == [V!NewVfs(JsRoom, TRUE) EXCEPT !.tree = (<<>> :> DirNode @@ <<"e">> :> DirNode @@ <<"f">> :> FileNode(1)), !.data = 1 :> <<7>>, !.next = 2]
JsStart == M!NewMounts([n \in {"m", "s"} |-> IF n = "m" THEN JsM ELSE JsS])

SG == <<"s", "g">>
SX == <<"s", "e", "x">>

On(op, path) == [op |-> op, path |-> path, caught |-> TRUE]
Simple(op) == [op |-> op, caught |-> TRUE]
OpenF(path, flags) == [op |-> "open", path |-> path, flags |-> flags, caught |-> TRUE]
WriteF(fd, data, at) == [op |-> "write", fd |-> fd, data |-> data, at |-> at, caught |-> TRUE]
ReadF(fd, len, at) == [op |-> "read", fd |-> fd, len |-> len, at |-> at, caught |-> TRUE]
CloseF(fd) == [op |-> "close", fd |-> fd, caught |-> TRUE]
Cut2(fd, len) == [op |-> "ftruncate", fd |-> fd, len |-> len, caught |-> TRUE]
Put(op, path, data) == [op |-> op, path |-> path, data |-> data, caught |-> FALSE]
FromTo(op, path, to) == [op |-> op, path |-> path, to |-> to, caught |-> TRUE]
Rm(path, recursive, force) == [op |-> "rm", path |-> path, recursive |-> recursive, force |-> force, caught |-> TRUE]
Say(data) == [op |-> "print", data |-> data, caught |-> TRUE]
Quit(code) == [op |-> "exit", code |-> code, caught |-> TRUE]

Eval(script) == [kind |-> "eval", len |-> 1, script |-> script]
JsScripts ==
    {Eval(s) : s \in {
        <<OpenF(SF, "w"), WriteF(3, <<8, 9>>, <<>>), OpenF(SX, "wx"), WriteF(4, <<5>>, <<1>>), Quit(3)>>,
        <<OpenF(SF, "a"), WriteF(3, <<8>>, <<>>), Say(<<"x", "y">>), Simple("sleep"), Say(<<"z">>)>>,
        <<OpenF(SG, "w+"), WriteF(3, <<4, 5>>, <<>>), ReadF(3, 4, <<0>>), Simple("callback"), Simple("spin")>>,
        <<OpenF(SF, "r+"), Cut2(3, 3), ReadF(3, 4, <<>>), Simple("trap")>>,
        <<OpenF(SX, "w"), Rm(<<"s", "e">>, TRUE, FALSE), Simple("memory")>>,
        <<OpenF(SX, "w"), WriteF(3, <<1>>, <<>>), On("rmdir", <<"s", "e">>), OpenF(SG, "ax"), WriteF(4, <<2>>, <<0>>)>>,
        <<OpenF(A, "r"), OpenF(A, "q"), OpenF(SF, "r"), OpenF(SG, "w"), CloseF(3), CloseF(3), On("readFile", SF)>>,
        <<Put("writeFile", SG, <<1, 2, 3>>), FromTo("copyFile", A, SX), On("readFile", <<"bin", "ls">>), On("readFile", <<"bin">>)>>,
        <<OpenF(SG, "w+"), WriteF(3, <<4, 5>>, <<>>), [ReadF(3, 2, <<0>>) EXCEPT !.caught = FALSE], CloseF(3)>>,
        <<OpenF(A, "r"), CloseF(3), OpenF(A, "r"), CloseF(4), OpenF(A, "r"), CloseF(5), OpenF(A, "r")>>,
        <<Put("appendFile", SF, <<1, 2, 3>>), Put("writeFile", <<"m", "d">>, <<1>>)>>,
        <<Put("writeFile", SG, <<1, 2, 3, 4, 5>>)>>, <<Put("writeFile", SG, <<>>), Simple("callback")>>,
        <<[op |-> "mkdirp", path |-> <<"m", "d", "n">>, caught |-> TRUE], [op |-> "mkdirp", path |-> Append(A, "n"), caught |-> TRUE],
          Rm(<<"m", "none">>, FALSE, TRUE), Rm(D, FALSE, FALSE), Rm(D, TRUE, TRUE), On("exists", D), On("stat", A)>>,
        <<On("mkdir", SG), FromTo("rename", SF, SX), On("unlink", SF), On("readdir", SG), WriteF(9, <<1>>, <<>>), On("readFile", A)>>}}
    \cup {[kind |-> "usage"], [kind |-> "eval", len |-> 9, script |-> <<>>],
          [kind |-> "file", path |-> SF, utf8 |-> TRUE, script |-> <<Say(<<"x">>)>>], [kind |-> "file", path |-> SF, utf8 |-> FALSE],
          [kind |-> "file", path |-> A, utf8 |-> TRUE], [kind |-> "file", path |-> SG, utf8 |-> TRUE]}

-----------------------------------------------------------------------------
\* Command lines of jq.
Word == [k |-> "word", good |-> TRUE]
BadFilter == [k |-> "word", good |-> FALSE]
Flags(s) == [k |-> "flags", good |-> TRUE, set |-> s]
Opt(k) == [k |-> k, good |-> TRUE, set |-> {}]
Line(args, docs) == [args |-> args, docs |-> docs]
Doc(values) == "-" :> values @@ "word" :> <<"true">>

\* Guests that emit more than the channel holds, and each way to end.
Guests == {Line(<<Word>>, Doc(<<"true", "false", "true">>)), Line(<<Flags({"e"}), Word>>, Doc(<<"true", "false">>)),
           Line(<<Word>>, Doc(<<"true", "true", "loop">>)), Line(<<Word>>, Doc(<<"true", "error">>)), Line(<<Word>>, Doc(<<"false", "halt">>)),
           Line(<<Word>>, Doc(<<"memory">>)), Line(<<Word>>, Doc(<<"true", "trap">>))}
\* Command lines and inputs on their edges.
EdgeLines == {Line(<<>>, Doc(<<>>)), Line(<<Flags({"x"}), Word>>, Doc(<<>>)), Line(<<Opt("long"), Word>>, Doc(<<>>)),
          Line(<<Opt("indent")>>, Doc(<<>>)), Line(<<Opt("var"), Word, [k |-> "word", good |-> FALSE], Word>>, Doc(<<"true">>)),
          Line(<<Opt("var"), BadFilter, Word, Word>>, Doc(<<>>)), Line(<<Opt("--"), Flags({"n"})>>, Doc(<<"true">>)),
          Line(<<Flags({"n", "e"}), Opt("tab"), Word>>, Doc(<<>>)), Line(<<Flags({"s"}), Word>>, Doc(<<"true", "bad">>)),
          Line(<<Word, Opt("-"), Opt("-"), Word>>, Doc(<<"true", "true">>)), Line(<<Word, Opt("missing")>>, Doc(<<>>)),
          Line(<<Word>>, Doc(<<"true", "true", "true", "true", "true">>)), Line(<<Opt("indent"), Word, BadFilter>>, Doc(<<"true">>)),
          Line(<<Flags({"e"}), Word>>, Doc(<<>>)), Line(<<Word>>, Doc(<<"true", "deep">>))}
PlainLine == Line(<<Flags({"n"}), Word>>, Doc(<<>>))
NoLine == Line(<<>>, Doc(<<>>))
JqLines == {("a" :> g @@ "b" :> NoLine) : g \in Guests \cup EdgeLines} \cup {("a" :> Line(<<Word>>, Doc(<<"true", "true">>)) @@ "b" :> PlainLine)}

-----------------------------------------------------------------------------
\* Text commands on one or two short inputs.
a == 97
b == 98
nl == 10
space == 32

In(kind, name, text, fails) ==
    [kind |-> kind, name |-> name, text |-> text, fails |-> fails, entries |-> <<>>]
DirIn(name, entries) ==
    [kind |-> "dir", name |-> name, text |-> <<>>, fails |-> FALSE, entries |-> entries]

Texts == {<<>>, <<a>>, <<a, nl, a, nl, b>>, <<nl, nl, a, b, nl>>, <<a, b, nl, b, 13, nl>>,
          <<a, b, a, b, nl>>, <<space, 50, nl, 49, 49, nl>>}
\* For sort -n: -0 and 0, 1.5 and 1.
Numbers == {<<45, 48, nl, 48>>, <<49, 46, 53, nl, 49>>, <<48, nl, 45, 49>>, <<46, 53, nl, 48>>}

One == {<<In("stdin", 0, t, FALSE)>> : t \in Texts}
       \cup {<<In("file", 1, t, TRUE)>> : t \in {<<>>, <<a, nl, a>>, <<a, b, nl>>}}
       \cup {<<In("missing", 1, <<>>, FALSE)>>}
Two == {<<In("file", 1, t, FALSE), u>> :
            t \in {<<a, nl>>, <<a, b, nl, nl>>},
            u \in {In("missing", 2, <<>>, FALSE), In("file", 2, <<nl, b>>, FALSE)}}
       \cup {<<In("missing", 1, <<>>, FALSE), In("stdin", 9, <<a, nl>>, FALSE)>>,
             <<In("file", 1, <<a>>, TRUE), In("file", 2, <<b, a, nl>>, FALSE)>>}

Walks == {<<DirIn(1, <<In("file", 2, <<a, nl>>, FALSE), DirIn(3, <<>>), In("missing", 4, <<>>, FALSE)>>)>>,
          <<DirIn(1, <<In("file", 2, <<b, nl>>, FALSE), DirIn(3, <<In("file", 4, <<a>>, FALSE)>>)>>),
            In("file", 5, <<b>>, FALSE)>>}

CatFlags == {[number |-> n, nonblank |-> nb, squeeze |-> s, ends |-> n /\ s] :
                n \in BOOLEAN, nb \in BOOLEAN, s \in BOOLEAN}
GrepFlags == {[pattern |-> a, invert |-> v, numbers |-> n, count |-> c, recursive |-> FALSE] :
                v \in BOOLEAN, n \in BOOLEAN, c \in BOOLEAN}
WalkFlags == {[pattern |-> a, invert |-> FALSE, numbers |-> TRUE, count |-> c, recursive |-> r] :
                c \in BOOLEAN, r \in BOOLEAN}
CountFlags == {[lines |-> n, from |-> f] : n \in 0..2, f \in BOOLEAN} \ {[lines |-> 0, from |-> TRUE]}
UniqFlags == {[count |-> c, repeated |-> r, unique |-> u] : c \in BOOLEAN, r \in BOOLEAN, u \in BOOLEAN}
SedFlags == {[pattern |-> a, global |-> g, with |-> w] :
                g \in BOOLEAN, w \in {<<38, 38>>, <<92, 110, 92>>, <<92, 49>>}}
SortFlags == {[numeric |-> n, unique |-> u, reverse |-> r] : n \in BOOLEAN, u \in BOOLEAN, r \in BOOLEAN}

NoFlags == [none |-> TRUE]

Command(name, flags, inputs, faults) ==
    [tool |-> name, flags |-> flags, inputs |-> inputs, unknown |-> FALSE, faults |-> faults]

Every(name, flags, inputs) ==
    {Command(name, f, i, Len(i) > 1 \/ Head(i).name = 1) : f \in flags, i \in inputs}

TextJobs ==
    Every("cat", CatFlags, One \cup Two)
    \cup Every("head", {f \in CountFlags : ~f.from}, One \cup Two)
    \cup Every("tail", CountFlags, One \cup Two)
    \cup Every("grep", GrepFlags, One \cup Two)
    \cup Every("grep", WalkFlags, Walks)
    \cup Every("uniq", UniqFlags, One \cup Two)
    \cup Every("sed", SedFlags, One \cup Two)
    \cup Every("wc", {NoFlags}, One \cup Two)
    \cup Every("sort", SortFlags, One \cup Two)
    \cup Every("sort", SortFlags, {<<In("stdin", 0, t, FALSE)>> : t \in Numbers})
    \cup {[Command(name, NoFlags, <<In("stdin", 0, <<a>>, FALSE)>>, FALSE) EXCEPT !.unknown = TRUE] :
             name \in {"cat", "grep", "sort"}}
=============================================================================
