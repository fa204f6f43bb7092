------------------------------ MODULE FileTools ------------------------------
(***************************************************************************)
(* The commands that change files (cp, mv, rm, mkdir and touch in          *)
(* src/sandbox/builtins.rs), run by concurrent executions over one mount   *)
(* table.  A step is one call of the file system; between two calls the    *)
(* other commands run, backends fail and executions are cancelled.         *)
(***************************************************************************)
EXTENDS Naturals, Sequences, FiniteSets, Functions, SequencesExt, TLC

CONSTANTS Tools,          \* the commands that run at the same time
          Lines,          \* the functions from Tools to commands considered
          Start,          \* the mount table they start with
          Chunk,          \* STREAM_CHUNK_BYTES
          MaxFaults,      \* bound on failing calls and short writes
          MaxStops,       \* bound on cancelled executions
          BinCommands, MaxPathDepth

F == INSTANCE SandboxFs
M == INSTANCE MountedVfs
V == INSTANCE Vfs

VARIABLES fs,             \* the mount table
          tool,           \* the command each execution is at
          stopped,        \* the executions that are cancelled
          faults          \* failing calls and short writes so far

vars == <<fs, tool, stopped, faults>>

Idle(cmd) == [cmd |-> cmd, pc |-> "begin", todo |-> <<>>, src |-> <<>>, dst |-> <<>>, dirs |-> <<>>, dir |-> <<>>, then |-> "none",
              from |-> 0, into |-> 0, off |-> 0, chunk |-> <<>>, err |-> "ok", exit |-> 0,
              read |-> <<>>, eof |-> FALSE, good |-> TRUE, alone |-> TRUE, due |-> {}, complete |-> TRUE]

ToolsInit ==
    /\ fs = Start
    /\ tool \in {[p \in Tools |-> Idle(line[p])] : line \in Lines}
    /\ stopped = {}
    /\ faults = 0

Stopped(p) == p \in stopped
At(p, pc) == tool[p].pc = pc
Finishing(p) == tool[p].pc \in {"publish", "discard"}
Goto(t, pc) == [t EXCEPT !.pc = pc]
Exit(t, code) == [t EXCEPT !.pc = "done", !.exit = code]

-----------------------------------------------------------------------------
(* What a reader of the file system sees of a path and of a subtree.       *)
Shown(m, p) ==
    LET Of(a) == IF a.res # "ok" THEN <<"none">>
                 ELSE IF a.val.kind = "dir" THEN <<"dir">> ELSE <<"file", M!On(m, p).data[V!Ino(M!On(m, p), Tail(p))]>>
    IN  Of(M!Stat(m, p))
Seen(m) == [n \in DOMAIN m.mounts |-> <<m.mounts[n].tree, Restrict(m.mounts[n].data, V!Linked(m.mounts[n]))>>]
Copied(m, p, q) == \A r \in V!Below(M!On(m, p), Tail(p)) : LET rest == SubSeq(r, Len(p), Len(r))
                                                           IN  Shown(m, q \o rest) = Shown(m, p \o rest)

\* What the operand asks for has come about.
Effect(t, m) ==
    CASE t.cmd.name = "cp" -> M!Mounted(m, t.src) /\ Shown(m, t.src) # <<"none">> /\ Copied(m, t.src, t.dst)
      [] t.cmd.name = "mv" -> Shown(m, t.dst) # <<"none">> /\ (t.src = t.dst \/ Shown(m, t.src) = <<"none">>)
      [] t.cmd.name = "rm" -> Shown(m, t.todo[1]) = <<"none">>
      [] t.cmd.name = "mkdir" -> Shown(m, t.todo[1]) = <<"dir">>
      [] t.cmd.name = "touch" -> Shown(m, t.todo[1])[1] = "file"

\* The ghost "due" holds the paths an operand has found and not yet dealt with:
\* a file until it is copied or removed, a directory until it is listed (cp) or
\* removed (rm).
Finds(t, paths) == [t EXCEPT !.due = @ \cup paths]
DealtWith(t, a) == IF a.res = "ok" THEN [t EXCEPT !.due = @ \ {t.src}] ELSE t

\* The operand is over: an error is reported and the next operand is tried.
Ended(t, res, m) ==
    LET ignored == t.cmd.name = "rm" /\ "f" \in t.cmd.flags /\ res = "ENOENT"
    IN  [Idle(t.cmd) EXCEPT !.pc = "operand", !.todo = Tail(t.todo),
                            !.exit = IF res = "ok" \/ ignored THEN t.exit ELSE 1,
                            !.good = t.good /\ Effect(t, m), !.alone = t.alone,
                            !.complete = t.complete /\ (t.due = {} \/ ignored)]

\* A call of the file system: its answer, or a failure of the backend.  The
\* ghost "alone" records that no other command has changed what p works on.
Take(p, answer, After(_)) ==
    \E a \in {answer} : \E quiet \in {Seen(a.v) = Seen(fs)} :
       /\ fs' = a.v
       /\ tool' = [q \in Tools |-> IF q = p THEN After(a) ELSE [tool[q] EXCEPT !.alone = @ /\ (tool[q].pc = "done" \/ quiet)]]
       /\ UNCHANGED stopped
Call(p, answer, failure, After(_)) ==
    \/ Take(p, answer, After) /\ UNCHANGED faults
    \/ faults < MaxFaults /\ faults' = faults + 1 /\ Take(p, failure, After)
Ask(p, answer, After(_)) == Call(p, answer, F!Error(fs, "EIO"), After)
Local(p, t) == tool' = [tool EXCEPT ![p] = t] /\ UNCHANGED <<fs, stopped, faults>>

-----------------------------------------------------------------------------
\* Arguments: an unknown flag, or operands that are missing.
Needed(name) == IF name \in {"cp", "mv"} THEN 2 ELSE 1
Known(name) == CASE name = "cp" -> {"r"} [] name = "rm" -> {"r", "f"} [] name = "mkdir" -> {"p"} [] OTHER -> {}
Begin(p) ==
    LET t == tool[p]
        cmd == t.cmd
        moving == cmd.name \in {"cp", "mv"}
        operands == IF moving THEN Front(cmd.paths) ELSE cmd.paths
    IN  /\ At(p, "begin")
        /\ Local(p, CASE ~(cmd.flags \subseteq Known(cmd.name)) -> Exit(t, 1)
                      [] cmd.paths = <<>> /\ "f" \in cmd.flags -> Exit(t, 0)
                      [] Len(cmd.paths) < Needed(cmd.name) -> Exit(t, 1)
                      [] OTHER -> [t EXCEPT !.pc = IF moving /\ Len(operands) > 1 THEN "target" ELSE "operand", !.todo = operands])

\* With several sources the destination has to be a directory.
IsDir(a) == a.res = "ok" /\ a.val.kind = "dir"
Target(p) ==
    LET t == tool[p]
    IN  /\ At(p, "target")
        /\ Ask(p, F!Stat(fs, Stopped(p), Last(t.cmd.paths)), LAMBDA a : IF IsDir(a) THEN Goto(t, "operand") ELSE Exit(t, 1))

Operand(p) ==
    LET t == tool[p]
        path == t.todo[1]
    IN  /\ At(p, "operand")
        /\ Local(p, CASE t.todo = <<>> -> Exit(t, t.exit)
                      [] t.todo # <<>> /\ t.cmd.name \in {"cp", "mv"} -> [t EXCEPT !.pc = "destination", !.src = path]
                      [] t.todo # <<>> /\ t.cmd.name = "mkdir" /\ "p" \in t.cmd.flags ->
                            [t EXCEPT !.pc = "parents", !.src = path]
                      [] OTHER -> Goto(t, t.cmd.name))

\* destination_for
Destination(p) ==
    LET t == tool[p]
        dest == Last(t.cmd.paths)
        into == IF t.src = <<>> THEN dest ELSE Append(dest, Last(t.src))
    IN  /\ At(p, "destination")
        /\ Ask(p, F!Stat(fs, Stopped(p), dest),
               LAMBDA a : [t EXCEPT !.dst = IF IsDir(a) THEN into ELSE dest, !.pc = t.cmd.name])

MakeDir(p) ==
    /\ At(p, "mkdir")
    /\ Ask(p, F!Mkdir(fs, Stopped(p), tool[p].todo[1]), LAMBDA a : Ended(tool[p], a.res, a.v))
Move(p) ==
    /\ At(p, "mv")
    /\ Ask(p, F!Rename(fs, Stopped(p), tool[p].src, tool[p].dst), LAMBDA a : Ended(tool[p], a.res, a.v))

\* Fs::touch
Touch(p) ==
    /\ At(p, "touch")
    /\ Ask(p, F!Open(fs, Stopped(p), tool[p].todo[1], V!Create(V!WriteOnly)),
           LAMBDA a : IF a.res = "ok" THEN [tool[p] EXCEPT !.into = a.val, !.pc = "commit"] ELSE Ended(tool[p], a.res, a.v))

\* mkdir_p: every prefix of the path in turn.
Parents(p) ==
    LET t == tool[p]
    IN  /\ At(p, "parents")
        /\ Local(p, IF t.dir = t.src THEN Ended(t, "ok", fs)
                    ELSE [t EXCEPT !.dir = SubSeq(t.src, 1, Len(@) + 1), !.pc = "ensure", !.then = "parents"])

-----------------------------------------------------------------------------
\* ensure_directory
Ensure(p) ==
    LET t == tool[p]
    IN  /\ At(p, "ensure")
        /\ Ask(p, F!Mkdir(fs, Stopped(p), t.dir),
               LAMBDA a : CASE a.res = "ok" -> Goto(t, t.then)
                            [] a.res = "EEXIST" -> Goto(t, "exists")
                            [] OTHER -> Ended(t, a.res, a.v))
Exists(p) ==
    LET t == tool[p]
    IN  /\ At(p, "exists")
        /\ Ask(p, F!Stat(fs, Stopped(p), t.dir),
               LAMBDA a : IF IsDir(a) THEN Goto(t, t.then) ELSE Ended(t, IF a.res = "ok" THEN "ENOTDIR" ELSE a.res, a.v))

\* copy_path, up to its first directory or file.
CopyChecked(t, a) ==
    LET dir == a.val.kind = "dir"
    IN  CASE a.res # "ok" -> Ended(t, a.res, a.v)
          [] t.src = t.dst \/ (dir /\ IsPrefix(t.src, t.dst)) -> Ended(t, "EINVAL", a.v)
          [] ~dir -> Goto(Finds(t, {t.src}), "source")
          [] dir /\ "r" \notin t.cmd.flags -> Ended(t, "EISDIR", a.v)
          [] OTHER -> [Finds(t, {t.src}) EXCEPT !.pc = "ensure", !.dir = t.dst, !.then = "list"]
Copy(p) == At(p, "cp") /\ Ask(p, F!Stat(fs, Stopped(p), tool[p].src), LAMBDA a : CopyChecked(tool[p], a))

\* remove_path, up to its first directory; a file is removed at once.
RemovePath(p) ==
    LET t == tool[p]
    IN  /\ At(p, "rm")
        /\ Ask(p, F!Stat(fs, Stopped(p), t.todo[1]),
               LAMBDA a : CASE a.res # "ok" -> Ended(t, a.res, a.v)
                            [] a.val.kind = "file" -> [Finds(t, {t.todo[1]}) EXCEPT !.src = t.todo[1], !.pc = "unlink"]
                            [] "r" \notin t.cmd.flags -> Ended(t, "EISDIR", a.v)
                            [] OTHER -> [Finds(t, {t.todo[1]}) EXCEPT !.src = t.todo[1], !.pc = "list"])

\* One frame per directory that is being walked: its path, the copy's path
\* and the entries left, each with the kind it had when it was listed.
Entries(m, path, names) == SetToSeq({<<n, F!Stat(m, FALSE, Append(path, n)).val.kind>> : n \in names})
List(p) ==
    LET t == tool[p]
        Found(a) == Finds(IF t.cmd.name = "cp" THEN DealtWith(t, a) ELSE t, {Append(t.src, n) : n \in a.val})
    IN  /\ At(p, "list")
        /\ Ask(p, F!Readdir(fs, Stopped(p), t.src),
               LAMBDA a : IF a.res # "ok" THEN Ended(t, a.res, a.v)
                          ELSE [Found(a) EXCEPT !.pc = "walk", !.dirs = Append(@, [src |-> t.src, dst |-> t.dst, left |-> Entries(fs, t.src, a.val)])])

\* The next entry of the directory on top.
SameEntry(t) ==
    LET top == Last(t.dirs)
    IN  [t EXCEPT !.src = Append(top.src, top.left[1][1]), !.dst = Append(top.dst, top.left[1][1])]
NextEntry(t) ==
    LET top == Last(t.dirs)
    IN  [t EXCEPT !.dirs[Len(t.dirs)].left = Tail(@), !.src = Append(top.src, top.left[1][1]), !.dst = Append(top.dst, top.left[1][1])]
Walk(p) ==
    LET t == tool[p]
        top == Last(t.dirs)
        rm == t.cmd.name = "rm"
        popped == [t EXCEPT !.dirs = Front(@), !.src = top.src, !.dst = top.dst]
        entered == NextEntry(t)
        isDir == top.left[1][2] = "dir"
    IN  /\ At(p, "walk")
        /\ Local(p, CASE Stopped(p) /\ t.dirs # <<>> -> Ended(t, "EIO", fs)
                      [] t.dirs = <<>> -> Ended([t EXCEPT !.dirs = <<>>], "ok", fs)
                      [] ~Stopped(p) /\ t.dirs # <<>> /\ top.left = <<>> -> IF rm THEN Goto(popped, "rmdir") ELSE popped
                      [] OTHER -> IF rm THEN Goto(entered, IF isDir THEN "list" ELSE "unlink")
                                  ELSE IF isDir THEN [entered EXCEPT !.pc = "ensure", !.dir = entered.dst, !.then = "list"]
                                  ELSE Goto(entered, "source"))

Unlink(p) ==
    LET t == tool[p]
    IN  /\ At(p, "unlink")
        /\ Ask(p, F!UnlinkFile(fs, Stopped(p), t.src),
               LAMBDA a : IF a.res = "ok" /\ t.dirs # <<>> THEN Goto(DealtWith(t, a), "walk") ELSE Ended(DealtWith(t, a), a.res, a.v))
RemoveDir(p) ==
    LET t == tool[p]
    IN  /\ At(p, "rmdir")
        /\ Ask(p, F!Rmdir(fs, Stopped(p), t.src), LAMBDA a : IF a.res = "ok" THEN Goto(DealtWith(t, a), "walk") ELSE Ended(t, a.res, a.v))

-----------------------------------------------------------------------------
\* copy_file
Source(p) ==
    LET t == tool[p]
    IN  /\ At(p, "source")
        /\ Ask(p, F!Open(fs, Stopped(p), t.src, V!ReadOnly),
               LAMBDA a : IF a.res # "ok" THEN Ended(t, a.res, a.v) ELSE [t EXCEPT !.from = a.val, !.pc = "dest"])
Dest(p) ==
    LET t == tool[p]
        fresh == [t EXCEPT !.off = 0, !.read = <<>>, !.eof = FALSE, !.err = "ok"]
    IN  /\ At(p, "dest")
        /\ Ask(p, F!Open(fs, Stopped(p), t.dst, V!Truncate(V!Create(V!WriteOnly))),
               LAMBDA a : IF a.res = "ok" THEN [fresh EXCEPT !.into = a.val, !.pc = "read"]
                          ELSE [t EXCEPT !.err = a.res, !.pc = "closeSource"])
Read(p) ==
    LET t == tool[p]
    IN  /\ At(p, "read")
        /\ Ask(p, F!ReadAt(fs, Stopped(p), t.from, t.off, Chunk),
               LAMBDA a : CASE a.res # "ok" -> [t EXCEPT !.err = a.res, !.pc = "closeSource"]
                            [] a.val = <<>> -> [t EXCEPT !.eof = TRUE, !.pc = "closeSource"]
                            [] OTHER -> [t EXCEPT !.chunk = a.val, !.read = @ \o a.val, !.pc = "write"])

\* A write may be short, and one that writes nothing is an error.
Wrote(t, n) == [t EXCEPT !.chunk = SubSeq(@, n + 1, Len(@)), !.off = @ + n, !.pc = IF n = Len(t.chunk) THEN "read" ELSE "write"]
Write(p) ==
    LET t == tool[p]
        Written(a) == IF a.res # "ok" \/ (a.res = "ok" /\ a.val = 0)
                      THEN [t EXCEPT !.err = IF a.res = "ok" THEN "EIO" ELSE a.res, !.pc = "closeSource"]
                      ELSE Wrote(t, a.val)
    IN  /\ At(p, "write")
        /\ \/ Ask(p, F!WriteAt(fs, Stopped(p), t.into, t.off, t.chunk), Written)
           \/ /\ faults < MaxFaults
              /\ faults' = faults + 1
              /\ \E n \in 0 .. Len(t.chunk) - 1 :
                    Take(p, F!WriteAt(fs, Stopped(p), t.into, t.off, SubSeq(t.chunk, 1, n)), Written)

\* The source is closed in any case, and its error counts.
CloseSource(p) ==
    LET t == tool[p]
    IN  /\ At(p, "closeSource")
        /\ Call(p, F!Close(fs, Stopped(p), t.from), [F!Abort(fs, t.from) EXCEPT !.res = "EIO"],
                LAMBDA a : LET err == IF t.err # "ok" THEN t.err ELSE a.res
                               closed == [t EXCEPT !.from = 0, !.err = err]
                           IN  IF t.into = 0 THEN Ended(t, err, a.v) ELSE Goto(closed, IF err = "ok" THEN "commit" ELSE "abort"))
CommitAnyway(p) ==
    LET t == tool[p]
    IN  /\ At(p, "abort")
        /\ Call(p, F!Close(fs, Stopped(p), t.into), [F!Abort(fs, t.into) EXCEPT !.res = "EIO"], LAMBDA a : Ended(t, t.err, a.v))
AbortDest(p) ==
    LET t == tool[p]
    IN  /\ At(p, "abort")
        /\ Call(p, F!Abort(fs, t.into), [F!Abort(fs, t.into) EXCEPT !.res = "EIO"], LAMBDA a : Ended(t, t.err, a.v))

\* Fs::finish: the registry gives the handle up and looks at the cancellation,
\* then the backend closes or aborts.  A cancellation in between comes too late.
Commit(p) ==
    /\ At(p, "commit")
    /\ Local(p, Goto(tool[p], IF Stopped(p) THEN "discard" ELSE "publish"))
Finish(p) ==
    LET t == tool[p]
        answer == IF t.pc = "publish" THEN M!Close(fs, t.into) ELSE F!Abort(fs, t.into)
    IN  /\ Finishing(p)
        /\ Call(p, answer, [F!Abort(fs, t.into) EXCEPT !.res = "EIO"],
                LAMBDA a : IF a.res = "ok" /\ t.dirs # <<>> THEN [DealtWith(t, a) EXCEPT !.into = 0, !.pc = "walk"]
                           ELSE Ended(DealtWith(t, a), a.res, a.v))

-----------------------------------------------------------------------------
\* The execution is cancelled: the command goes on and its calls fail, or its
\* future is dropped and the registry aborts the handles it held.  A close that
\* has begun runs to its end on its thread.
Stop(p) ==
    /\ Cardinality(stopped) < MaxStops
    /\ ~Stopped(p)
    /\ tool[p].pc # "done"
    /\ stopped' = stopped \cup {p}
    /\ UNCHANGED <<fs, tool, faults>>
Held(p) == {tool[p].from, tool[p].into} \ {0}
DropTool(p) ==
    /\ Stopped(p)
    /\ tool[p].pc # "done" /\ ~Finishing(p)
    /\ \E h \in Held(p) \cup {0} :
         /\ Held(p) # {} => h # 0
         /\ fs' = IF h = 0 THEN fs ELSE F!Abort(fs, h).v
         /\ tool' = [tool EXCEPT ![p].pc = IF Held(p) \subseteq {h} THEN "done" ELSE "sweep", ![p].exit = 124,
                                 ![p].from = IF @ = h THEN 0 ELSE @, ![p].into = IF @ = h THEN 0 ELSE @]
    /\ UNCHANGED <<stopped, faults>>

ToolStep(p) ==
    \/ Begin(p) \/ Target(p) \/ Operand(p) \/ Destination(p) \/ MakeDir(p) \/ Move(p) \/ Touch(p) \/ Parents(p)
    \/ Ensure(p) \/ Exists(p) \/ Copy(p) \/ RemovePath(p) \/ List(p) \/ Walk(p) \/ Unlink(p) \/ RemoveDir(p)
    \/ Source(p) \/ Dest(p) \/ Read(p) \/ Write(p) \/ CloseSource(p) \/ AbortDest(p) \/ Commit(p) \/ Finish(p)

ToolsDone == \A p \in Tools : At(p, "done")
ToolsEnd == ToolsDone /\ UNCHANGED vars
ToolsNext == (\E p \in Tools : ToolStep(p) \/ Stop(p) \/ DropTool(p)) \/ ToolsEnd
\* The runtime polls some command that is ready, and a drop runs to its end.
Runs == \E p \in Tools : ToolStep(p) \/ (At(p, "sweep") /\ DropTool(p))
ToolsSpec == ToolsInit /\ [][ToolsNext]_vars /\ WF_vars(Runs)

-----------------------------------------------------------------------------
(* Every handle of the mount table stands for one open handle of a backend, *)
(* and is held by exactly one command that will still close it: no error    *)
(* path of cp or touch, and no failing close, leaves one behind.            *)
ToolsTypeOK ==
    /\ DOMAIN fs.handles = UNION {Held(p) : p \in Tools}
    /\ \A p, q \in Tools : p # q => Held(p) \cap Held(q) = {}
    /\ \A p \in Tools : At(p, "done") => Held(p) = {}
    /\ \A n \in DOMAIN fs.mounts :
          DOMAIN fs.mounts[n].open = {fs.handles[h].inner : h \in {g \in DOMAIN fs.handles : fs.handles[g].mount = n}}

(* A command that ends with status 0, and was not cancelled, has dealt with  *)
(* every entry it listed, whatever the others moved or removed under it      *)
(* (only an entry that rm -f finds missing ends an operand early), and when  *)
(* no other command changed its files it did what each operand asks for: a   *)
(* failing call, a short write or a lost entry is never swallowed            *)
(* (copy_path, copy_file, remove_path).                                     *)
StatusHonest ==
    \A p \in Tools \ stopped :
        At(p, "done") /\ tool[p].exit = 0 => tool[p].complete /\ (tool[p].alone => tool[p].good)

(* What appears in a staged mount is never part of a file: every content a  *)
(* step makes visible was visible before, is a touch's empty file, or is    *)
(* all that a copy has read of a source it read to the end (copy_file's comment: "A  *)
(* staged destination must not commit a partial object on failure").        *)
StagedFiles(m) == UNION {{m.mounts[n].data[i] : i \in V!Linked(m.mounts[n])} : n \in {k \in DOMAIN m.mounts : m.mounts[k].staged}}
WholeStep ==
    StagedFiles(fs') \subseteq StagedFiles(fs)
        \cup {tool[p].read : p \in {q \in Tools : At(q, "publish") /\ (tool[q].eof \/ tool[q].cmd.name = "touch")}}
WholeCopies == [][WholeStep]_vars

(* Every command ends, whatever the others remove, fail or cancel.          *)
ToolsFinish == []<>ToolsDone
=============================================================================
