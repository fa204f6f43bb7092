------------------------------ MODULE S3Paths ------------------------------
(***************************************************************************)
(* The calls on paths: stat, readdir, mkdir, rename, unlink, rmdir and     *)
(* open.  Each first classifies the parents of its path and then the path, *)
(* one listing and perhaps one head request each.                          *)
(***************************************************************************)
EXTENDS S3Store

PathOps == {"stat", "readdir", "mkdir", "rename", "unlink", "rmdir", "open"}

Directory(nonempty) == [kind |-> "dir", nonempty |-> nonempty]
NoFile == [kind |-> "none"]

\* The call enters: refusals that cost no request, else the first probe.
StartPath(c) ==
    /\ At(c, "idle") /\ call[c].todo # <<>> /\ Op(c).op \in PathOps
    /\ IF ReadOnly /\ Writable(Op(c)) THEN Return(c, "EACCES")
       ELSE IF /\ Op(c).op \notin {"stat", "readdir"}
               /\ Op(c).path = <<>> \/ (Op(c).op = "rename" /\ Op(c).to = <<>>)
            THEN Return(c, RootError(Op(c)))
       ELSE IF Op(c).op = "stat" /\ Op(c).path = <<>> THEN Return(c, "ok")
       ELSE Goto(c, [pc |-> "list", source |-> NoFile,
                     probes |-> Parents(Op(c).path) \o <<Op(c).path>>])
    /\ UNCHANGED <<store, table, hs, lock, faults, want, log, lost, dirs>>

\* creation_precondition
CreationPrecondition(mode) == IF mode.createNew THEN Absent ELSE None

Buffer(source, cond, loaded, dirty) ==
    [kind |-> "buffer", source |-> source, cond |-> cond, loaded |-> loaded, bytes |-> <<>>, dirty |-> dirty]
Stream(cond) ==
    [kind |-> "stream", cond |-> cond, flushed |-> 0, buffer |-> <<>>, upload |-> NoTag, parts |-> 0]
Refuse(err) == [kind |-> "refused", err |-> err]
RemoteFile(found) ==
    IF found.kind = "file" THEN [tag |-> found.tag, len |-> Len(found.body)] ELSE [tag |-> NoTag, len |-> 0]

\* How an opened file is staged, or the error that refuses it.
OpenStaging(found, mode) ==
    CASE found.kind = "dir" -> Refuse("EISDIR")
      [] found.kind = "file" /\ mode.createNew -> Refuse("EEXIST")
      [] found.kind = "none" /\ ~mode.create -> Refuse("ENOENT")
      [] found.kind = "file" /\ ~mode.write -> [kind |-> "remote", source |-> RemoteFile(found)]
      [] found.kind = "file" /\ mode.truncate /\ ~mode.read -> Stream(Match(found.tag))
      [] found.kind = "file" /\ mode.truncate ->
            Buffer(RemoteFile(found), Match(found.tag), TRUE, TRUE)
      [] found.kind = "file" -> Buffer(RemoteFile(found), Match(found.tag), FALSE, FALSE)
      [] mode.read \/ ~mode.write -> Buffer(RemoteFile(NoFile), CreationPrecondition(mode), TRUE, TRUE)
      [] OTHER -> Stream(CreationPrecondition(mode))

\* insert_handle
InsertHandle(c, staging, found) ==
    LET h == Op(c).h
    IN  /\ table' = table \cup {h}
        /\ hs' = h :> [key |-> Op(c).path, mode |-> Op(c).mode, staging |-> staging,
                       released |-> FALSE, basis |-> RemoteFile(found).tag] @@ hs
        /\ want' = h :> (IF found.kind = "file" /\ ~Op(c).mode.truncate THEN found.body ELSE <<>>)
                   @@ want
        /\ Return(c, "ok")

\* rename, once the source is known: refusals, then the destination's probes.
RenameSource(c, found) ==
    CASE found.kind = "none" -> Return(c, "ENOENT")
      [] found.kind # "none" /\ Op(c).path = Op(c).to -> Return(c, "ok")
      [] found.kind = "dir" /\ IsStrictPrefix(Op(c).path, Op(c).to) -> Return(c, "EINVAL")
      [] OTHER -> Goto(c, [pc |-> "list", source |-> found,
                           probes |-> Parents(Op(c).to) \o <<Op(c).to>>])

\* rename, once the destination is known.
RenameTarget(c, found) ==
    LET source == call[c].source
    IN  CASE source.kind = "file" /\ found.kind = "dir" -> Return(c, "EISDIR")
          [] source.kind = "dir" /\ found.kind = "file" -> Return(c, "ENOTDIR")
          [] source.kind = "dir" /\ found.kind = "dir" /\ found.nonempty -> Return(c, "ENOTEMPTY")
          [] source.kind = "file" -> Goto(c, [pc |-> "copy"])
          [] ~DirectoryRename -> Return(c, "EXDEV")
          [] OTHER -> Goto(c, [pc |-> "keys"])

\* unlink and rmdir, once their path is known.
DecideUnlink(c, found) ==
    CASE found.kind = "dir" -> Return(c, "EISDIR") [] found.kind = "none" -> Return(c, "ENOENT")
      [] OTHER -> Goto(c, [pc |-> "delete", source |-> found])
DecideRmdir(c, found) ==
    CASE found.kind = "file" -> Return(c, "ENOTDIR") [] found.kind = "none" -> Return(c, "ENOENT")
      [] found.kind = "dir" /\ found.nonempty -> Return(c, "ENOTEMPTY")
      [] OTHER -> Goto(c, [pc |-> "unmark"])

\* What the classified path of the call leads to.
Decide(c, found) ==
    CASE Op(c).op = "stat" -> Return(c, IF found.kind = "none" THEN "ENOENT" ELSE "ok")
      [] Op(c).op = "readdir" ->
            Return(c, CASE found.kind = "dir" -> "ok" [] found.kind = "file" -> "ENOTDIR"
                        [] OTHER -> "ENOENT")
      [] Op(c).op = "mkdir" ->
            IF found.kind # "none" THEN Return(c, "EEXIST") ELSE Goto(c, [pc |-> "marker"])
      [] Op(c).op = "unlink" -> DecideUnlink(c, found)
      [] Op(c).op = "rmdir" -> DecideRmdir(c, found)
      [] Op(c).op = "rename" ->
            IF call[c].source = NoFile THEN RenameSource(c, found) ELSE RenameTarget(c, found)

\* kind_at returned: a parent must be a directory, the path decides the call.
Classified(c, found) ==
    IF Len(call[c].probes) > 1
    THEN /\ CASE found.kind = "file" -> Return(c, "ENOTDIR") [] found.kind = "none" -> Return(c, "ENOENT")
              [] OTHER -> Goto(c, [pc |-> "list", probes |-> Tail(call[c].probes)])
         /\ UNCHANGED <<table, hs, want>>
    ELSE IF Op(c).op # "open" THEN Decide(c, found) /\ UNCHANGED <<table, hs, want>>
    ELSE LET staging == OpenStaging(found, Op(c).mode)
         IN  IF staging.kind = "refused"
             THEN Return(c, staging.err) /\ UNCHANGED <<table, hs, want>>
             ELSE InsertHandle(c, staging, found)

\* A probe's listing.
ProbeList(c) ==
    /\ At(c, "list")
    /\ LET dir == Head(call[c].probes)
       IN  \E r \in Outcomes(Ok(store)) :
              /\ Request(r)
              /\ IF r.err # "ok" THEN Return(c, IntoVfs(r.err)) /\ UNCHANGED <<table, hs, want>>
                 ELSE IF DirExists(store, dir)
                 THEN Classified(c, Directory(EntriesOf(store, dir) # {}))
                 ELSE Goto(c, [pc |-> "head"]) /\ UNCHANGED <<table, hs, want>>
    /\ UNCHANGED <<lock, log, lost, dirs>>

\* A probe's head request, when nothing is listed below the path.
ProbeHead(c) ==
    /\ At(c, "head")
    /\ LET path == Head(call[c].probes)
       IN  \E r \in Outcomes(Ok(store)) :
              /\ Request(r)
              /\ IF r.err # "ok" THEN Return(c, IntoVfs(r.err)) /\ UNCHANGED <<table, hs, want>>
                 ELSE Classified(c, IF path \in DOMAIN store.objects
                                    THEN [kind |-> "file"] @@ store.objects[path] ELSE NoFile)
    /\ UNCHANGED <<lock, log, lost, dirs>>

\* Mutant: the directory of a removed entry is not looked at again.
PreserveNothing(c, dir) == Return(c, "ok")

\* preserve_directory starts, unless the directory is the root.
Preserve(c, dir) ==
    IF dir = <<>> THEN Return(c, "ok") ELSE Goto(c, [pc |-> "keep", dir |-> dir])

\* mkdir puts the marker.
PutMarker(c) ==
    /\ At(c, "marker")
    /\ \E r \in Outcomes(PutObject(store, Marker(Op(c).path), <<>>, Precondition(Absent))) :
          /\ Request(r)
          /\ Return(c, IF r.err = "ok" THEN "ok" ELSE ExclusiveError(r.err, Absent))
          /\ dirs' = IF r.err = "ok" THEN dirs \cup {Op(c).path} ELSE dirs
    /\ UNCHANGED <<table, hs, lock, want, log, lost>>

\* unlink's delete, and rename_file's after its copy: conditional on the tag.
DeleteFile(c) ==
    /\ At(c, "delete")
    /\ \E answer \in DeleteObject(store, Op(c).path, Precondition(Match(call[c].source.tag))) : \E r \in Outcomes(answer) :
          /\ Request(r)
          /\ IF r.err = "ok" THEN Preserve(c, Front(Op(c).path)) ELSE Return(c, IntoVfs(r.err))
          /\ log' = IF Op(c).op = "rename" /\ r.st # store
                    THEN log \cup {[got |-> <<store.objects[Op(c).path].tag>>, want |-> <<call[c].source.tag>>]}
                    ELSE log
    /\ UNCHANGED <<table, hs, lock, want, lost, dirs>>

\* rename_file's copy, conditional on the tag of the source.
CopyFile(c) ==
    /\ At(c, "copy")
    /\ \E r \in Outcomes(CopyObject(store, Op(c).path, Op(c).to,
                                    Precondition(Match(call[c].source.tag)))) :
          /\ Request(r)
          /\ IF r.err = "ok" THEN Goto(c, [pc |-> "delete"]) ELSE Return(c, IntoVfs(r.err))
    /\ UNCHANGED <<table, hs, lock, want, log, lost, dirs>>

\* rename_directory lists every key below the source and checks the depth
\* of each destination before the first copy.
RenameKeys(c) ==
    /\ At(c, "keys")
    /\ LET keys == Beneath(store, Op(c).path)
           depth(k) == Len(Op(c).to) + Len(SelectSeq(SubSeq(k, Len(Op(c).path) + 1, Len(k)),
                                                     LAMBDA part : part # ""))
       IN  \E r \in Outcomes(Ok(store)) :
              /\ Request(r)
              /\ IF r.err # "ok" THEN Return(c, IntoVfs(r.err))
                 ELSE IF \E k \in keys : depth(k) > MaxDepth THEN Return(c, "EINVAL")
                 ELSE Goto(c, [pc |-> "copies", keys |-> keys, copied |-> {}])
    /\ UNCHANGED <<table, hs, lock, want, log, lost, dirs>>

\* One copy of rename_directory, in the order of the listing.
CopyKey(c) ==
    /\ At(c, "copies")
    /\ IF call[c].keys = call[c].copied
       THEN Goto(c, [pc |-> "deletes"]) /\ UNCHANGED <<store, faults>>
       ELSE \E k \in call[c].keys \ call[c].copied :
            \E r \in Outcomes(CopyObject(store, k, Op(c).to \o SubSeq(k, Len(Op(c).path) + 1, Len(k)), None)) :
              /\ Request(r)
              /\ IF r.err = "ok" THEN Goto(c, [copied |-> call[c].copied \cup {k}])
                 ELSE Return(c, IntoVfs(r.err))
    /\ UNCHANGED <<table, hs, lock, want, log, lost, dirs>>

\* One delete of rename_directory, unconditional.
DeleteKey(c) ==
    /\ At(c, "deletes")
    /\ IF call[c].keys = {}
       THEN Preserve(c, Front(Op(c).path)) /\ UNCHANGED <<store, faults, dirs>>
       ELSE \E k \in call[c].keys : \E answer \in DeleteObject(store, k, None) : \E r \in Outcomes(answer) :
              /\ Request(r)
              /\ IF r.err = "ok" THEN Goto(c, [keys |-> call[c].keys \ {k}])
                 ELSE Return(c, IntoVfs(r.err))
              /\ dirs' = {d \in dirs : ~IsPrefix(Op(c).path, d)} \cup {Op(c).to}
    /\ UNCHANGED <<table, hs, lock, want, log, lost>>

\* rmdir deletes the marker; one that is missing already is no error.
DeleteMarker(c) ==
    /\ At(c, "unmark")
    /\ \E answer \in DeleteObject(store, Marker(Op(c).path), None) : \E r \in Outcomes(answer) :
          /\ Request(r)
          /\ IF r.err \in {"ok", "Missing"} THEN Preserve(c, Front(Op(c).path))
             ELSE Return(c, IntoVfs(r.err))
          /\ dirs' = IF r.st # store THEN dirs \ {Op(c).path} ELSE dirs
    /\ UNCHANGED <<table, hs, lock, want, log, lost>>

\* preserve_directory: list, and put the marker back when nothing is left.
KeepList(c) ==
    /\ At(c, "keep")
    /\ \E r \in Outcomes(Ok(store)) :
          /\ Request(r)
          /\ IF r.err # "ok" THEN Return(c, IntoVfs(r.err))
             ELSE IF Beneath(store, call[c].dir) # {} THEN Return(c, "ok")
             ELSE Goto(c, [pc |-> "remark"])
    /\ UNCHANGED <<table, hs, lock, want, log, lost, dirs>>

KeepMarker(c) ==
    /\ At(c, "remark")
    /\ \E r \in Outcomes(PutObject(store, Marker(call[c].dir), <<>>, None)) :
          /\ Request(r)
          /\ Return(c, IF r.err = "ok" THEN "ok" ELSE IntoVfs(r.err))
    /\ UNCHANGED <<table, hs, lock, want, log, lost, dirs>>

PathStep(c) ==
    \/ StartPath(c) \/ ProbeList(c) \/ ProbeHead(c) \/ PutMarker(c) \/ DeleteFile(c)
    \/ CopyFile(c) \/ RenameKeys(c) \/ CopyKey(c) \/ DeleteKey(c) \/ DeleteMarker(c)
    \/ KeepList(c) \/ KeepMarker(c)
=============================================================================
