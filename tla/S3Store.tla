------------------------------ MODULE S3Store -------------------------------
(***************************************************************************)
(* The bucket behind the S3 file system and the callers that send requests *)
(* to it (src/vfs/s3.rs).                                                  *)
(***************************************************************************)
EXTENDS Integers, Sequences, FiniteSets, SequencesExt, Functions

(***************************************************************************)
(* The bucket behind the S3 file system, as the requests of S3Ops see it:  *)
(* objects under keys, conditional writes and multipart uploads.  A key is *)
(* the sequence of its components; the marker object of directory "d" has  *)
(* the key "d/", whose last component is empty.  Every request is an       *)
(* operator from a store to [st, err]: the store it leaves and how it      *)
(* ended, "ok", "Missing" or "Precondition".                               *)
(***************************************************************************)

NoTag == 0
None == [kind |-> "None", tag |-> NoTag]
Absent == [kind |-> "Absent", tag |-> NoTag]
Match(tag) == [kind |-> "Match", tag |-> tag]

\* A bucket holding the given objects; NoTag is no object's tag.
Bucket(bodies) ==
    [objects |-> [k \in DOMAIN bodies |-> [body |-> bodies[k], tag |-> 1]],
     uploads |-> <<>>, nextTag |-> 2]

Ok(st) == [st |-> st, err |-> "ok"]
Fails(st, err) == [st |-> st, err |-> err]

\* BucketState::check
Check(st, key, cond) ==
    CASE cond.kind = "Absent" /\ key \in DOMAIN st.objects -> "Precondition"
      [] cond.kind = "Match" /\ key \notin DOMAIN st.objects -> "Missing"
      [] cond.kind = "Match" /\ st.objects[key].tag # cond.tag -> "Precondition"
      [] OTHER -> "ok"

\* BucketState::store: every write mints a new entity tag.
StoreBody(st, key, body) ==
    [st EXCEPT !.objects = [k \in DOMAIN @ \cup {key} |->
                               IF k = key THEN [body |-> body, tag |-> st.nextTag] ELSE @[k]],
               !.nextTag = @ + 1]

PutObject(st, key, body, cond) ==
    IF Check(st, key, cond) = "ok" THEN Ok(StoreBody(st, key, body))
    ELSE Fails(st, Check(st, key, cond))

\* The answers to a delete: one of a key that is not there succeeds at S3 and
\* is an error at the bucket of the repository's tests.
DeleteObject(st, key, cond) ==
    IF Check(st, key, cond) # "ok" THEN {Fails(st, Check(st, key, cond))}
    ELSE IF key \notin DOMAIN st.objects THEN {Ok(st), Fails(st, "Missing")}
    ELSE {Ok([st EXCEPT !.objects = Restrict(@, DOMAIN @ \ {key})])}

CopyObject(st, source, key, cond) ==
    IF Check(st, source, cond) # "ok" THEN Fails(st, Check(st, source, cond))
    ELSE IF source \notin DOMAIN st.objects THEN Fails(st, "Missing")
    ELSE Ok(StoreBody(st, key, st.objects[source].body))

\* Every key below a prefix, the marker of the prefix included.
Beneath(st, dir) == {k \in DOMAIN st.objects : IsStrictPrefix(dir, k)}

\* ListObjectsV2 with delimiter "/": the first component of what is below.
Listed(st, dir) == {k[Len(dir) + 1] : k \in Beneath(st, dir)}

CreateUpload(st, key) ==
    Ok([st EXCEPT !.uploads = [i \in DOMAIN @ \cup {st.nextTag} |->
                                  IF i = st.nextTag THEN [key |-> key, parts |-> <<>>] ELSE @[i]],
                  !.nextTag = @ + 1])

UploadPart(st, id, number, body) ==
    IF id \notin DOMAIN st.uploads THEN Fails(st, "Missing")
    ELSE Ok([st EXCEPT !.uploads[id].parts =
                 [n \in DOMAIN @ \cup {number} |-> IF n = number THEN body ELSE @[n]]])

CompleteUpload(st, id, key, numbers, cond) ==
    IF id \notin DOMAIN st.uploads THEN Fails(st, "Missing")
    ELSE IF Check(st, key, cond) # "ok" THEN Fails(st, Check(st, key, cond))
    ELSE LET body == FlattenSeq([n \in 1 .. numbers |-> st.uploads[id].parts[n]])
         IN  Ok(StoreBody([st EXCEPT !.uploads = Restrict(@, DOMAIN @ \ {id})], key, body))

AbortUpload(st, id) ==
    IF id \notin DOMAIN st.uploads THEN Fails(st, "Missing")
    ELSE Ok([st EXCEPT !.uploads = Restrict(@, DOMAIN @ \ {id})])

-----------------------------------------------------------------------------
(***************************************************************************)
(* Callers of S3Vfs (src/vfs/s3.rs).  A call is a sequence of requests to  *)
(* the bucket; between two requests the other callers run.  call[c] holds  *)
(* the calls the caller has still to make and the locals of the one it is  *)
(* in.  A request may fail before the bucket applied it, or after, when    *)
(* only the answer is lost; at most MaxFaults do.                          *)
(***************************************************************************)

CONSTANTS Callers,          \* threads calling into the file system
          Handles,          \* names the scripts give to the handles they open
          Scripts,          \* the calls each caller makes, one function per behaviour
          Bodies,           \* the objects the bucket starts with
          ReadOnly, DirectoryRename, ConditionalWrites,   \* S3VfsConfig
          MaxEditBytes, MaxDepth, PartSize, PartsPerSizeClass,
          MaxFaults

VARIABLES store,    \* the bucket
          table,    \* State::handles: the handles that can be resolved
          hs,       \* HandleState of every handle opened so far
          lock,     \* who holds a handle's mutex
          call,     \* per caller
          faults,   \* requests that have failed so far
          want,     \* history: what a handle's content should be
          log,      \* history: what was read or published, and what should have been
          lost,     \* history: uploads a failed request left behind
          dirs      \* history: directories nobody removed

vars == <<store, table, hs, lock, call, faults, want, log, lost, dirs>>

Nobody == "nobody"
Idle == [pc |-> "idle"]

Op(c) == Head(call[c].todo)
At(c, pc) == call[c].pc = pc

\* The caller goes on with other locals, or its call returns.
Goto(c, locals) == call' = [call EXCEPT ![c] = locals @@ @]
Return(c, res) ==
    call' = [call EXCEPT ![c] = Idle @@ [todo |-> Tail(@.todo), res |-> res]]

\* What a request may do: what the bucket does, or a fault.
Outcomes(r) ==
    {r} \cup IF faults < MaxFaults
             THEN {[r EXCEPT !.st = store, !.err = "Io"], [r EXCEPT !.err = "Io"]}
             ELSE {}
Request(r) ==
    /\ store' = r.st
    /\ faults' = IF r.err = "Io" THEN faults + 1 ELSE faults

\* RemoteError::into_vfs and exclusive_error
IntoVfs(err) ==
    CASE err = "Missing" -> "ENOENT" [] err = "Denied" -> "EACCES" [] OTHER -> "EIO"
ExclusiveError(err, cond) ==
    IF err = "Precondition" /\ cond.kind = "Absent" THEN "EEXIST" ELSE IntoVfs(err)

\* S3Vfs::precondition
Precondition(cond) == IF ConditionalWrites THEN cond ELSE None

\* S3Vfs::directory_prefix, as a key: the marker object of the directory.
Marker(dir) == Append(dir, "")
Parents(path) == [i \in 1 .. Len(path) - 1 |-> SubSeq(path, 1, i)]

\* scan_directory: a directory exists through a marker of length zero or
\* through any other key below it; the marker is no entry of it.
EntriesOf(st, dir) == Listed(st, dir) \ {""}
DirExists(st, dir) ==
    \/ dir = <<>>
    \/ EntriesOf(st, dir) # {}
    \/ Marker(dir) \in DOMAIN st.objects /\ st.objects[Marker(dir)].body = <<>>

\* S3Vfs::part_size: the size class doubles every PartsPerSizeClass parts, at
\* most 16 times.
PartSizeAt(parts) ==
    LET class == parts \div PartsPerSizeClass
    IN  PartSize * 2 ^ (IF class < 16 THEN class ELSE 16)

\* The calls require_writable refuses on a read-only file system.
Writable(op) ==
    \/ op.op \in {"mkdir", "rename", "unlink", "rmdir"}
    \/ op.op = "open" /\ (op.mode.write \/ op.mode.create)

\* The error of a call on the root of the file system.
RootError(op) ==
    CASE op.op = "mkdir" -> "EEXIST" [] op.op = "rmdir" -> "EBUSY"
      [] op.op = "rename" -> "EINVAL" [] OTHER -> "EISDIR"

Init ==
    /\ store = Bucket(Bodies)
    /\ table = {} /\ hs = <<>> /\ want = <<>>
    /\ lock = [h \in Handles |-> Nobody]
    /\ \E s \in Scripts : call = [c \in Callers |-> Idle @@ [todo |-> s[c], res |-> "none"]]
    /\ faults = 0 /\ log = {} /\ lost = {}
    /\ dirs = {d \in UNION {Range(Parents(k)) : k \in DOMAIN Bodies} : DirExists(store, d)}
=============================================================================
