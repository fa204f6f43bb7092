------------------------------- MODULE S3Vfs --------------------------------
(***************************************************************************)
(* The S3 file system (src/vfs/s3.rs): callers on paths (S3Paths) and on   *)
(* handles over one bucket, and the drop of the file system once nobody    *)
(* calls it.                                                               *)
(***************************************************************************)
EXTENDS S3Paths

(***************************************************************************)
(* The calls on handles: read, write, truncate, close and abort.  A caller *)
(* resolves its handle in the table, waits for the handle's mutex and      *)
(* keeps it over the requests the staging needs: the download of a pinned  *)
(* revision, the parts of a multipart upload, the request that publishes.  *)
(***************************************************************************)

HandleOps == {"read", "write", "truncate", "close", "abort"}

H(c) == Op(c).h
Staging(c) == hs[H(c)].staging
Stage(c, staging) == hs' = [hs EXCEPT ![H(c)].staging = staging]
Acquire(c) == lock' = [lock EXCEPT ![H(c)] = c]
Release(c) == lock' = [lock EXCEPT ![H(c)] = Nobody]

\* Byte sequences as an array file sees them: zeros fill a gap.
Resize(s, len) == [i \in 1 .. len |-> IF i <= Len(s) THEN s[i] ELSE 0]
Overwrite(s, at, data) ==
    LET end == at + Len(data)
        long == Resize(s, IF end > Len(s) THEN end ELSE Len(s))
    IN  [i \in 1 .. Len(long) |-> IF i \in at + 1 .. end THEN data[i - at] ELSE long[i]]
From(s, offset) == SubSeq(s, offset + 1, Len(s))

\* Where a write lands: at its offset, or at the end of the staged bytes.
WriteAt(c, end) == IF hs[H(c)].mode.append THEN end ELSE Op(c).off

\* What an accepted call makes of the content of its handle.
Wanted(c) ==
    CASE Op(c).op = "write" -> Overwrite(want[H(c)], WriteAt(c, Len(want[H(c)])), Op(c).data)
      [] Op(c).op = "truncate" -> Resize(want[H(c)], Op(c).len)
      [] OTHER -> want[H(c)]

\* The call ends, accepted or not, and the mutex is released.
EndCall(c, res) ==
    /\ Return(c, res) /\ Release(c)
    /\ want' = IF res = "ok" THEN [want EXCEPT ![H(c)] = Wanted(c)] ELSE want

\* handle_state, or the removal of the handle by close and abort.
StartHandle(c) ==
    /\ At(c, "idle") /\ call[c].todo # <<>> /\ Op(c).op \in HandleOps
    /\ IF H(c) \notin table THEN Return(c, "EBADF") /\ UNCHANGED table
       ELSE /\ Goto(c, [pc |-> "lock"])
            /\ table' = IF Op(c).op \in {"close", "abort"} THEN table \ {H(c)} ELSE table
    /\ UNCHANGED <<store, hs, lock, faults, want, log, lost, dirs>>

\* check_edit_len
EditTooLong(len) == MaxEditBytes # 0 /\ len > MaxEditBytes

\* A read, write or truncate of staged bytes: the bytes it leaves, and its result.
Rewritten(c, bytes) ==
    LET new == Overwrite(bytes, WriteAt(c, Len(bytes)), Op(c).data)
    IN  IF Len(new) > Len(bytes) /\ EditTooLong(Len(new)) THEN [bytes |-> bytes, res |-> "EFBIG"]
        ELSE [bytes |-> new, res |-> "ok"]
Resized(c, bytes) ==
    IF EditTooLong(Op(c).len) THEN [bytes |-> bytes, res |-> "EFBIG"]
    ELSE [bytes |-> Resize(bytes, Op(c).len), res |-> "ok"]
Edited(c, bytes) ==
    CASE Op(c).op = "read" -> [bytes |-> bytes, res |-> "ok"]
      [] Op(c).op = "write" -> Rewritten(c, bytes)
      [] Op(c).op = "truncate" -> Resized(c, bytes)

\* The call works on the materialized buffer and returns.
EditBuffer(c, bytes) ==
    LET e == Edited(c, bytes)
    IN  /\ Stage(c, [Staging(c) EXCEPT !.bytes = e.bytes, !.loaded = TRUE,
                                       !.dirty = @ \/ (e.res = "ok" /\ Op(c).op # "read")])
        /\ EndCall(c, e.res)
        /\ log' = IF Op(c).op # "read" THEN log
                  ELSE log \cup {[got |-> From(bytes, Op(c).off), want |-> From(want[H(c)], Op(c).off)]}

\* Mutant: a caller that resolved the handle earlier still uses it.
NeverReleased(c) == FALSE

\* Close or abort ran since the caller resolved the handle.
Released(c) == hs[H(c)].released

\* What refuses a read, a write, a truncate once the mutex is held.
RefusedRead(c, s) ==
    IF Released(c) \/ ~s.mode.read \/ s.staging.kind \in {"stream", "failed"} THEN "EBADF" ELSE "no"
RefusedWrite(c, s) ==
    CASE Released(c) \/ ~s.mode.write -> "EBADF"
      [] s.staging.kind = "failed" -> s.staging.err
      [] /\ s.staging.kind = "stream"
         /\ WriteAt(c, s.staging.flushed + Len(s.staging.buffer)) < s.staging.flushed -> "EFBIG"
      [] OTHER -> "no"
RefusedTruncate(c, s) ==
    CASE Released(c) \/ ~s.mode.write -> "EINVAL"
      [] s.staging.kind = "failed" -> s.staging.err
      [] s.staging.kind = "stream" /\ Op(c).len < s.staging.flushed -> "EFBIG"
      [] OTHER -> "no"
Refused(c) ==
    LET s == hs[H(c)]
        why == CASE Op(c).op = "read" -> RefusedRead(c, s)
                 [] Op(c).op = "write" -> RefusedWrite(c, s)
                 [] Op(c).op = "truncate" -> RefusedTruncate(c, s)
    IN  IF /\ why = "no" /\ s.staging.kind = "buffer" /\ ~s.staging.loaded
           /\ EditTooLong(s.staging.source.len)
        THEN "EFBIG" ELSE why

\* read_resolved, write_resolved and truncate_resolved up to the first request.
LockForAccess(c) ==
    /\ At(c, "lock") /\ Op(c).op \in {"read", "write", "truncate"} /\ lock[H(c)] = Nobody
    /\ LET s == Staging(c)
       IN  IF Refused(c) # "no"
           THEN Return(c, Refused(c)) /\ UNCHANGED <<hs, lock, want, log>>
           ELSE IF s.kind = "remote"      \* the mutex is released before the request
           THEN Goto(c, [pc |-> "ranged"]) /\ UNCHANGED <<hs, lock, want, log>>
           ELSE IF s.kind = "stream"
           THEN /\ Goto(c, [pc |-> "stream", data |-> Op(c).op = "truncate",
                            target |-> IF Op(c).op = "truncate" THEN Op(c).len
                                       ELSE WriteAt(c, s.flushed + Len(s.buffer))])
                /\ Acquire(c) /\ UNCHANGED <<hs, want, log>>
           ELSE IF ~s.loaded /\ s.source.len > 0
           THEN Goto(c, [pc |-> "get"]) /\ Acquire(c) /\ UNCHANGED <<hs, want, log>>
           ELSE EditBuffer(c, s.bytes)
    /\ UNCHANGED <<store, table, faults, lost, dirs>>

\* Mutant: the GET carries no If-Match.
GetUnpinned(key, source) == IF key \notin DOMAIN store.objects THEN "Missing" ELSE "ok"

\* The answer to a GET pinned to a revision by If-Match.
GetPinned(key, source) ==
    IF key \notin DOMAIN store.objects THEN "Missing"
    ELSE IF store.objects[key].tag # source.tag THEN "Precondition" ELSE "ok"

\* get_whole, for a buffer that was not materialized yet.
GetWhole(c) ==
    /\ At(c, "get")
    /\ \E r \in Outcomes(Fails(store, GetPinned(hs[H(c)].key, Staging(c).source))) :
          /\ Request(r)
          /\ IF r.err = "ok" THEN EditBuffer(c, store.objects[hs[H(c)].key].body)
             ELSE EndCall(c, IntoVfs(r.err)) /\ UNCHANGED <<hs, log>>
    /\ UNCHANGED <<table, lost, dirs>>

\* read_remote: one ranged GET, unless the offset is at the end.
ReadRemote(c) ==
    /\ At(c, "ranged")
    /\ LET s == Staging(c)
       IN  IF Op(c).off >= s.source.len THEN Return(c, "ok") /\ UNCHANGED <<store, faults, log>>
           ELSE \E r \in Outcomes(Fails(store, GetPinned(hs[H(c)].key, s.source))) :
                  /\ Request(r)
                  /\ Return(c, IF r.err = "ok" THEN "ok" ELSE IntoVfs(r.err))
                  /\ log' = IF r.err # "ok" THEN log
                            ELSE log \cup {[got |-> From(store.objects[hs[H(c)].key].body, Op(c).off),
                                            want |-> From(want[H(c)], Op(c).off)]}
    /\ UNCHANGED <<table, hs, lock, want, lost, dirs>>

\* fail_stream: the staging becomes terminal, an upload is aborted.
FailStream(c, err) ==
    /\ Stage(c, [kind |-> "failed", err |-> err])
    /\ IF Staging(c).upload = NoTag THEN EndCall(c, err)
       ELSE Goto(c, [pc |-> "abandon", upload |-> Staging(c).upload, failure |-> err])
            /\ UNCHANGED <<lock, want>>

FullPart(s) == Len(s.buffer) >= PartSizeAt(s.parts)

\* One turn of fill_gap: zeros up to the target or up to a full part.
FillGap(s, gap) ==
    LET room == PartSizeAt(s.parts) - Len(s.buffer)
    IN  [s EXCEPT !.buffer = Resize(@, Len(@) + IF room < gap THEN room ELSE gap)]

\* truncate of a stream that reaches the new length.
CutStream(s, len) == [s EXCEPT !.buffer = Resize(@, len - s.flushed)]

\* A write or truncate of a stream, between two requests of flush_parts.
StreamLocal(c) ==
    /\ At(c, "stream") /\ ~FullPart(Staging(c))
    /\ LET s == Staging(c)
           gap == call[c].target - (s.flushed + Len(s.buffer))
       IN  IF gap > 0 THEN Stage(c, FillGap(s, gap)) /\ UNCHANGED <<call, lock, want>>
           ELSE IF ~call[c].data
           THEN /\ Stage(c, [s EXCEPT !.buffer = Overwrite(@, call[c].target - s.flushed, Op(c).data)])
                /\ Goto(c, [data |-> TRUE]) /\ UNCHANGED <<lock, want>>
           ELSE /\ Stage(c, IF Op(c).op = "write" THEN s ELSE CutStream(s, call[c].target))
                /\ EndCall(c, "ok")
    /\ UNCHANGED <<store, table, faults, log, lost, dirs>>

\* flush_parts opens the upload with the first full part.
OpenUpload(c) ==
    /\ At(c, "stream") /\ FullPart(Staging(c)) /\ Staging(c).upload = NoTag
    /\ \E r \in Outcomes(CreateUpload(store, hs[H(c)].key)) :
          /\ Request(r)
          /\ IF r.err = "ok"
             THEN /\ Stage(c, [Staging(c) EXCEPT !.upload = store.nextTag])
                  /\ UNCHANGED <<call, lock, want, lost>>
             ELSE /\ FailStream(c, IntoVfs(r.err))
                  /\ lost' = lost \cup (DOMAIN r.st.uploads \ DOMAIN store.uploads)
    /\ UNCHANGED <<table, log, dirs>>

\* flush_parts uploads the full part at the head of the buffer.
FlushPart(c) ==
    /\ At(c, "stream") /\ FullPart(Staging(c)) /\ Staging(c).upload # NoTag
    /\ LET s == Staging(c)
           size == PartSizeAt(s.parts)
       IN  \E r \in Outcomes(UploadPart(store, s.upload, s.parts + 1, SubSeq(s.buffer, 1, size))) :
              /\ Request(r)
              /\ IF r.err = "ok"
                 THEN /\ Stage(c, [s EXCEPT !.buffer = From(@, size), !.flushed = @ + size, !.parts = @ + 1])
                      /\ UNCHANGED <<call, lock, want>>
                 ELSE FailStream(c, IntoVfs(r.err))
    /\ UNCHANGED <<table, log, lost, dirs>>

\* abort under the mutex: the upload is aborted.
AbortLocked(c, s) ==
    IF s.kind = "stream" /\ s.upload # NoTag
    THEN Goto(c, [pc |-> "abandon", upload |-> s.upload, failure |-> "ok"]) /\ Acquire(c)
    ELSE Return(c, "ok") /\ UNCHANGED lock

\* close under the mutex: what commit begins with.
CommitLocked(c, s) ==
    CASE s.kind = "failed" -> Return(c, s.err) /\ UNCHANGED lock
      [] s.kind = "remote" \/ (s.kind = "buffer" /\ ~s.dirty) -> Return(c, "ok") /\ UNCHANGED lock
      [] s.kind = "stream" /\ s.upload # NoTag ->
            Goto(c, [pc |-> IF s.buffer # <<>> \/ s.parts = 0 THEN "last" ELSE "complete"]) /\ Acquire(c)
      [] OTHER -> Goto(c, [pc |-> "put"]) /\ Acquire(c)

\* close and abort release the handle first.
LockForRelease(c) ==
    /\ At(c, "lock") /\ Op(c).op \in {"close", "abort"} /\ lock[H(c)] = Nobody
    /\ hs' = [hs EXCEPT ![H(c)].released = TRUE]
    /\ IF Op(c).op = "abort" THEN AbortLocked(c, Staging(c)) ELSE CommitLocked(c, Staging(c))
    /\ UNCHANGED <<store, table, faults, want, log, lost, dirs>>

\* A publication, and what it should have been: the content the handle's
\* calls made, in place of the revision its precondition names.
Published(c, r) ==
    LET key == hs[H(c)].key
        replaced == IF key \in DOMAIN store.objects THEN store.objects[key].tag ELSE NoTag
    IN  IF r.st = store THEN log
        ELSE log \cup {[got |-> r.st.objects[key].body, want |-> want[H(c)],
                        conditional |-> Staging(c).cond.kind # "None",
                        basis |-> hs[H(c)].basis, replaced |-> replaced]}

\* The end of a close: the first error aborts a pending upload.
Closed(c, r) ==
    IF r.err = "ok" THEN Return(c, "ok") /\ Release(c)
    ELSE IF Staging(c).kind = "stream" /\ Staging(c).upload # NoTag
    THEN /\ Goto(c, [pc |-> "abandon", upload |-> Staging(c).upload,
                     failure |-> ExclusiveError(r.err, Staging(c).cond)])
         /\ UNCHANGED lock
    ELSE Return(c, ExclusiveError(r.err, Staging(c).cond)) /\ Release(c)

\* commit of a buffer, or of a stream that never filled a part.
PutStaged(c) ==
    /\ At(c, "put")
    /\ LET s == Staging(c)
           body == IF s.kind = "buffer" THEN s.bytes ELSE s.buffer
       IN  \E r \in Outcomes(PutObject(store, hs[H(c)].key, body, Precondition(s.cond))) :
              Request(r) /\ Closed(c, r) /\ log' = Published(c, r)
    /\ UNCHANGED <<table, hs, want, lost, dirs>>

\* finish_stream: the tail as a last part, then the completion.
LastPart(c) ==
    /\ At(c, "last")
    /\ LET s == Staging(c)
       IN  \E r \in Outcomes(UploadPart(store, s.upload, s.parts + 1, s.buffer)) :
              /\ Request(r)
              /\ IF r.err = "ok"
                 THEN /\ Goto(c, [pc |-> "complete"])
                      /\ Stage(c, [s EXCEPT !.buffer = <<>>, !.parts = @ + 1])
                      /\ UNCHANGED lock
                 ELSE Closed(c, r) /\ UNCHANGED hs
    /\ UNCHANGED <<table, want, log, lost, dirs>>

CompleteStream(c) ==
    /\ At(c, "complete")
    /\ LET s == Staging(c)
       IN  \E r \in Outcomes(CompleteUpload(store, s.upload, hs[H(c)].key, s.parts, Precondition(s.cond))) :
              Request(r) /\ Closed(c, r) /\ log' = Published(c, r)
    /\ UNCHANGED <<table, hs, want, lost, dirs>>

\* abort_upload: best effort after a failure, reported by abort itself.
AbandonUpload(c) ==
    /\ At(c, "abandon")
    /\ LET id == call[c].upload
       IN  \E r \in Outcomes(AbortUpload(store, id)) :
              /\ Request(r)
              /\ lost' = lost \cup ({id} \cap DOMAIN r.st.uploads)
              /\ Return(c, IF call[c].failure = "ok" /\ r.err # "ok" THEN IntoVfs(r.err) ELSE call[c].failure)
    /\ Release(c)
    /\ UNCHANGED <<table, hs, want, log, dirs>>

HandleStep(c) ==
    \/ StartHandle(c) \/ LockForAccess(c) \/ GetWhole(c) \/ ReadRemote(c) \/ StreamLocal(c)
    \/ OpenUpload(c) \/ FlushPart(c) \/ LockForRelease(c) \/ PutStaged(c) \/ LastPart(c)
    \/ CompleteStream(c) \/ AbandonUpload(c)

-----------------------------------------------------------------------------
Finished(c) == At(c, "idle") /\ call[c].todo = <<>>

\* Drop for S3Vfs aborts the upload of every handle left in the table.
DropHandle(h) ==
    /\ \A c \in Callers : Finished(c)
    /\ table' = table \ {h}
    /\ LET s == hs[h].staging
       IN  IF s.kind = "stream" /\ s.upload # NoTag
           THEN \E r \in Outcomes(AbortUpload(store, s.upload)) :
                  Request(r) /\ lost' = lost \cup ({s.upload} \cap DOMAIN r.st.uploads)
           ELSE UNCHANGED <<store, faults, lost>>
    /\ UNCHANGED <<hs, lock, call, want, log, dirs>>

Terminated ==
    /\ \A c \in Callers : Finished(c)
    /\ table = {}
    /\ UNCHANGED vars

Next ==
    \/ \E c \in Callers : PathStep(c) \/ HandleStep(c)
    \/ \E h \in table : DropHandle(h)
    \/ Terminated

Spec == Init /\ [][Next]_vars

-----------------------------------------------------------------------------
\* The mutex of a handle is held exactly by the caller that is between two
\* requests of a call on it.
TypeOK ==
    /\ table \subseteq DOMAIN hs /\ DOMAIN hs \subseteq Handles
    /\ DOMAIN want = DOMAIN hs
    /\ faults \in 0 .. MaxFaults
    /\ \A h \in Handles : lock[h] # Nobody =>
          /\ ~Finished(lock[h]) /\ H(lock[h]) = h
          /\ call[lock[h]].pc \in {"get", "stream", "put", "last", "complete", "abandon"}

\* Whatever is read through a handle or published by its close is the
\* revision the handle was opened on with all of the handle's own accepted
\* writes and truncates, over parts, gaps, failures and concurrent callers;
\* a conditional publication replaces that revision and no other, and a file
\* rename deletes only the revision it copied.
OneRevision ==
    \A r \in log :
       /\ r.got = r.want
       /\ "basis" \in DOMAIN r /\ r.conditional /\ ConditionalWrites => r.replaced = r.basis

\* A multipart upload always has somebody who will complete or abort it: a
\* handle in the table, or a call that is working on it.  Only an upload
\* whose creation or abort request failed is left behind.
NoOrphanUpload ==
    \A id \in DOMAIN store.uploads \ lost :
       \/ \E h \in DOMAIN hs :
             /\ hs[h].staging.kind = "stream" /\ hs[h].staging.upload = id
             /\ h \in table \/ lock[h] # Nobody
                \/ \E c \in Callers : At(c, "lock") /\ H(c) = h /\ Op(c).op \in {"close", "abort"}
       \/ \E c \in Callers : At(c, "abandon") /\ call[c].upload = id

\* A directory does not disappear with its last child: when nobody is in a
\* call and no request failed, every directory that was not removed or
\* renamed away exists, whatever order unlinks, renames and closes took.
DirectoriesStay ==
    faults = 0 /\ (\A c \in Callers : At(c, "idle")) => \A d \in dirs : DirExists(store, d)

\* What S3VfsConfig::conditional_writes documents: a publication never
\* replaces a revision its handle has not seen.
NoSilentOverwrite ==
    \A r \in log : "basis" \in DOMAIN r => r.replaced = r.basis
=============================================================================
