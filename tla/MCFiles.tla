------------------------------- MODULE MCFiles ------------------------------
(***************************************************************************)
(* The file systems for TLC: the tree in memory (MemVfs), the one on a     *)
(* host directory (LocalVfs), the one on a bucket (S3Vfs), and the         *)
(* contract (VfsContract).  They share no state: each initial state sets   *)
(* one going and leaves the others at rest.                                *)
(***************************************************************************)
EXTENDS MemVfs, TLC

CONSTANTS MaxSaved,               \* bound of MemVfs: entries, and inodes used, beside a snapshot
          MaxHost, MaxErrors,     \* bounds of LocalVfs
          MaxFaults               \* bound of S3Vfs

VARIABLES subject,
          nodes, localHandles, openFiles, used, count, quota, local, host, errors, skewed, moved,
          store, table, hs, lock, remote, faults, want, log, lost, present,
          todo, v, other, snapshot, names, last

localVars == <<nodes, localHandles, openFiles, used, count, quota, local, host, errors, skewed, moved>>
s3Vars == <<store, table, hs, lock, remote, faults, want, log, lost, present>>
contractVars == <<todo, v, other, snapshot, names, last>>

C == INSTANCE FileCases WITH MaxPathDepth <- 3

Local == INSTANCE LocalVfs WITH
    Callers <- {"c1", "c2"}, Handles <- C!LocalHandles, Scripts <- C!LocalScripts, MaxPathDepth <- 3,
    handles <- localHandles, call <- local
S3 == INSTANCE S3Vfs WITH
    Callers <- C!S3Callers, Handles <- C!S3Handles, Scripts <- C!S3Scripts, Bodies <- C!S3Bodies,
    ReadOnly <- FALSE, DirectoryRename <- TRUE, ConditionalWrites <- TRUE, MaxEditBytes <- 4, MaxDepth <- 3,
    PartSize <- 2, PartsPerSizeClass <- 1, call <- remote, dirs <- present
Contract == INSTANCE VfsContract WITH MaxPathDepth <- 256, saved <- snapshot

ASSUME FilesAssumption == QuotaAssumption

NameSymmetry == Permutations(Names)

\* A tree in memory at rest is a new one.  A snapshot multiplies the states by
\* the trees it can hold, so the tree beside one is smaller.
SavedSmall ==
    \/ \A s \in Snapshots : saved[s] = NoSnapshot
    \/ fileCount <= MaxSaved /\ nextInode <= MaxSaved + 1
MemNext == Next /\ SavedSmall'
LocalRests ==
    /\ nodes = 0 /\ localHandles = 0 /\ openFiles = 0 /\ used = 0 /\ count = 0 /\ quota = 0
    /\ local = 0 /\ host = 0 /\ errors = 0 /\ skewed = 0 /\ moved = 0
S3Rests ==
    /\ store = 0 /\ table = 0 /\ hs = 0 /\ lock = 0 /\ remote = 0
    /\ faults = 0 /\ want = 0 /\ log = 0 /\ lost = 0 /\ present = 0
ContractRests == todo = 0 /\ v = 0 /\ other = 0 /\ snapshot = 0 /\ names = 0 /\ last = 0

MCInit ==
    \/ subject = "mem" /\ Init /\ LocalRests /\ S3Rests /\ ContractRests
    \/ subject = "local" /\ Local!Init /\ Init /\ S3Rests /\ ContractRests
    \/ subject = "s3" /\ S3!Init /\ Init /\ LocalRests /\ ContractRests
    \/ subject = "contract" /\ Contract!ContractInit /\ Init /\ LocalRests /\ S3Rests

MCNext ==
    \/ subject = "mem" /\ MemNext /\ UNCHANGED <<subject, localVars, s3Vars, contractVars>>
    \/ subject = "local" /\ Local!Next /\ UNCHANGED <<subject, vars, s3Vars, contractVars>>
    \/ subject = "s3" /\ S3!Next /\ UNCHANGED <<subject, vars, localVars, contractVars>>
    \/ subject = "contract" /\ Contract!ContractNext /\ UNCHANGED <<subject, vars, localVars, s3Vars>>

MCSpec == MCInit /\ [][MCNext]_<<subject, vars, localVars, s3Vars, contractVars>>

\* One component by itself.
LocalAlone == subject = "local" /\ MCSpec
S3Alone == subject = "s3" /\ MCSpec

-----------------------------------------------------------------------------
\* Every variable has its type: the counts of mem.rs and local.rs never go
\* below zero, every count of open handles is the number of them, and the
\* mutex of an S3 handle is held by the caller that is between two requests on
\* it.
Types ==
    /\ TypeOK
    /\ subject = "local" => Local!LocalTypeOK
    /\ subject = "s3" => S3!TypeOK

\* The totals of local.rs are those of the files a name or a handle reaches,
\* as long as the host keeps its hands off the directory and no directory is
\* moved under a call that has walked it.
LocalTotals == subject = "local" => Local!LocalTotals

\* LocalVfs and the contract the commands are composed with answer every call
\* of the conformance suite as its tests assert.
SuitePasses ==
    /\ subject = "local" => Local!LocalConforms
    /\ subject = "contract" => Contract!ContractConforms

\* What a handle of s3.rs reads, and what its close publishes, is one revision
\* of the object with the edits made through the handle, whatever the other
\* callers and the network do.
OneRevision == subject = "s3" => S3!OneRevision

\* An upload that s3.rs began and did not complete is aborted, unless the
\* request to abort it failed.
NoOrphanUpload == subject = "s3" => S3!NoOrphanUpload

\* A directory that existed in the bucket and that nobody removed still
\* exists: s3.rs leaves a marker when it takes the last entry.
DirectoriesStay == subject = "s3" => S3!DirectoriesStay

\* "Every path operation is bounded at MAX_PATH_DEPTH": nothing in the
\* directory of local.rs lies deeper.
DepthBounded == subject = "local" => Local!DepthBounded

\* What conditional_writes promises of s3.rs: "a concurrent replacement fails
\* instead of being silently overwritten".
NoSilentOverwrite == subject = "s3" => S3!NoSilentOverwrite
=============================================================================
