---------------------------- MODULE RedirectSetup ----------------------------
(***************************************************************************)
(* The redirects of one command: prepare_redirects and apply_fd_redirect   *)
(* (src/src/sandbox/mod.rs).                                               *)
(*                                                                         *)
(* A script is the redirects of the command from left to right, expanded.  *)
(* The file that redirect n opens is called n.  What the stage does with   *)
(* the files it is given is in Redirect and Stages.                        *)
(***************************************************************************)
EXTENDS Integers, Sequences, Functions

CONSTANTS
  Scripts,  \* commands: sequences of Forms
  None      \* no redirected input

\* <file; [fd]> file; [fd]>&to; anything the code refuses (an expansion to
\* several words or to none, a descriptor that does not exist).
Forms ==
  {[kind |-> "in"], [kind |-> "refused"]}
  \union [kind : {"out"}, fd : {1, 2}]
  \union [kind : {"dup"}, fd : {1, 2}, to : {1, 2}]

\* Where a descriptor leads without redirects: CaptureFd.
Capture == [d \in {1, 2} |-> 0 - d]

SetupAssumption ==
  /\ Scripts \subseteq Seq(Forms)
  /\ None \notin Nat

VARIABLES
  script,     \* the redirects
  at,         \* the one being applied
  phase,      \* "apply", "supersede" (an input is closed), "sweep", "done"
  stdin,      \* PreparedRedirects::stdin
  superseded, \* the input that is being replaced
  dest,       \* PreparedRedirects::stdout and stderr
  opened,     \* the output files, in the order of their opening
  handles,    \* each handle: "none", "open", "closed", "aborted", "lost"
  failed,     \* result.is_err()
  timedOut   \* the deadline has passed

setupVars == <<script, at, phase, stdin, superseded, dest, opened, handles, failed, timedOut>>

SetupInit ==
  /\ script \in Scripts
  /\ at = 1 /\ phase = "apply"
  /\ stdin = None /\ superseded = None
  /\ dest = Capture
  /\ opened = <<>>
  /\ handles = [n \in DOMAIN script |-> "none"]
  /\ failed = FALSE /\ timedOut = FALSE

Applying(kind) == phase = "apply" /\ at <= Len(script) /\ script[at].kind = kind

\* What Fs::close may make of a handle; after the deadline it aborts, and the
\* backend may fail to do either.
Closes(n, outcome) ==
  /\ outcome \in {IF timedOut THEN "aborted" ELSE "closed", "lost"}
  /\ handles' = [handles EXCEPT ![n] = outcome]

-----------------------------------------------------------------------------
(***************************************************************************)
(* Mutants: each is a plausible slip in the definition it stands for.      *)
(***************************************************************************)
DuplicateBackwards ==
  /\ Applying("dup") /\ ~timedOut
  /\ dest' = [dest EXCEPT ![script[at].to] = dest[script[at].fd]]
  /\ at' = at + 1
  /\ UNCHANGED <<script, phase, stdin, superseded, opened, handles, failed, timedOut>>

-----------------------------------------------------------------------------
(***************************************************************************)
(* Applying the redirects.                                                 *)
(***************************************************************************)
\* The loop is left: at its end, or by an error, which the checkpoint returns
\* after the deadline and an open at any time.
LeaveLoop(fails) ==
  /\ phase = "apply"
  /\ IF fails THEN at <= Len(script) ELSE at > Len(script)
  /\ fails => timedOut \/ script[at].kind \in {"in", "out", "refused"}
  /\ phase' = "sweep" /\ failed' = fails
  /\ UNCHANGED <<script, at, stdin, superseded, dest, opened, handles, timedOut>>

\* apply_fd_redirect
Duplicate ==
  /\ Applying("dup") /\ ~timedOut
  /\ dest' = [dest EXCEPT ![script[at].fd] = dest[script[at].to]]
  /\ at' = at + 1
  /\ UNCHANGED <<script, phase, stdin, superseded, opened, handles, failed, timedOut>>

\* The new input is in place before the previous one is closed.
OpenInput ==
  /\ Applying("in") /\ ~timedOut
  /\ handles' = [handles EXCEPT ![at] = "open"]
  /\ stdin' = at /\ superseded' = stdin
  /\ IF stdin = None THEN at' = at + 1 /\ UNCHANGED phase
                     ELSE phase' = "supersede" /\ UNCHANGED at
  /\ UNCHANGED <<script, dest, opened, failed, timedOut>>

CloseSuperseded ==
  /\ phase = "supersede"
  /\ \E outcome \in {"closed", "aborted", "lost"} :
       Closes(superseded, outcome) /\ failed' = (outcome = "lost")
  /\ superseded' = None
  /\ IF failed' THEN phase' = "sweep" /\ UNCHANGED at
                ELSE phase' = "apply" /\ at' = at + 1
  /\ UNCHANGED <<script, stdin, dest, opened, timedOut>>

OpenOutput ==
  /\ Applying("out") /\ ~timedOut
  /\ handles' = [handles EXCEPT ![at] = "open"]
  /\ opened' = Append(opened, at)
  /\ dest' = [dest EXCEPT ![script[at].fd] = at]
  /\ at' = at + 1
  /\ UNCHANGED <<script, phase, stdin, superseded, failed, timedOut>>

-----------------------------------------------------------------------------
(***************************************************************************)
(* Afterwards.                                                             *)
(***************************************************************************)
\* RedirectFile::finish of a file that no descriptor leads to, or of any file
\* once there is an error.
Sweep ==
  /\ phase = "sweep" /\ opened # <<>>
  /\ LET n == Head(opened)
     IN  \/ /\ failed \/ n \notin Range(dest)
            /\ \E outcome \in {"closed", "aborted", "lost"} :
                 Closes(n, outcome) /\ failed' = (failed \/ outcome = "lost")
         \/ /\ ~failed /\ n \in Range(dest)
            /\ UNCHANGED <<handles, failed>>
  /\ opened' = Tail(opened)
  /\ UNCHANGED <<script, at, phase, stdin, superseded, dest, timedOut>>

\* The redirects are returned, or the input is closed and they are dropped.
Return ==
  /\ phase = "sweep" /\ opened = <<>>
  /\ phase' = "done"
  /\ \/ /\ failed /\ stdin # None
        /\ \E outcome \in {"closed", "aborted", "lost"} : Closes(stdin, outcome)
        /\ stdin' = None
     \/ /\ ~failed \/ stdin = None
        /\ UNCHANGED <<handles, stdin>>
  /\ dest' = IF failed THEN Capture ELSE dest
  /\ UNCHANGED <<script, at, superseded, opened, failed, timedOut>>

DeadlinePasses ==
  /\ ~timedOut /\ timedOut' = TRUE
  /\ UNCHANGED <<script, at, phase, stdin, superseded, dest, opened, handles, failed>>

SetupFinished == phase = "done" /\ UNCHANGED setupVars

SetupNext ==
  \/ LeaveLoop(FALSE) \/ LeaveLoop(TRUE) \/ Duplicate
  \/ OpenInput \/ CloseSuperseded \/ OpenOutput
  \/ Sweep \/ Return \/ DeadlinePasses \/ SetupFinished

SetupSpec == SetupInit /\ [][SetupNext]_setupVars

-----------------------------------------------------------------------------
(***************************************************************************)
(* Properties.                                                             *)
(***************************************************************************)
\* Every variable has its type, and an input is being replaced only by
\* another one.
SetupTypeOK ==
  /\ at \in 1..(Len(script) + 1)
  /\ phase \in {"apply", "supersede", "sweep", "done"}
  /\ {stdin, superseded} \subseteq DOMAIN script \union {None}
  /\ phase = "supersede" <=> superseded # None
  /\ dest \in [{1, 2} -> DOMAIN script \union Range(Capture)]
  /\ Range(opened) \subseteq DOMAIN script
  /\ handles \in [DOMAIN script -> {"none", "open", "closed", "aborted", "lost"}]
  /\ {failed, timedOut} \subseteq BOOLEAN

\* Where the descriptors lead after the first n redirects of s: the last
\* redirect of a descriptor decides, and a duplicate leads where its target
\* led at that point.
LeadsTo(s) ==
  LET lead[n \in 0..Len(s)] ==
        [d \in {1, 2} |->
           IF n = 0 THEN Capture[d]
           ELSE IF s[n].kind \notin {"out", "dup"} \/ s[n].fd # d THEN lead[n - 1][d]
           ELSE IF s[n].kind = "out" THEN n
           ELSE lead[n - 1][s[n].to]]
  IN  lead

\* A command that runs has its descriptors where the shell grammar leads
\* them, and the only handles open are the ones it was given: every file that
\* a later redirect superseded was finished, and none that is still in use.
GivenIsOpen ==
  phase = "done" /\ ~failed =>
    /\ dest = LeadsTo(script)[Len(script)]
    /\ {n \in DOMAIN script : handles[n] = "open"} = (Range(dest) \union {stdin}) \ (Range(Capture) \union {None})

\* A preparation that fails, for whatever reason other than the backend, leaves
\* no file behind that the command opened: each is finished, so that it exists
\* as the redirect says and its handle is free.
FailureFinishes ==
  phase = "done" /\ failed /\ (\A n \in DOMAIN script : handles[n] # "lost") =>
    \A n \in DOMAIN script : handles[n] # "open"

\* Both: a command that runs has exactly the files its redirects lead to open,
\* and one that does not run because a redirect failed has none:
\* prepare_redirects finishes every file it opened, unless the backend failed to.
RedirectsPrepared == GivenIsOpen /\ FailureFinishes

\* "Earlier successful redirects still create/truncate their files, including
\* redirects superseded later in the same command or followed by an error":
\* the same when the error is that a file could not be closed.  A file that is
\* not finished is left to the registry, which discards it.
EarlierRedirectsStand ==
  phase = "done" /\ failed => \A n \in DOMAIN script : handles[n] # "open"
=============================================================================
