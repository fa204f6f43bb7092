----------------------------- MODULE MCCommands -----------------------------
(***************************************************************************)
(* What a command runs on and the commands themselves, for TLC: the        *)
(* preparation of its redirects (RedirectSetup), a redirected file         *)
(* (Redirect), the commands that change files (FileTools), the ones that   *)
(* read text (TextReference), jq (JqWorker) and js (JsRuntime).  They      *)
(* share no state here: each initial state sets one going and leaves the   *)
(* others at rest.                                                         *)
(***************************************************************************)
EXTENDS RedirectSetup, Redirect, JqWorker, TLC

CONSTANTS MaxRedirects,                     \* bound: redirects of a command
          MaxFaults, MaxStops, JsBreaks     \* bounds on what goes wrong

VARIABLES subject,
          fs, tool, stopped, faults,
          input, text, broken, ended,
          mounts, host, cmd, js, chunk, permit, expired, failures

toolVars == <<fs, tool, stopped, faults>>
textVars == <<input, text, broken, ended>>
jsVars == <<mounts, host, cmd, js, chunk, permit, expired, failures>>

\* A duplicate of a descriptor onto itself changes nothing.
OtherForms == {f \in Forms : f.kind = "dup" => f.fd # f.to}
RedirectScripts == UNION {[1..n -> OtherForms] : n \in 0..MaxRedirects}

C == INSTANCE CommandCases WITH MaxPathDepth <- 4
JqCases == C!JqLines

Tool == INSTANCE FileTools WITH
    Tools <- C!Tools, Lines <- C!FileLines, Start <- C!FileStart, Chunk <- 2, BinCommands <- {"ls"}, MaxPathDepth <- 4
Text == INSTANCE TextReference WITH
    Jobs <- C!TextJobs, LineBytes <- 3, ChunkBytes <- 2, WindowBytes <- 4, SortBytes <- 5, SortStride <- 2,
    job <- input, tool <- text, stopped <- ended
Js == INSTANCE JsRuntime WITH
    Scripts <- C!JsScripts, Start <- C!JsStart, Chunk <- 2, HostInput <- 4, HostRead <- 2, HostResponse <- 1, MaxOpenFiles <- 3, MaxFd <- 6,
    SourceBytes <- 2, MaxBreaks <- JsBreaks, BinCommands <- {"ls"}, MaxPathDepth <- 4,
    fs <- mounts, stopped <- expired, breaks <- failures

ASSUME CommandsAssumption == SetupAssumption /\ RedirectAssumption /\ JqAssumption

\* A component at rest has ended.
SetupRests ==
    /\ script = 0 /\ at = 0 /\ phase = "rests" /\ stdin = 0 /\ superseded = 0 /\ dest = 0 /\ opened = 0
    /\ handles = 0 /\ failed = 0 /\ timedOut = 0
FileRests ==
    /\ writer = [w \in Writers |-> "idle"] /\ sink = [s \in Sinks |-> "idle"]
    /\ chunks = 0 /\ queue = 0 /\ holder = 0 /\ task = 0 /\ checking = 0 /\ handle = "rests"
    /\ offset = 0 /\ error = 0 /\ file = 0 /\ full = 0 /\ cancelled = 0 /\ accepted = 0
ToolRests == fs = 0 /\ tool = [p \in C!Tools |-> [pc |-> "done"]] /\ stopped = 0 /\ faults = 0
TextRests == input = 0 /\ text = 0 /\ broken = 0 /\ ended = 0
JqRests ==
    /\ job = [j \in Jobs |-> [pc |-> "rests", why |-> "own"]] /\ worker = [j \in Jobs |-> [pc |-> "none"]]
    /\ chan = 0 /\ permits = 0 /\ late = 0 /\ breaks = 0
JsRests ==
    /\ cmd = [pc |-> "done"] /\ js = [pc |-> "none"]
    /\ mounts = 0 /\ host = 0 /\ chunk = 0 /\ permit = 0 /\ expired = 0 /\ failures = 0

MCInit ==
    \/ subject = "setup" /\ SetupInit /\ FileRests /\ ToolRests /\ TextRests /\ JqRests /\ JsRests
    \/ subject = "file" /\ Init /\ SetupRests /\ ToolRests /\ TextRests /\ JqRests /\ JsRests
    \/ subject = "tool" /\ Tool!ToolsInit /\ SetupRests /\ FileRests /\ TextRests /\ JqRests /\ JsRests
    \/ subject = "text" /\ Text!TextInit /\ SetupRests /\ FileRests /\ ToolRests /\ JqRests /\ JsRests
    \/ subject = "jq" /\ JqInit /\ SetupRests /\ FileRests /\ ToolRests /\ TextRests /\ JsRests
    \/ subject = "js" /\ Js!JsInit /\ SetupRests /\ FileRests /\ ToolRests /\ TextRests /\ JqRests

MCNext ==
    \/ subject = "setup" /\ SetupNext /\ UNCHANGED <<subject, vars, toolVars, textVars, jqVars, jsVars>>
    \/ subject = "file" /\ Next /\ UNCHANGED <<subject, setupVars, toolVars, textVars, jqVars, jsVars>>
    \/ subject = "tool" /\ Tool!ToolsNext /\ UNCHANGED <<subject, setupVars, vars, textVars, jqVars, jsVars>>
    \/ subject = "text" /\ Text!TextNext /\ UNCHANGED <<subject, setupVars, vars, toolVars, jqVars, jsVars>>
    \/ subject = "jq" /\ JqNext /\ UNCHANGED <<subject, setupVars, vars, toolVars, textVars, jsVars>>
    \/ subject = "js" /\ Js!JsNext /\ UNCHANGED <<subject, setupVars, vars, toolVars, textVars, jqVars>>

\* The fairness of Redirect, FileTools, JqWorker and JsRuntime.
MCSpec ==
    /\ MCInit /\ [][MCNext]_<<subject, setupVars, vars, toolVars, textVars, jqVars, jsVars>>
    /\ WF_vars(subject = "file" /\ TaskRuns)
    /\ \A s \in Sinks : WF_vars(subject = "file" /\ FinishRuns(s))
    /\ WF_toolVars(subject = "tool" /\ Tool!Runs)
    /\ \A j \in Jobs :
         WF_jqVars(subject = "jq" /\ WorkerStep(j)) /\ WF_jqVars(subject = "jq" /\ Expire(j))
    /\ WF_jsVars(subject = "js" /\ Js!CommandStep) /\ WF_jsVars(subject = "js" /\ Js!WorkerStep)
    /\ WF_jsVars(subject = "js" /\ Js!Interrupted) /\ WF_jsVars(subject = "js" /\ Js!Expire)

\* The preparation of redirects by itself.
SetupAlone == subject = "setup" /\ MCInit /\ [][MCNext]_<<subject, setupVars, vars, toolVars, textVars, jqVars, jsVars>>

-----------------------------------------------------------------------------
\* Every variable has its type: the handles of the mount table are the open
\* ones of the backends and belong to one command or descriptor each, permits
\* are free or with one holder, buffers and channels keep their bounds.
Types ==
    /\ subject = "setup" => SetupTypeOK
    /\ subject = "text" => Text!TextTypeOK
    /\ subject = "file" => TypeOK
    /\ subject = "tool" => Tool!ToolsTypeOK
    /\ subject = "jq" => JqTypeOK
    /\ subject = "js" => Js!JsTypeOK

\* cat, head, tail, grep, uniq, sed, wc and sort print what their definitions
\* on whole inputs say, however the inputs are cut into reads.
TextWhole == subject = "text" => Text!TextWhole

\* cp, mv, rm, mkdir and touch that exit with 0 did what was asked, and when
\* others change the files under them have left out no entry they listed.
StatusHonest == subject = "tool" => Tool!StatusHonest

\* What cp makes visible in a staged mount is never a part of a file.
WholeCopies == [][subject = "tool" => Tool!WholeStep]_toolVars

\* A script that was cut short publishes nothing more and one that ended by
\* itself publishes all, output included, or reports the failure.
JsHonest == subject = "js" => Js!JsSettled /\ Js!JsOutput

\* A redirect is finished once its descriptors are dropped, every command that
\* changes files ends, and the workers of jq and js exit.
CommandsEnd == []<>(NoneFinishing /\ Tool!ToolsDone /\ NoneWorking /\ Js!JsOver)
=============================================================================
