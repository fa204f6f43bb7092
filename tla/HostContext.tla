----------------------------- MODULE HostContext -----------------------------
(***************************************************************************)
(* Cancellation as host code sees it (control.rs).  An execution has one      *)
(* cancellation state; a host call's context adds a state of its own, which   *)
(* is cancelled when the call settles, and watches the execution's.  Host     *)
(* code waits in HostContext::cancelled while either may be cancelled: a      *)
(* store of the flag and then notify_waiters, two steps that any step of the  *)
(* waiter may come between.                                                 *)
(***************************************************************************)
EXTENDS Naturals

CONSTANTS
    States,         \* CancellationState: the execution's and one per host call
    Contexts,       \* HostContext: its own state, and at most one for a parent
    Waiters,        \* futures of HostContext::cancelled
    MaxWaits        \* bound on the waits a future's owner starts

ASSUME HostAssumption ==
    /\ Contexts \subseteq [own : States, parent : SUBSET States]
    /\ MaxWaits \in Nat

VARIABLES
    context,        \* per waiter, the context it waits on
    cancelled,      \* the states whose flag is set
    pending,        \* the states whose cancel has yet to notify
    expired,        \* the deadline passed
    wpc,            \* where each waiter is
    heard,          \* per waiter, the states that notified it since it registered
    woken,          \* waiters whose task was woken
    waits           \* per waiter, the waits it may still start

hostVars == <<context, cancelled, pending, expired, wpc, heard, woken, waits>>

Pcs == {"idle", "own", "registered", "polling", "polled", "parked", "returned"}

HostInit ==
    /\ context \in [Waiters -> Contexts]
    /\ cancelled = {}
    /\ pending = {}
    /\ expired = {}
    /\ wpc = [w \in Waiters |-> "idle"]
    /\ heard = [w \in Waiters |-> {}]
    /\ woken = {}
    /\ waits = [w \in Waiters |-> MaxWaits]

Own(w) == context[w].own
Parent(w) == context[w].parent

Watched(w) == {Own(w)} \cup Parent(w)

(* HostContext::is_cancelled *)
IsCancelled(w) == w \in expired \/ Watched(w) \cap cancelled # {}

(* The states a waiter's Notified futures were enabled on.                  *)
Enabled(w) ==
    CASE wpc[w] \in {"idle", "returned"} -> {}
      [] wpc[w] = "own" -> {Own(w)}
      [] wpc[w] \in {"registered", "polling", "polled", "parked"} -> Watched(w)

(* The states whose notification wakes the waiter's task.                   *)
Polled(w) ==
    CASE wpc[w] = "polled" -> {Own(w)}
      [] wpc[w] = "parked" -> Watched(w)
      [] wpc[w] \in Pcs \ {"polled", "parked"} -> {}

(* A slip: a Notified future counts only once it was polled.                *)
ReceivesWhenPolled(w) == Polled(w)

(* Who notify_waiters reaches: enable() makes that every created future.    *)
Receives(w) == Enabled(w)

(* CancellationState::cancel: the flag, ...                                 *)
Store(s) ==
    /\ s \notin pending
    /\ cancelled' = cancelled \cup {s}
    /\ pending' = pending \cup {s}
    /\ UNCHANGED <<context, expired, wpc, heard, woken, waits>>

(* ... and the waiters.                                                     *)
Notify(s) ==
    /\ s \in pending
    /\ pending' = pending \ {s}
    /\ heard' = [w \in Waiters |-> IF s \in Receives(w) THEN heard[w] \cup {s} ELSE heard[w]]
    /\ woken' = woken \cup {w \in Waiters : s \in Polled(w)}
    /\ UNCHANGED <<context, cancelled, expired, wpc, waits>>

At(w, from, to) ==
    /\ wpc[w] = from
    /\ wpc' = [wpc EXCEPT ![w] = to]

(* HostContext::cancelled, from its creation to its first check.            *)
RegisterOwn(w) ==
    /\ waits[w] > 0
    /\ At(w, "idle", "own")
    /\ waits' = [waits EXCEPT ![w] = @ - 1]
    /\ UNCHANGED <<context, cancelled, pending, expired, heard, woken>>

RegisterParent(w) ==
    /\ At(w, "own", "registered")
    /\ UNCHANGED <<context, cancelled, pending, expired, heard, woken, waits>>

Returns(w) ==
    /\ wpc' = [wpc EXCEPT ![w] = "returned"]
    /\ UNCHANGED <<context, cancelled, pending, expired, heard, woken, waits>>

CheckFirst(w) ==
    /\ wpc[w] = "registered"
    /\ IF IsCancelled(w) THEN Returns(w)
       ELSE /\ wpc' = [wpc EXCEPT ![w] = "polling"]
            /\ UNCHANGED <<context, cancelled, pending, expired, heard, woken, waits>>

(* poll_fn: the flags, then this context's notification, then the parent's.  *)
(* A poll consumes the wake-up that caused it.                              *)
PollOwn(w) ==
    /\ wpc[w] = "polling"
    /\ IF IsCancelled(w) \/ Own(w) \in heard[w] THEN Returns(w)
       ELSE /\ wpc' = [wpc EXCEPT ![w] = "polled"]
            /\ woken' = woken \ {w}
            /\ UNCHANGED <<context, cancelled, pending, expired, heard, waits>>

PollParent(w) ==
    /\ wpc[w] = "polled"
    /\ IF Parent(w) \cap heard[w] # {} THEN Returns(w)
       ELSE /\ wpc' = [wpc EXCEPT ![w] = "parked"]
            /\ UNCHANGED <<context, cancelled, pending, expired, heard, woken, waits>>

Resume(w) ==
    /\ w \in woken
    /\ At(w, "parked", "polling")
    /\ UNCHANGED <<context, cancelled, pending, expired, heard, woken, waits>>

(* tokio::time::timeout_at *)
TimerFires(w) ==
    /\ wpc[w] = "parked" /\ w \in expired
    /\ Returns(w)

Expire(w) ==
    /\ expired' = expired \cup {w}
    /\ UNCHANGED <<context, cancelled, pending, wpc, heard, woken, waits>>

(* The future is dropped, or it returned and its owner waits again.         *)
DropWait(w) ==
    /\ wpc[w] # "idle" /\ waits[w] > 0
    /\ wpc' = [wpc EXCEPT ![w] = "idle"]
    /\ heard' = [heard EXCEPT ![w] = {}]
    /\ woken' = woken \ {w}
    /\ UNCHANGED <<context, cancelled, pending, expired, waits>>

Wait(w) ==
    \/ RegisterParent(w) \/ CheckFirst(w) \/ PollOwn(w) \/ PollParent(w)
    \/ Resume(w) \/ TimerFires(w)

HostNext ==
    \/ \E s \in States : Store(s) \/ Notify(s)
    \/ \E w \in Waiters : RegisterOwn(w) \/ Wait(w) \/ Expire(w) \/ DropWait(w)

HostSpec == HostInit /\ [][HostNext]_hostVars

(* A cancel runs to its end, and a woken task is polled.                    *)
HostFairness ==
    /\ \A s \in States : WF_hostVars(Notify(s))
    /\ \A w \in Waiters : WF_hostVars(Wait(w))

(*------------------------------- properties --------------------------------*)

(* Every variable has its type, and only a cancelled state has waiters still   *)
(* to be notified.                                                          *)
HostTypeOK ==
    /\ context \in [Waiters -> Contexts]
    /\ cancelled \subseteq States
    /\ pending \subseteq cancelled
    /\ expired \subseteq Waiters
    /\ wpc \in [Waiters -> Pcs]
    /\ heard \in [Waiters -> SUBSET States]
    /\ woken \subseteq Waiters
    /\ waits \in [Waiters -> Nat]

(* A host future that sleeps in HostContext::cancelled while its context or   *)
(* the execution is already cancelled is about to be woken: the notification   *)
(* is still to come, or its task was woken and not polled yet.  (The comment   *)
(* on cancelled: registration and the state check prevent a cancellation      *)
(* racing this method from being lost.)                                     *)
NoLostCancellation ==
    \A w \in Waiters : \A s \in Watched(w) :
        wpc[w] = "parked" /\ s \in cancelled => s \in pending \/ w \in woken

(* A wait on a cancelled context ends, or is dropped by its owner.          *)
WaitsInVain(w) == Watched(w) \cap cancelled # {} /\ wpc[w] # "idle"
CancelledReturns ==
    \A w \in Waiters : WaitsInVain(w) ~> wpc[w] \in {"returned", "idle"}
=============================================================================
