------------------------- MODULE MCHandleLifecycle -------------------------
(***************************************************************************)
(* Instances of HandleLifecycle for TLC.                                   *)
(***************************************************************************)
EXTENDS HandleLifecycle, TLC

CONSTANTS t1, t2, t3, c1, e1, r1, rh

\* An execution and the host facade share the pools.
SharedRegistryOf == t1 :> r1 @@ t2 :> rh
SharedControlOf  == r1 :> e1 @@ rh :> NoExec

\* Two open calls of the execution and one of the host facade.
MixedRegistryOf == t1 :> r1 @@ t2 :> r1 @@ t3 :> rh

TaskSymmetry == Permutations({t1, t2})
=============================================================================
