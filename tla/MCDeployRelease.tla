-------------------------- MODULE MCDeployRelease --------------------------
(* Instances of DeployRelease for TLC. *)
EXTENDS DeployRelease, TLC

CONSTANTS p1, p2, a1

OneProject  == p1 :> a1
\* Two projects bound to the same asset: they share its image store.
TwoProjects == p1 :> a1 @@ p2 :> a1
=============================================================================
