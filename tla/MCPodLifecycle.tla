--------------------------- MODULE MCPodLifecycle ---------------------------
(***************************************************************************)
(* Instances of PodLifecycle for TLC.                                      *)
(***************************************************************************)
EXTENDS PodLifecycle, TLC

CONSTANTS n1, c1

\* On one node something answers at the port that c1 is probed at.
Somewhere == {<<n1, c1>>}
=============================================================================
