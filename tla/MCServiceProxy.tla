--------------------------- MODULE MCServiceProxy ---------------------------
(***************************************************************************)
(* Instances of ServiceProxy for TLC.                                      *)
(***************************************************************************)
EXTENDS ServiceProxy, TLC

CONSTANTS a, b, p, q, n1, n2

\* Two services, one of which shares a pod with the other.
SharedPod == a :> {p, q} @@ b :> {q}

\* A node for each pod: their engines may give them one address.
TwoNodes == p :> n1 @@ q :> n2

\* One node: an address that one pod gives up may be the other's next.
OneNode == p :> n1 @@ q :> n1
=============================================================================
