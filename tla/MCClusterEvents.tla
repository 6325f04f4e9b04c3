-------------------------- MODULE MCClusterEvents --------------------------
(* Small instances of ClusterEvents for TLC. *)
EXTENDS ClusterEvents

CONSTANTS n1, n2

OneNode  == {n1}
TwoNodes == {n1, n2}
=============================================================================
