----------------------------- MODULE MCPPDeploy -----------------------------
(* Small instances of PPDeploy for TLC. *)
EXTENDS PPDeploy, TLC

CONSTANTS n1, n2, c1, c2

TwoNodes == {n1, n2}
TwoCalls == {c1, c2}
OtherNode == {n2}

PPSymmetry == Permutations(Calls)
=============================================================================
