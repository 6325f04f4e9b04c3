----------------------------- MODULE MCBootstrap -----------------------------
(* Small instances of Bootstrap for TLC. *)
EXTENDS Bootstrap, TLC

CONSTANTS p1, p2, p3, a1, m1

ThreeProcs == {p1, p2, p3}
OneAddr    == {a1}
OneModel   == {m1}

BootSymmetry == Permutations(Procs)
=============================================================================
