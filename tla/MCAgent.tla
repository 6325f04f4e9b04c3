------------------------------ MODULE MCAgent ------------------------------
(* Small instances of Agent for TLC. *)
EXTENDS Agent, TLC

CONSTANTS i1, r1, boot, d1, d2

OneId  == {i1}
OneRequest == {r1}
NoDaemon == {}
OneDaemon == {boot}
TwoDeploys == {d1, d2}

(* The spec the console and the restart at boot build: no port. *)
Default(k) == [kind |-> k, port |-> 0]
VllmOnly   == {Default("vllm")}
FakeOnly   == {Default("fake")}
Processes  == {Default(k) : k \in Kinds \ {"fake"}}
Polled     == {Default(k) : k \in ChecksHTTP}

NoPort     == {}
SglangPort == {8000}

Symmetry == Permutations(Deploys) \cup Permutations(Requests) \cup Permutations(Ids)
=============================================================================
