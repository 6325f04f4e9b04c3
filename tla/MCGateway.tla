----------------------------- MODULE MCGateway -----------------------------
(* Small instances of Gateway for TLC. *)
EXTENDS Gateway, TLC

CONSTANTS i1, i2, r1, boot1, d1, d2, q1, q2, remote

OneId  == {i1}
TwoIds == {i1, i2}
NoRequest  == {}
OneRequest == {r1}
NoDaemon == {}
OneDaemon == {boot1}
TwoDeploys == {d1, d2}
OneChat == {q1}
TwoChats == {q1, q2}
NoRemote == {}
OneRemote == {remote}
FakeOnly == {[kind |-> "fake", port |-> 0]}
NoPort == {}

GSymmetry == Permutations(Deploys) \cup Permutations(Ids) \cup Permutations(Chats)
=============================================================================
