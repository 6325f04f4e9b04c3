---------------------------- MODULE MCModelAdmin ----------------------------
(* Small instances of ModelAdmin for TLC. *)
EXTENDS ModelAdmin, TLC

CONSTANTS h1, h2

TwoHandlers == {h1, h2}
TwoConfigs  == {"path", "endpoint"}
ThreeConfigs == {"path", "path2", "endpoint"}
Endpoints   == {"endpoint"}

AdminSymmetry == Permutations(TwoHandlers)
=============================================================================
