----------------------------- MODULE MCFlouzeSync -----------------------------
(* Instances of FlouzeSync for TLC: two devices that differ in nothing, so   *)
(* that safety runs may permute them.                                        *)
EXTENDS FlouzeSyncRefinement, TLC

CONSTANTS phone, laptop

TwoClients == {phone, laptop}

ClientSymmetry == Permutations(Clients)
===============================================================================
