------------------------------ MODULE MCIoLoop ------------------------------
(* IoLoop on small instances.  The order of the peers does not matter.      *)
EXTENDS IoLoop, TLC

CONSTANTS p1, p2, p3

One   == {p1}
Two   == {p1, p2}
Three == {p1, p2, p3}
None  == {}

PeerSymmetry == Permutations(Peers)
=============================================================================
