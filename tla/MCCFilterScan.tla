---------------------------- MODULE MCCFilterScan ----------------------------
(* Instances of CFilterScan for TLC. *)
EXTENDS CFilterScan, TLC

CONSTANTS p1, p2, p3

\* Slots with the same services are interchangeable.
PeerSymmetry == Permutations(Peers \ LimitedPeers)

=============================================================================
