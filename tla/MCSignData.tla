---------------------------- MODULE MCSignData ----------------------------
(* Instances of SignData for TLC.                                          *)
EXTENDS SignData, TLC

PeerSymmetry == Permutations(Nodes \ {Leader})
=============================================================================
