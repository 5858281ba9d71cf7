---------------------------- MODULE MCRelayStream ----------------------------
(* Instances of RelayStream for TLC. *)
EXTENDS RelayStream, TLC

CONSTANTS s1, s2, sub1, sub2

MCPiped == {<<s1, sub1>>}

\* The streams of a track are treated alike; a first and a late subscriber are not.
StreamSymmetry == Permutations(Streams)
=============================================================================
