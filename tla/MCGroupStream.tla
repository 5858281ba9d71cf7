---------------------------- MODULE MCGroupStream ----------------------------
(* An instance of GroupStream for TLC: a relayed stream with two copies.     *)
(* (Published streams are in MCPublisher.)                                   *)
EXTENDS GroupStream

CONSTANTS relayed, sub1, sub2

MCPipes == {<<relayed, sub1>>, <<relayed, sub2>>}
=============================================================================
