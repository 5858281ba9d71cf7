----------------------------- MODULE MCPublisher ----------------------------
(* Two groups; the copies are the ones NewStream makes. *)
EXTENDS Publisher

MCStreams == 0 .. MaxGroups - 1
MCPipes == {<<g, relay>> : g \in MCStreams}
=============================================================================
