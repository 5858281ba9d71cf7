---------------------------- MODULE MCRelayControl ----------------------------
(* Instances of RelayControl for TLC: every subscription, or only the ones the *)
(* subscribing programs make at their start.                                   *)
EXTENDS RelayControl

CONSTANTS p1, r1, r2

AllCalls == Ids
MainCalls == Subs \X {Main}
=============================================================================
