---------------------------- MODULE MCRelayCache -----------------------------
(* Instances of RelayCache for TLC: a TRACK stream and a GROUP stream feed   *)
(* one cache; three objects of 0, 1 and 2 bytes in two groups.               *)
EXTENDS RelayCache, TLC

CONSTANTS track, group, a, b, c

MCSize == a :> 0 @@ b :> 1 @@ c :> 2
MCGroup == a :> 1 @@ b :> 1 @@ c :> 2
=============================================================================
