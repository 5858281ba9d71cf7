--------------------------- MODULE PrefixMulticast ---------------------------
(***************************************************************************)
(* What a stream of moqt/wire promises the peers it is sent to, whatever   *)
(* the threads inside do: every peer holds, at every moment, a prefix of   *)
(* the objects published on the stream; the prefix only grows; nothing is  *)
(* sent to a peer once its copy is finished or its QUIC stream has failed. *)
(* A copy finishes only after the stream has ended or its QUIC stream has  *)
(* failed. (That a finished copy is complete is NOT part of the promise:   *)
(* see ClosedStreamIsDelivered in GroupStream.)                            *)
(***************************************************************************)
EXTENDS Integers, Sequences

CONSTANTS Streams,     \* the streams
          Pipes,       \* the copies of streams: pairs <<stream, peer>>
          Objects      \* what is published

VARIABLES log,         \* log[s]: the objects published on s so far
          ended,       \* ended[s]: the publisher has ended s
          got,         \* got[q]: the objects the peer of copy q was sent
          lost,        \* lost[q]: the QUIC stream of copy q has failed
          finished     \* finished[q]: copy q was closed

pmVars == <<log, ended, got, lost, finished>>

Init ==
    /\ log = [s \in Streams |-> << >>]
    /\ ended = [s \in Streams |-> FALSE]
    /\ got = [q \in Pipes |-> << >>]
    /\ lost = [q \in Pipes |-> FALSE]
    /\ finished = [q \in Pipes |-> FALSE]

Publish(s, o) ==
    /\ ~ended[s]
    /\ log' = [log EXCEPT ![s] = Append(@, o)]
    /\ UNCHANGED <<ended, got, lost, finished>>

End(s) ==
    /\ ended' = [ended EXCEPT ![s] = TRUE]
    /\ UNCHANGED <<log, got, lost, finished>>

\* The peer of q now holds the first n objects of the stream, never fewer than
\* before. The QUIC stream fails in the same step when `fails`.
Deliver(q, n, fails) ==
    /\ ~finished[q]
    /\ ~lost[q]
    /\ n \in Len(got[q]) .. Len(log[q[1]])
    /\ got' = [got EXCEPT ![q] = SubSeq(log[q[1]], 1, n)]
    /\ lost' = [lost EXCEPT ![q] = fails]
    /\ UNCHANGED <<log, ended, finished>>

Finish(q) ==
    /\ ~finished[q]
    /\ ended[q[1]] \/ lost[q]
    /\ finished' = [finished EXCEPT ![q] = TRUE]
    /\ UNCHANGED <<log, ended, got, lost>>

Next ==
    \/ \E s \in Streams : End(s) \/ \E o \in Objects : Publish(s, o)
    \/ \E q \in Pipes :
          \/ Finish(q)
          \/ \E n \in 0 .. Len(log[q[1]]), fails \in BOOLEAN : Deliver(q, n, fails)

Spec == Init /\ [][Next]_pmVars
=============================================================================
