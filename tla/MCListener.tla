----------------------------- MODULE MCListener -----------------------------
(* A client that does everything right, and clients that get one thing wrong. *)
EXTENDS Listener

CONSTANTS moq, web, odd

MCAlpn == [c \in Conns |-> IF c = moq THEN "moq-00" ELSE IF c = web THEN "h3" ELSE "other"]

Set(k, v) == [Key |-> k, Value |-> v]
Settings(pad) == [type |-> "SETTINGS", pad |-> pad,
                  Settings |-> <<Set(1, 0), Set(727725890, 1), Set(51, 16384), Set(2147483647, 1)>>]
Request(decodes, wellformed, protocol) ==
    [type |-> "HEADERS", decodes |-> decodes, wellformed |-> wellformed, protocol |-> protocol]

Good == [first |-> "CONTROL", frame |-> Settings(0),
         request |-> Request(TRUE, TRUE, "webtransport")]
MCHellos ==
    {Good,
     [Good EXCEPT !.first = "QPACK"],
     [Good EXCEPT !.frame = [type |-> "DATA", pad |-> 0, Settings |-> << >>]],
     [Good EXCEPT !.frame = Settings(2)],
     [Good EXCEPT !.frame = Settings(3)],
     [Good EXCEPT !.request = Request(FALSE, TRUE, "webtransport")],
     [Good EXCEPT !.request = Request(TRUE, TRUE, "websocket")],
     [Good EXCEPT !.request = [type |-> "DATA", decodes |-> TRUE, wellformed |-> TRUE,
                               protocol |-> "webtransport"]]}
=============================================================================
