--------------------------- MODULE MCWsTransport ---------------------------
(* Constants of WsTransport for TLC: the header of a short frame takes one *)
(* byte, the header with an extended length two.                           *)
EXTENDS WsTransport

MCHeaderLen == [n \in {1, 4} |-> IF n < 3 THEN 1 ELSE 2]

CRLF == <<"CR", "LF">>

Response(code, upgrade, value, accept, nl) ==
  <<"HTTP", code>> \o nl \o <<upgrade, value>> \o nl \o <<"accept", accept>> \o nl \o nl

\* The response that generateHttpResponse() makes, and the least that is taken.
Good == <<"HTTP", "101", "CR", "LF", "connection", "Upgrade", "CR", "LF", "upgrade", "websocket",
          "CR", "LF", "accept", "good", "CR", "LF", "CR", "LF">>
Lean == Response("101", "UPGRADE", "WebSocket", "good", <<"LF">>)

Bad ==
  {Response("200", "upgrade", "websocket", "good", CRLF),
   Response("101", "upgrade", "h2c", "good", CRLF),
   Response("101", "upgrade", "websocket", "stale", CRLF),
   <<"HTTP", "101">> \o CRLF \o <<"accept", "good">> \o CRLF \o CRLF,
   <<"junk", "LF", "LF">>, CRLF}

Established(code) == <<"HTTP", code>> \o CRLF \o CRLF

Case(proxy, response, early, n) ==
  [proxy |-> proxy, response |-> response, early |-> early, frames |-> n,
   lengths |-> {1}, orderly |-> TRUE, pings |-> 0, faults |-> FALSE]

MCSetups ==
  {Case(<<>>, r, 0, 1) : r \in {Good, Lean}}
  \cup {Case(<<>>, r, 0, 0) : r \in Bad}
  \cup {Case(Established("200"), Good, 0, 1), Case(Established("404"), Lean, 0, 0),
        Case(Established("200"), <<"junk", "LF", "LF">> \o Lean, 3, 0),
        Case(<<"LF">>, Lean, 0, 0)}
  \* Three frames of an orderly peer, some of them cut off.
  \cup {[Case(<<>>, Lean, 0, 3) EXCEPT !.lengths = {1, 4}]}
  \* A peer that breaks the rules or goes silent, threads that close, a lost connection.
  \cup {[u EXCEPT !.faults = TRUE, !.pings = 1, !.orderly = FALSE] :
          u \in {Case(<<>>, Lean, 0, 2), Case(Established("200"), Lean, 0, 0)}}

=============================================================================
