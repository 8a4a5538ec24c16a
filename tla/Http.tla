-------------------------------- MODULE Http --------------------------------
(***************************************************************************)
(* What a client reads of an HTTP response (src/impl/http.cpp, and the     *)
(* parseHttpResponse() of WsHandshake and of HttpProxyTransport).          *)
(*                                                                         *)
(* A response is a sequence of symbols: "CR", "LF", and the parts of its   *)
(* lines, which are the protocol and the code of the status line, and the  *)
(* name and the value of a header.                                         *)
(***************************************************************************)
EXTENDS FiniteSetsExt, Integers, Sequences

LineEnds(b) == {i \in DOMAIN b : b[i] = "LF"}

\* The line that ends at i, without a CR before the LF.
Line(b, i) ==
  SubSeq(b, 1 + Max({0} \cup {j \in LineEnds(b) : j < i}),
         IF i > 1 /\ b[i - 1] = "CR" THEN i - 2 ELSE i - 1)

\* parseHttpLines(): the lines, by their place, up to the first empty one, and
\* the length with that; the length is 0 if there is no empty line yet.
ParseHttpLines(b) ==
  LET blank == {i \in LineEnds(b) : Line(b, i) = <<>>}
      last  == IF blank = {} THEN 0 ELSE Min(blank) IN
  [length |-> last, lines |-> {<<i, Line(b, i)>> : i \in {j \in LineEnds(b) : j < last}}]

First(lines) == (CHOOSE x \in lines : \A y \in lines : x[1] <= y[1])[2]

\* `status >> protocol >> code`, and 0 if there is no code.
Code(lines) == LET l == First(lines) IN IF Len(l) < 2 THEN "0" ELSE l[2]

\* parseHttpHeaders(): the name of a header in lower case, if it has a value.
Name(line) == IF Len(line) = 2 /\ line[1] = "UPGRADE" THEN "upgrade" ELSE line[1]

\* headers.find(): the value of the first header with the name, if there is one.
Value(lines, name) ==
  LET found == {x \in lines : Name(x[2]) = name} IN
  IF found = {} \/ Len(First(found)) < 2 THEN "" ELSE First(found)[2]

Throws == -1

\* What parseHttpResponse() returns of parsed lines, ok or not.
Parse(p, ok) == IF p.length = 0 THEN 0 ELSE IF p.lines # {} /\ ok THEN p.length ELSE Throws

\* HttpProxyTransport::parseHttpResponse()
ProxyResponse(b) == LET p == ParseHttpLines(b) IN Parse(p, Code(p.lines) = "200")

\* Mutant: the accept header is not looked at.
WsResponse_NoKey(b) ==
  LET p == ParseHttpLines(b) IN
  Parse(p, Code(p.lines) = "101" /\ Value(p.lines, "upgrade") \in {"websocket", "WebSocket"})

\* The value of the accept header that belongs to mKey.
AcceptKey == "good"

\* What WsHandshake looks for in the lines of a response; upper and lower case are
\* the same in the value of the upgrade header, and there is no test of Connection.
Upgrades(lines) ==
  /\ Code(lines) = "101" /\ Value(lines, "upgrade") \in {"websocket", "WebSocket"}
  /\ Value(lines, "accept") = AcceptKey

\* WsHandshake::parseHttpResponse()
WsResponse(b) == LET p == ParseHttpLines(b) IN Parse(p, Upgrades(p.lines))

=============================================================================
