---------------------------- MODULE WsTransport ----------------------------
(***************************************************************************)
(* The incoming side and the closing of WsTransport                        *)
(* (src/impl/wstransport.cpp), and of HttpProxyTransport below it          *)
(* (src/impl/httpproxytransport.cpp): the bytes that TCP hands up in       *)
(* chunks of any size are the answer of the proxy, if there is one, the    *)
(* HTTP response of the server, and frames.  Each layer keeps in mBuffer   *)
(* what it cannot use yet; WsTransport skips what is left of a frame that  *)
(* was cut off (mIgnoreLength), and passes messages to the WebSocket.      *)
(* Threads of the application and a timer close the transport meanwhile.   *)
(*                                                                         *)
(* A byte is its position in the stream, and the buffers are sequences of  *)
(* positions.  A frame is known by the position it starts at, and parsing  *)
(* anywhere else is parsing garbage: that it never happens is Aligned.     *)
(***************************************************************************)
EXTENDS Http

CONSTANTS
  Closers,            \* threads that call close()
  Setups,             \* instances, see below
  HeaderLen,          \* per length: the bytes of the frame header
  MaxMessageSize,     \* mMaxMessageSize
  MaxControlLength,   \* maxControlFrameLength, 125 in the code
  SizeMod             \* size_t is computed modulo 2^64

\* An instance says: the answer of the proxy (empty without a proxy), the response
\* of the server and how much of it comes early, before it was asked for; the number
\* (a bound) and lengths of the frames, and whether they keep the rules of RFC 6455 on fragments; the
\* value of mMaxOutstandingPings, 0 for any number; and whether there are faults:
\* threads that close or detach, and the loss of the connection.
SetupFields == {"proxy", "response", "early", "frames", "lengths", "orderly", "pings", "faults"}

DataOps    == {"TEXT", "BINARY"}
ControlOps == {"PING", "PONG", "CLOSE", "other"}
Ops        == DataOps \cup {"CONTINUATION"} \cup ControlOps

ASSUME WsAssumption ==
  /\ MaxMessageSize \in Nat /\ MaxControlLength \in Nat /\ SizeMod \in Nat \ {0}
  /\ \A u \in Setups :
       /\ DOMAIN u = SetupFields /\ u.proxy \in Seq(STRING) /\ u.response \in Seq(STRING)
       /\ u.early \in 0 .. Len(u.response) /\ u.frames \in Nat /\ u.pings \in Nat
       /\ u.orderly \in BOOLEAN /\ u.faults \in BOOLEAN
       /\ \A n \in u.lengths :   \* RFC 6455: n < 2^63
            n \in Nat /\ HeaderLen[n] \in Nat \ {0} /\ HeaderLen[n] + n < SizeMod

\* The answers that the client takes.
Accepts(u) == (u.proxy = <<>> \/ ProxyResponse(u.proxy) > 0) /\ WsResponse(u.response) > 0

\* The proxy's answer ends with its empty line, and so does a response that is
\* taken; in every response there is one.
ASSUME AnswersAssumption ==
  \A u \in Setups : \E p \in {ParseHttpLines(u.proxy)}, r \in {ParseHttpLines(u.response)} :
    p.length = Len(u.proxy) /\ r.length > 0 /\ (Accepts(u) => r.length = Len(u.response))

VARIABLES
  setup,     \* the instance: a member of Setups
  frames,    \* the frames the peer sent: opcode, fin, length, position before it
  messages,  \* the messages they make up
  end,       \* the bytes the peer sent
  up,        \* is the transport below connected
  arrived,   \* the bytes that TCP has handed up
  pstate,    \* mState of the HttpProxyTransport; Connected if there is none
  pbuf,      \* its mBuffer
  rest,      \* what it passes on of that
  buf,       \* mBuffer
  state,     \* mState, Disconnected as long as the proxy is not connected
  ignore,    \* mIgnoreLength
  partial,   \* mPartial
  partialOp, \* mPartialOpcode, uninitialised before the first data frame
  pings,     \* mOutstandingPings
  closeSent, \* mCloseSent
  closes,    \* how many close frames were sent (capped at 2)
  timer,     \* is the close timeout scheduled
  listening, \* is mRecvCallback set
  delivered, \* what mRecvCallback was called with
  pc,        \* where the thread is that runs incoming()
  closer     \* per thread: has it passed the test of close()

peerVars  == <<setup, frames, messages, end>>
proxyVars == <<pstate, pbuf>>
parseVars == <<arrived, rest, buf, ignore, pc>>
msgVars   == <<partial, partialOp, delivered>>
closeVars == <<closeSent, closes, timer>>
vars      == <<peerVars, up, proxyVars, parseVars, msgVars, state, pings, closeVars, listening, closer>>

-----------------------------------------------------------------------------
(* The peer and the transport below                                        *)

Min2(a, b) == IF a < b THEN a ELSE b
Max2(a, b) == IF a < b THEN b ELSE a

\* The bytes before the first frame.
Opening == Len(setup.proxy) + Len(setup.response)

Text(b) == [i \in 1 .. Len(b) |->
  LET p == b[i] n == Len(setup.proxy) IN
  IF p <= n THEN setup.proxy[p] ELSE IF p <= Opening THEN setup.response[p - n] ELSE "data"]

\* The first n bytes of the payload of frame f.
Payload(f, n) == [i \in 1 .. n |-> f.at + HeaderLen[f.len] + i]

Unfinished == messages # <<>> /\ ~messages[Len(messages)].fin

PeerSend(op, fin, len) ==
  LET f == [op |-> op, fin |-> fin, len |-> len, at |-> end]
      m == [type |-> op, fin |-> fin, data |-> Payload(f, len)]
      n == Len(messages) IN
  /\ end >= Opening /\ Len(frames) < setup.frames /\ len \in setup.lengths
  /\ op \in ControlOps => fin
  /\ setup.orderly => /\ op \in DataOps => ~Unfinished
                      /\ op = "CONTINUATION" => Unfinished
                      /\ \A i \in 1 .. Len(frames) : frames[i].op # "CLOSE"
  /\ frames' = Append(frames, f)
  /\ end' = end + HeaderLen[len] + len
  /\ messages' = CASE op \in ControlOps -> messages
                   [] op = "CONTINUATION" /\ Unfinished ->
                        [messages EXCEPT ![n] =
                           [type |-> @.type, fin |-> fin, data |-> @.data \o m.data]]
                   [] OTHER -> Append(messages, m)
  /\ UNCHANGED <<setup, up, proxyVars, parseVars, msgVars, state, pings, closeVars, listening, closer>>

LowerLost ==
  /\ setup.faults /\ up /\ up' = FALSE
  /\ UNCHANGED <<peerVars, proxyVars, parseVars, msgVars, state, pings, closeVars, listening, closer>>

\* The WebSocket stops listening: closeTransports() of another thread.
Detach ==
  /\ setup.faults /\ listening /\ listening' = FALSE
  /\ UNCHANGED <<peerVars, up, proxyVars, parseVars, msgVars, state, pings, closeVars, closer>>

-----------------------------------------------------------------------------
(* changeState(), close()                                                  *)

\* On Disconnected and Failed the WebSocket closes its transports.
ChangeState(s) ==
  /\ state' = s
  /\ listening' = (listening /\ s \notin {"Disconnected", "Failed"})

\* Mutant: mCloseSent is not looked at.
Close_Again ==
  /\ closeSent' = TRUE
  /\ IF up THEN /\ closes' = Min2(closes + 1, 2) /\ timer' = TRUE
                /\ UNCHANGED <<state, listening>>
     ELSE ChangeState("Disconnected") /\ UNCHANGED <<closes, timer>>

\* Mutant: the timeout is not scheduled.
Close_NoTimer ==
  /\ closeSent' = TRUE /\ UNCHANGED timer
  /\ CASE closeSent        -> UNCHANGED <<closes, state, listening>>
       [] ~closeSent /\ up  -> closes' = Min2(closes + 1, 2) /\ UNCHANGED <<state, listening>>
       [] ~closeSent /\ ~up -> ChangeState("Disconnected") /\ UNCHANGED closes

\* close(), past the test that the state is Connected.
Close ==
  /\ closeSent' = TRUE
  /\ CASE closeSent        -> UNCHANGED <<closes, timer, state, listening>>
       [] ~closeSent /\ up  -> /\ closes' = Min2(closes + 1, 2) /\ timer' = TRUE
                               /\ UNCHANGED <<state, listening>>
       [] ~closeSent /\ ~up -> ChangeState("Disconnected") /\ UNCHANGED <<closes, timer>>

CloseCheck(t) ==   \* if (state() != State::Connected) return
  /\ setup.faults /\ ~closer[t] /\ state = "Connected"
  /\ closer' = [closer EXCEPT ![t] = TRUE]
  /\ UNCHANGED <<peerVars, up, proxyVars, parseVars, msgVars, state, pings, closeVars, listening>>

CloseSend(t) ==
  /\ closer[t] /\ closer' = [closer EXCEPT ![t] = FALSE]
  /\ Close
  /\ UNCHANGED <<peerVars, up, proxyVars, parseVars, msgVars, pings>>

CloseTimeout ==
  /\ timer /\ timer' = FALSE
  /\ ChangeState("Disconnected")
  /\ UNCHANGED <<peerVars, up, proxyVars, parseVars, msgVars, pings, closeSent, closes, closer>>

-----------------------------------------------------------------------------
(* incoming(): a chunk, a read timeout, the end of the connection          *)

\* What incoming() does after an exception, or with nullptr.
Broken == ChangeState(IF state = "Connected" THEN "Disconnected" ELSE "Failed")

Drop(b, n) == SubSeq(b, n + 1, Len(b))

\* The next k bytes, a message that TCP hands up.
Chunk(k) == [i \in 1 .. k |-> arrived + i]

\* The server answers the request that start() of WsTransport sends.
SendHttpRequest == end' = Max2(end, Opening)

StartWs == state' = "Connecting" /\ SendHttpRequest

\* HttpProxyTransport::incoming() while Connecting.  On Connected the WebSocket
\* starts a WsTransport, which sends its request; what follows the answer is its.
ProxyChunk(k) == pstate = "Connecting" /\ \E b \in {pbuf \o Chunk(k)} : \E n \in {ProxyResponse(Text(b))} :
  /\ pc = "idle" /\ arrived + k <= end /\ arrived' = arrived + k
  /\ rest' = IF n > 0 /\ listening THEN Drop(b, n) ELSE <<>>
  /\ pc' = IF rest' = <<>> THEN "idle" ELSE "rest"
  /\ pbuf' = IF n > 0 THEN <<>> ELSE b
  /\ pstate' = CASE n = 0 -> pstate [] n = Throws -> "Failed" [] n > 0 -> "Connected"
  /\ listening' = (listening /\ n # Throws)
  /\ IF n > 0 /\ listening THEN StartWs ELSE UNCHANGED <<state, end>>
  /\ UNCHANGED <<setup, frames, messages, up, buf, ignore, msgVars, pings, closeVars, closer>>

\* mBuffer.insert(...) of a message m; the handshake, if it is not over.
Insert(m) == \E b \in {buf \o m} : \E n \in {IF state = "Connecting" THEN WsResponse(Text(b)) ELSE 0} :
  /\ buf' = IF n > 0 THEN Drop(b, n) ELSE b
  /\ pc' = IF n = Throws THEN "idle" ELSE "skip"
  /\ CASE n = 0      -> UNCHANGED <<state, listening>>
       [] n = Throws -> Broken
       [] n > 0      -> ChangeState("Connected")
  /\ UNCHANGED <<peerVars, up, proxyVars, ignore, msgVars, pings, closeVars, closer>>

IncomingChunk(k) ==
  /\ pc = "idle" /\ arrived + k <= end /\ arrived' = arrived + k
  /\ pstate = "Connected" /\ state \in {"Connecting", "Connected"}
  /\ Insert(Chunk(k)) /\ UNCHANGED rest

IncomingRest ==
  /\ pc = "rest" /\ rest' = <<>>
  /\ Insert(rest) /\ UNCHANGED arrived

\* Mutant: the skipped bytes are not counted.
Skip_NotCounted ==
  LET n == Min2(ignore, Len(buf)) IN
  /\ pc = "skip"
  /\ buf' = IF state = "Connected" THEN Drop(buf, n) ELSE buf
  /\ ignore' = ignore
  /\ pc' = IF state = "Connected" /\ ignore = n THEN "frames" ELSE "idle"
  /\ UNCHANGED <<peerVars, up, proxyVars, arrived, rest, msgVars, state, pings, closeVars, listening, closer>>

Skip ==
  LET n == Min2(ignore, Len(buf)) IN
  /\ pc = "skip"
  /\ buf' = IF state = "Connected" THEN Drop(buf, n) ELSE buf
  /\ ignore' = IF state = "Connected" THEN ignore - n ELSE ignore
  /\ pc' = IF state = "Connected" /\ ignore = n THEN "frames" ELSE "idle"
  /\ UNCHANGED <<peerVars, up, proxyVars, arrived, rest, msgVars, state, pings, closeVars, listening, closer>>

\* Mutant: pings are sent and not counted.
Idle_NotCounted ==
  /\ pc = "idle" /\ state = "Connected"
  /\ IF up THEN UNCHANGED <<pings, state, listening>>
     ELSE Broken /\ UNCHANGED pings
  /\ UNCHANGED <<peerVars, up, proxyVars, parseVars, msgVars, closeVars, closer>>

\* A message of size zero: TCP is idle, send a ping; addOutstandingPing().
Idle ==
  LET limit == setup.pings > 0 IN
  /\ pc = "idle" /\ state = "Connected"
  /\ IF up THEN /\ pings' = IF limit THEN pings + 1 ELSE pings
                /\ IF limit /\ pings' > setup.pings THEN ChangeState("Failed")
                   ELSE UNCHANGED <<state, listening>>
     ELSE Broken /\ UNCHANGED pings
  /\ UNCHANGED <<peerVars, up, proxyVars, parseVars, msgVars, closeVars, closer>>

\* nullptr: a proxy that is connecting fails, a connected one passes it on.
IncomingNull ==
  /\ pc = "idle" /\ ~up
  /\ \/ /\ pstate = "Connecting" /\ pstate' = "Failed" /\ listening' = FALSE /\ UNCHANGED state
     \/ /\ pstate = "Connected" /\ state \in {"Connecting", "Connected"} /\ Broken
        /\ pstate' = IF setup.proxy = <<>> THEN pstate ELSE "Disconnected"
  /\ UNCHANGED <<peerVars, up, pbuf, parseVars, msgVars, pings, closeVars, closer>>

-----------------------------------------------------------------------------
(* parseFrame() and recvFrame()                                            *)

MaxFrameLength == Max2(MaxControlLength, MaxMessageSize)

\* Mutant: one byte more than the frame is waited for.
Parsed_OffByOne(f) ==
  /\ pc = "frames" /\ buf # <<>> /\ Head(buf) = f.at + 1
  /\ HeaderLen[f.len] + Min2(f.len, MaxFrameLength) < Len(buf)
  /\ (HeaderLen[f.len] + f.len) % SizeMod # 0

\* parseFrame() finds f at the front of mBuffer.
Parsed(f) ==
  /\ pc = "frames" /\ buf # <<>> /\ Head(buf) = f.at + 1
  /\ HeaderLen[f.len] + Min2(f.len, MaxFrameLength) <= Len(buf)
  /\ (HeaderLen[f.len] + f.len) % SizeMod # 0

\* mBuffer.erase(...), or mBuffer.clear() and the rest is skipped later.
Erase(f) ==
  LET n == (HeaderLen[f.len] + f.len) % SizeMod IN
  IF n > Len(buf)
  THEN ignore' = n - Len(buf) /\ buf' = <<>> /\ pc' = "idle"
  ELSE buf' = Drop(buf, n) /\ UNCHANGED <<ignore, pc>>

\* The first n bytes of the payload, as they are in mBuffer.
Content(f, n) == SubSeq(buf, HeaderLen[f.len] + 1, HeaderLen[f.len] + n)

Deliver(ms) == delivered' = IF listening THEN delivered \o ms ELSE delivered

RecvData(f) ==
  LET new  == Content(f, Min2(f.len, MaxMessageSize))
      old  == IF partial = <<>> THEN <<>> ELSE <<[type |-> partialOp, data |-> partial]>> IN
  /\ f.op \in DataOps /\ Parsed(f) /\ Erase(f)
  /\ Deliver(old \o (IF f.fin THEN <<[type |-> f.op, data |-> new]>> ELSE <<>>))
  /\ partial' = IF f.fin THEN <<>> ELSE new
  /\ partialOp' = f.op
  /\ UNCHANGED <<peerVars, up, proxyVars, arrived, rest, state, pings, closeVars, listening, closer>>

\* Mutant: the collected message is not cleared once it is passed on.
RecvContinuation_NotCleared(f) ==
  LET new == partial \o Content(f, Min2(f.len, MaxFrameLength))
      all == SubSeq(new, 1, Min2(Len(new), MaxMessageSize)) IN
  /\ f.op = "CONTINUATION" /\ Parsed(f) /\ Erase(f)
  /\ Deliver(IF f.fin THEN <<[type |-> partialOp, data |-> all]>> ELSE <<>>)
  /\ partial' = all
  /\ UNCHANGED <<peerVars, up, proxyVars, arrived, rest, partialOp, state, pings, closeVars, listening, closer>>

RecvContinuation(f) ==
  LET new == partial \o Content(f, Min2(f.len, MaxFrameLength))
      all == SubSeq(new, 1, Min2(Len(new), MaxMessageSize)) IN
  /\ f.op = "CONTINUATION" /\ Parsed(f) /\ Erase(f)
  /\ Deliver(IF f.fin THEN <<[type |-> partialOp, data |-> all]>> ELSE <<>>)
  /\ partial' = IF f.fin THEN <<>> ELSE all
  /\ UNCHANGED <<peerVars, up, proxyVars, arrived, rest, partialOp, state, pings, closeVars, listening, closer>>

RecvPing(f) ==   \* sendFrame(PONG) throws if the connection below is gone
  /\ f.op = "PING" /\ Parsed(f)
  /\ IF up THEN Erase(f) /\ UNCHANGED <<state, listening>>
     ELSE Broken /\ pc' = "idle" /\ UNCHANGED <<buf, ignore>>
  /\ UNCHANGED <<peerVars, up, proxyVars, arrived, rest, msgVars, pings, closeVars, closer>>

RecvPong(f) ==
  /\ f.op = "PONG" /\ Parsed(f) /\ Erase(f)
  /\ pings' = 0
  /\ UNCHANGED <<peerVars, up, proxyVars, arrived, rest, msgVars, state, closeVars, listening, closer>>

RecvClose(f) ==   \* close(); changeState(State::Disconnected)
  /\ f.op = "CLOSE" /\ Parsed(f) /\ Erase(f)
  /\ LET sends == state = "Connected" /\ ~closeSent IN
     /\ closeSent' = (closeSent \/ state = "Connected")
     /\ closes' = IF sends /\ up THEN Min2(closes + 1, 2) ELSE closes
     /\ timer' = (timer \/ (sends /\ up))
  /\ ChangeState("Disconnected")
  /\ UNCHANGED <<peerVars, up, proxyVars, arrived, rest, msgVars, pings, closer>>

RecvUnknown(f) ==
  /\ f.op = "other" /\ Parsed(f) /\ Erase(f)
  /\ IF state = "Connected" THEN Close ELSE UNCHANGED <<closeVars, state, listening>>
  /\ UNCHANGED <<peerVars, up, proxyVars, arrived, rest, msgVars, pings, closer>>

RecvFrame(f) ==
  \/ RecvData(f) \/ RecvContinuation(f) \/ RecvPing(f)
  \/ RecvPong(f) \/ RecvClose(f) \/ RecvUnknown(f)

ParseEnd ==
  /\ pc = "frames" /\ \A i \in 1 .. Len(frames) : ~Parsed(frames[i])
  /\ pc' = "idle"
  /\ UNCHANGED <<peerVars, up, proxyVars, arrived, rest, buf, ignore, msgVars, state, pings, closeVars,
                 listening, closer>>

-----------------------------------------------------------------------------
\* What comes in answer to the first request: of the proxy, if there is one.
Answered == IF setup.proxy = <<>> THEN Opening ELSE Len(setup.proxy) + setup.early

Init ==   \* start() has sent the request, the answer is on its way
  /\ setup \in Setups /\ frames = <<>> /\ messages = <<>> /\ up = TRUE
  /\ end = Answered
  /\ arrived = 0 /\ rest = <<>> /\ pbuf = <<>> /\ buf = <<>> /\ ignore = 0
  /\ pstate = IF setup.proxy = <<>> THEN "Connected" ELSE "Connecting"
  /\ state = IF setup.proxy = <<>> THEN "Connecting" ELSE "Disconnected"
  /\ partial = <<>> /\ partialOp \in DataOps
  /\ pings = 0 /\ closeSent = FALSE /\ closes = 0 /\ timer = FALSE
  /\ listening = TRUE /\ delivered = <<>> /\ pc = "idle"
  /\ closer = [t \in Closers |-> FALSE]

\* The thread that runs incoming() goes on.
Process == IncomingRest \/ Skip \/ (\E i \in 1 .. Len(frames) : RecvFrame(frames[i])) \/ ParseEnd

Next ==
  \/ \E op \in Ops, fin \in BOOLEAN, len \in setup.lengths : PeerSend(op, fin, len)
  \/ LowerLost \/ Detach \/ CloseTimeout \/ Idle \/ IncomingNull
  \/ \E t \in Closers : CloseCheck(t) \/ CloseSend(t)
  \/ \E k \in 1 .. end - arrived : ProxyChunk(k) \/ IncomingChunk(k)
  \/ Process

Spec == Init /\ [][Next]_vars

\* Threads go on and timers expire.
FairSpec == Spec /\ WF_vars(Process) /\ WF_vars(CloseTimeout)

-----------------------------------------------------------------------------
(* Properties                                                              *)

Boundaries == {end} \cup {frames[i].at : i \in 1 .. Len(frames)}

\* The decoder never loses the frame boundary, nor a byte: mBuffer is what TCP
\* handed up last, without a gap; what is left to skip ends where a frame begins,
\* and frames are looked for with nothing left to skip; however the stream is cut
\* into chunks and frames are cut off at the maximal size.
Aligned ==
  LET next == IF buf = <<>> THEN arrived + 1 ELSE Head(buf) IN
  (state = "Connected" /\ pc # "rest") =>
    /\ buf = [i \in 1 .. Len(buf) |-> arrived - Len(buf) + i]
    /\ next + ignore - 1 \in Boundaries
    /\ pc = "frames" => ignore = 0

\* In b, x is followed by y: read without a parser.
Says(b, x, y) == \E i \in 1 .. Len(b) - 1 : b[i] = x /\ b[i + 1] = y

\* A response with the code 101, the upgrade to websocket and the key's answer.
Upgraded(b) ==
  /\ Len(b) > 1 /\ b[2] = "101" /\ Says(b, "accept", AcceptKey)
  /\ \E name \in {"upgrade", "UPGRADE"}, value \in {"websocket", "WebSocket"} : Says(b, name, value)

\* The WebSocket opens only on a response that has the code 101, the upgrade to
\* websocket and the answer that belongs to its key, and once all of it has arrived;
\* by then it has decided: however the response, and the proxy's answer before it,
\* are cut into chunks, and whatever comes along with their last bytes.  On answers
\* that it takes nothing fails, but for a fault or too many pings unanswered.
HandshakeDecides ==
  /\ state = "Connected" => Upgraded(setup.response) /\ arrived >= Opening
  /\ (pc = "idle" /\ arrived >= Opening /\ listening) => "Connecting" \notin {state, pstate}
  /\ (Accepts(setup) /\ ~setup.faults /\ setup.pings = 0) => "Failed" \notin {state, pstate}

\* The WebSocket opens only if the server agreed to upgrade the connection: the
\* request has "Connection: Upgrade", and so have the responses that WsHandshake
\* makes itself (generateHttpResponse()).  It does not hold: parseHttpResponse() does
\* not look at the header, without which RFC 6455 has the client fail (4.1).
ConnectionUpgraded == state = "Connected" => Says(setup.response, "connection", "Upgrade")

\* Every delivered byte is a payload byte, in the order of the stream and at
\* most once, whatever the peer sends: no header bytes in a message, nothing
\* from a frame that was skipped, no fragment in two messages.
BytesInOrder ==
  LET pos(d, i) == delivered[d].data[i] IN
  \A d \in 1 .. Len(delivered) : \A i \in 1 .. Len(delivered[d].data) :
    /\ \E j \in 1 .. Len(frames) :
         /\ frames[j].op \in DataOps \cup {"CONTINUATION"}
         /\ pos(d, i) \in frames[j].at + HeaderLen[frames[j].len] + 1 ..
                          frames[j].at + HeaderLen[frames[j].len] + frames[j].len
    /\ \A e \in 1 .. d : \A k \in 1 .. Len(delivered[e].data) :
         (e < d \/ k < i) => pos(e, k) < pos(d, i)

\* The messages delivered are those of an orderly peer: type and bytes, each
\* cut off at mMaxMessageSize, fragments put together.  When everything the peer
\* sent has arrived and been looked at, every message it finished has been
\* delivered: nothing waits in mBuffer for a next chunk.
InOrder ==
  setup.orderly =>
    /\ Len(delivered) <= Len(messages)
    /\ \A d \in 1 .. Len(delivered) :
         /\ messages[d].fin /\ delivered[d].type = messages[d].type
         /\ delivered[d].data = SubSeq(messages[d].data, 1,
                                       Min2(Len(messages[d].data), MaxMessageSize))
    /\ (listening /\ state = "Connected" /\ pc = "idle" /\ arrived = end) =>
         \A d \in 1 .. Len(messages) : messages[d].fin => d <= Len(delivered)

\* At most one close frame is sent, whoever closes: the application's threads,
\* the close frame of the peer, an unknown opcode (mCloseSent).
OneClose == closes <= 1

\* A transport that sent its close frame does not stay connected, whether the
\* peer answers or not: the close timeout.
CloseTimesOut == closeSent ~> state # "Connected"

\* With a limit on outstanding pings, a peer that goes silent (the peer of the
\* model sends a bounded number of frames) does not stay connected, given that
\* TCP reports read timeouts (setReadTimeout() in setTcpTransport()).
SilentPeerIsDropped ==
  WF_vars(Idle) => ((state = "Connected" /\ setup.pings > 0) ~> state # "Connected")

=============================================================================
