------------------------------ MODULE SendPath ------------------------------
(***************************************************************************)
(* The sending path: threads of the application call WebSocket::send() and *)
(* come by impl::WebSocket::outgoing(), WsTransport::sendFrame() and       *)
(* TlsTransport::send() to TCP.  The worker that runs doRecv() sends too:  *)
(* control frames by the same path, and records of the TLS library's own,  *)
(* which it makes while it reads or ends.  Meanwhile the connection is     *)
(* lost or closed.                                                         *)
(*                                                                         *)
(* The TLS library is external: it makes records of at most RecordLen      *)
(* bytes, numbered in order, and the peer accepts them in that order only. *)
(* A byte on the wire is known by its record and its place in it, a byte   *)
(* of plaintext by its frame and its place in it.  TCP is the module       *)
(* TcpTransport: here it takes what it is given, or throws, and calls      *)
(* nobody back (the circle through onBufferedAmount() is NoLockCycle       *)
(* there).  A thread that uses a transport that is gone is "crashed".      *)
(***************************************************************************)
EXTENDS FiniteSets, Integers, Sequences

CONSTANTS
  Senders,         \* threads of the application
  Worker,          \* the thread that runs doRecv()
  Nobody,          \* a mutex is free
  Libraries,       \* TLS libraries; "none" is a connection without TLS
  Sizes,           \* sizes of messages
  Short,           \* 0x7E: sizes below are in the second byte of the header
  Long,            \* 0xFFFF: sizes up to it take two bytes more, others eight
  MaxMessageSize,  \* maxMessageSize()
  RecordLen,       \* 16384 in TLS
  FlushLen,        \* bufferSize of flushOutput(), 4096
  MaxFrames,       \* bound: frames
  MaxOwn           \* bound: records of the library's own

Threads == Senders \cup {Worker}

ASSUME SendAssumption ==
  /\ Worker \notin Senders /\ Nobody \notin Threads /\ RecordLen \in Nat \ {0} /\ FlushLen \in Nat \ {0}
  /\ Libraries \subseteq {"openssl", "gnutls", "mbedtls", "none"}
  /\ Short \in Nat /\ Long \in Nat /\ Sizes \subseteq Nat /\ MaxMessageSize \in Nat

VARIABLES
  lib,       \* the TLS library built with
  open,      \* state == State::Open
  ptr,       \* mWsTransport is set
  linked,    \* are WsTransport and TlsTransport Connected
  up,        \* is TcpTransport Connected
  pc,        \* per thread: where it is
  size,      \* per thread: the size of its message
  frames,    \* per frame: its size
  sendMutex, \* who holds mSendMutex of WsTransport
  sslMutex,  \* who holds mSslMutex of TlsTransport
  records,   \* per record the library has made: how many bytes it is on the wire
  plain,     \* the plaintext of the records
  mine,      \* per thread: the frame, and then the record, that it is about to write
  bio,       \* mOutBio of OpenSSL
  wire,      \* what TCP was given
  own        \* the number of records of the library's own

linkVars == <<open, ptr, linked, up>>
tlsVars  == <<sslMutex, records, plain, mine, bio, wire, own>>
vars     == <<lib, linkVars, pc, size, frames, sendMutex, tlsVars>>

Min2(a, b) == IF a < b THEN a ELSE b
Drop(s, n) == SubSeq(s, n + 1, Len(s))

Move(t, to) == pc' = [pc EXCEPT ![t] = to]

\* sendFrame(): the header of a frame with the masking key.
HeaderLen(n) == 4 + IF n < Short THEN 2 ELSE IF n <= Long THEN 4 ELSE 10

FrameLen(f) == HeaderLen(frames[f]) + frames[f]

\* How much of frame f the library has taken, and what of it the next record takes.
Taken(f) == IF plain = <<>> \/ plain[Len(plain)][1] # f THEN 0 ELSE plain[Len(plain)][2]
Fragment(f) == [i \in 1 .. Min2(FrameLen(f) - Taken(f), RecordLen) |-> <<f, Taken(f) + i>>]
Whole(f)    == [i \in 1 .. FrameLen(f) |-> <<f, i>>]

\* The bytes of record n, which are len.
Bytes(n, len) == [j \in 1 .. len |-> <<n, j>>]

-----------------------------------------------------------------------------
(* Ways out of send(): locals go and the lock_guards unlock                *)

Gone(t) == Move(t, "idle") /\ size' = [size EXCEPT ![t] = 0] /\ mine' = [mine EXCEPT ![t] = 0]

Unlocked(t) ==
  /\ sendMutex' = IF sendMutex = t THEN Nobody ELSE sendMutex
  /\ sslMutex' = IF sslMutex = t THEN Nobody ELSE sslMutex

Return(t) == Gone(t) /\ Unlocked(t)

\* Mutant: a lock that is not released when an exception leaves its scope.
Throw_KeepsLock(t) == Gone(t) /\ UNCHANGED <<sendMutex, sslMutex>>

Throw(t) == Gone(t) /\ Unlocked(t)

-----------------------------------------------------------------------------
(* WebSocket::send(), impl::WebSocket::outgoing(), WsTransport::send()     *)

\* No more than MaxFrames frames are sent, with those on their way.
Bounded == Len(frames) + Cardinality({t \in Threads : pc[t] \in {"call", "opened", "use", "frame"}}) < MaxFrames

\* The data is copied into a message.
Send(t, n) ==
  /\ pc[t] = "idle" /\ Bounded
  /\ Move(t, "call") /\ size' = [size EXCEPT ![t] = n]
  /\ UNCHANGED <<lib, linkVars, frames, sendMutex, tlsVars>>

\* The state is loaded, and then mWsTransport; and the message is not too large.
Outgoing(t) ==
  /\ \/ /\ pc[t] = "call"
        /\ IF open THEN Move(t, "opened") /\ UNCHANGED <<sendMutex, sslMutex, size, mine>> ELSE Throw(t)
     \/ /\ pc[t] = "opened"
        /\ IF ptr /\ size[t] <= MaxMessageSize
           THEN Move(t, "use") /\ UNCHANGED <<sendMutex, sslMutex, size, mine>>
           ELSE Throw(t)
  /\ UNCHANGED <<lib, linkVars, frames, records, plain, bio, wire, own>>

\* mWsTransport->send(): by now the pointer may be null.
WsSend(t) ==
  /\ pc[t] = "use"
  /\ IF ptr /\ ~linked THEN Throw(t)
     ELSE Move(t, IF ptr THEN "frame" ELSE "crashed") /\ UNCHANGED <<sendMutex, sslMutex, size, mine>>
  /\ UNCHANGED <<lib, linkVars, frames, records, plain, bio, wire, own>>

\* A pong, a ping or the close frame, sent from incoming() of WsTransport.  What a
\* control frame carries is left out.
Control ==
  /\ pc[Worker] = "idle" /\ linked /\ Bounded
  /\ Move(Worker, "frame") /\ size' = [size EXCEPT ![Worker] = 0]
  /\ UNCHANGED <<lib, linkVars, frames, sendMutex, tlsVars>>

\* ReadCallback() of Mbed TLS passes on that TCP is idle, and the ping is sent from
\* under mbedtls_ssl_read(), that is with mSslMutex.
IdlePing ==
  /\ lib = "mbedtls" /\ pc[Worker] = "idle" /\ linked /\ Bounded
  /\ sslMutex = Nobody /\ sslMutex' = Worker
  /\ Move(Worker, "frame") /\ size' = [size EXCEPT ![Worker] = 0]
  /\ UNCHANGED <<lib, linkVars, frames, sendMutex, records, plain, mine, bio, wire, own>>

\* Mutant: sendFrame() without its mutex.
SendFrame_NoLock(t) ==
  /\ pc[t] = "frame" /\ Move(t, "tls") /\ frames' = Append(frames, size[t])
  /\ mine' = [mine EXCEPT ![t] = Len(frames) + 1]
  /\ UNCHANGED <<lib, linkVars, size, sendMutex, sslMutex, records, plain, bio, wire, own>>

\* sendFrame(): header and masked payload are copied into one message.
SendFrame(t) ==
  /\ pc[t] = "frame" /\ sendMutex = Nobody /\ sendMutex' = t
  /\ Move(t, "tls") /\ frames' = Append(frames, size[t])
  /\ mine' = [mine EXCEPT ![t] = Len(frames) + 1]
  /\ UNCHANGED <<lib, linkVars, size, sslMutex, records, plain, bio, wire, own>>

-----------------------------------------------------------------------------
(* TlsTransport::send() of each library, and what the worker makes it send *)

\* A record with plaintext p: there is always a byte more.  OpenSSL writes it to
\* mOutBio, the others have it written by WriteCallback().
Made(t, p) ==
  /\ records' = Append(records, Len(p) + 1) /\ plain' = plain \o p
  /\ IF lib = "openssl"
     THEN bio' = bio \o Bytes(Len(records'), Len(p) + 1) /\ UNCHANGED mine
     ELSE mine' = [mine EXCEPT ![t] = Len(records')] /\ UNCHANGED bio

\* OpenSSL and Mbed TLS are called under mSslMutex, which is not recursive.
Locked == lib \in {"openssl", "mbedtls"}
SslLock(t) == IF Locked THEN sslMutex = Nobody /\ sslMutex' = t ELSE UNCHANGED sslMutex

\* What fits into a record is taken, and send() does not look at how much that was.
GnutlsRecordSend(t) == Made(t, Fragment(mine[t])) /\ Move(t, "write")
MbedtlsSslWrite(t)  == Made(t, Fragment(mine[t])) /\ Move(t, "write")

\* TlsTransport::send() up to the mutex; without TLS the message goes to TCP.
TlsSend(t) ==
  /\ pc[t] = "tls"
  /\ IF lib # "none" /\ ~linked THEN Throw(t) /\ UNCHANGED <<records, plain, bio>>
     ELSE /\ UNCHANGED <<sendMutex, sslMutex, size>>
          /\ CASE Locked         -> Move(t, "lock") /\ UNCHANGED <<records, plain, mine, bio>>
               [] lib = "gnutls" -> GnutlsRecordSend(t)
               [] lib = "none"   -> Made(t, Whole(mine[t])) /\ Move(t, "write")
  /\ UNCHANGED <<lib, linkVars, frames, wire, own>>

\* The mutex is had.
TlsLock(t) ==
  /\ pc[t] = "lock" /\ SslLock(t)
  /\ CASE lib = "openssl" -> Move(t, "ssl") /\ UNCHANGED <<records, plain, mine, bio>>
       [] lib = "mbedtls" -> MbedtlsSslWrite(t)
  /\ UNCHANGED <<lib, linkVars, size, frames, sendMutex, wire, own>>

\* SSL_write() takes all of the message, record by record.
SslWrite(t) ==
  LET p == Fragment(mine[t]) IN
  /\ pc[t] = "ssl" /\ Made(t, p)
  /\ Move(t, IF Taken(mine[t]) + Len(p) = FrameLen(mine[t]) THEN "flush" ELSE "ssl")
  /\ UNCHANGED <<lib, linkVars, size, frames, sendMutex, sslMutex, wire, own>>

\* doRecv(): SSL_do_handshake(), SSL_read(), mbedtls_ssl_read() and gnutls_bye()
\* can also write.
LibrarySends ==
  /\ pc[Worker] = "idle" /\ lib # "none" /\ linked /\ own < MaxOwn /\ own' = own + 1
  /\ SslLock(Worker) /\ Made(Worker, <<>>)
  /\ Move(Worker, IF lib = "openssl" THEN "flush" ELSE "write")
  /\ UNCHANGED <<lib, linkVars, size, frames, sendMutex, wire>>

\* SSL_shutdown() at the end of doRecv(): nobody flushes what it writes.
Shutdown ==
  /\ pc[Worker] = "idle" /\ lib = "openssl" /\ linked /\ sslMutex = Nobody
  /\ Made(Worker, <<>>) /\ linked' = FALSE
  /\ UNCHANGED <<lib, open, ptr, up, pc, size, frames, sendMutex, sslMutex, wire, own>>

\* Mutant: one piece of mOutBio is passed on, whatever is behind it.
Flush_Once(t) ==
  /\ pc[t] = "flush"
  /\ Return(t) /\ bio' = Drop(bio, FlushLen)
  /\ wire' = IF up THEN wire \o SubSeq(bio, 1, Min2(FlushLen, Len(bio))) ELSE wire
  /\ UNCHANGED <<lib, linkVars, frames, records, plain, own>>

\* flushOutput(); outgoing() throws if TCP is not connected.
Flush(t) ==
  /\ pc[t] = "flush"
  /\ CASE bio = <<>>        -> Return(t) /\ UNCHANGED <<bio, wire>>
       [] bio # <<>> /\ up  -> /\ wire' = wire \o SubSeq(bio, 1, Min2(FlushLen, Len(bio)))
                               /\ bio' = Drop(bio, FlushLen) /\ UNCHANGED <<pc, size, mine, sendMutex, sslMutex>>
       [] bio # <<>> /\ ~up -> Throw(t) /\ bio' = Drop(bio, FlushLen) /\ UNCHANGED wire
  /\ UNCHANGED <<lib, linkVars, frames, records, plain, own>>

\* WriteCallback(), or outgoing() without TLS.
WriteCallback(t) ==
  /\ pc[t] = "write"
  /\ \/ up /\ wire' = wire \o Bytes(mine[t], records[mine[t]]) /\ Return(t)
     \/ ~up /\ Throw(t) /\ UNCHANGED wire
  /\ UNCHANGED <<lib, linkVars, frames, records, plain, bio, own>>

-----------------------------------------------------------------------------
(* The connection is lost or closed                                        *)

Lost ==   \* TCP first, and then the layers above it
  /\ IF up THEN up' = FALSE /\ UNCHANGED linked ELSE linked /\ linked' = FALSE /\ UNCHANGED up
  /\ UNCHANGED <<lib, open, ptr, pc, size, frames, sendMutex, tlsVars>>

CloseTransports ==
  /\ IF open THEN open' = FALSE /\ UNCHANGED ptr ELSE ptr /\ ptr' = FALSE /\ UNCHANGED open
  /\ UNCHANGED <<lib, linked, up, pc, size, frames, sendMutex, tlsVars>>

\* Is t in a function of a transport.
Inside(t) == pc[t] \in {"frame", "tls", "lock", "ssl", "flush", "write"}

\* The teardown releases the transports: a destructor waits for the worker in
\* incoming(), but not for senders, who have no share in what mWsTransport held.
Release ==
  /\ ~ptr /\ pc[Worker] = "idle" /\ \E t \in Senders : Inside(t)
  /\ pc' = [t \in Threads |-> IF t \in Senders /\ Inside(t) THEN "crashed" ELSE pc[t]]
  /\ linked' = FALSE /\ up' = FALSE /\ sendMutex' = Nobody /\ sslMutex' = Nobody
  /\ UNCHANGED <<lib, open, ptr, size, frames, records, plain, mine, bio, wire, own>>

-----------------------------------------------------------------------------
Init ==
  /\ lib \in Libraries /\ open = TRUE /\ ptr = TRUE /\ linked = TRUE /\ up = TRUE
  /\ pc = [t \in Threads |-> "idle"] /\ size = [t \in Threads |-> 0] /\ mine = [t \in Threads |-> 0]
  /\ frames = <<>> /\ sendMutex = Nobody /\ sslMutex = Nobody
  /\ records = <<>> /\ plain = <<>> /\ bio = <<>> /\ wire = <<>> /\ own = 0

\* Thread t goes on in send() or in the library.
Step(t) == Outgoing(t) \/ WsSend(t) \/ SendFrame(t) \/ TlsSend(t) \/ TlsLock(t)
           \/ SslWrite(t) \/ Flush(t) \/ WriteCallback(t)

Next ==
  \/ \E t \in Senders, n \in Sizes : Send(t, n)
  \/ \E t \in Threads : Step(t)
  \/ Control \/ IdlePing \/ LibrarySends \/ Shutdown \/ Lost \/ CloseTransports \/ Release

Spec == Init /\ [][Next]_vars

\* Threads go on, and a mutex that is free again and again is had some time.
FairSpec == Spec /\ \A t \in Threads : SF_vars(Step(t))

-----------------------------------------------------------------------------
(* Properties                                                              *)

\* s goes through pieces of the given lengths, byte by byte: each byte is known by
\* its piece and its place in it.
InSequence(s, lens) ==
  \A i \in 1 .. Len(s) :
    /\ s[i][1] \in 1 .. Len(lens) /\ s[i][2] \in 1 .. lens[s[i][1]]
    /\ s[i] = IF i = 1 THEN <<1, 1>>
              ELSE IF s[i - 1][2] < lens[s[i - 1][1]] THEN <<s[i - 1][1], s[i - 1][2] + 1>>
              ELSE <<s[i - 1][1] + 1, 1>>

\* s ends with the last byte of piece n.
EndsWith(s, lens, n) == IF n = 0 THEN s = <<>> ELSE s # <<>> /\ s[Len(s)] = <<n, lens[n]>>

FrameLens == [f \in 1 .. Len(frames) |-> FrameLen(f)]

\* Records reach TCP in the order in which the library numbered them, whole and
\* none left out, whichever threads make them.  GnuTLS has no mutex around it, so
\* this cannot be said of it once the receiving worker writes (gnutls_bye()).
RecordsInOrder == (lib = "gnutls" /\ own > 0) \/ InSequence(wire, records)

\* Does every frame fit into what one call of the library takes.
Fits == lib \in {"openssl", "none"} \/ \A f \in 1 .. Len(frames) : FrameLen(f) <= RecordLen

\* The connection stands, and no thread is at a frame.
AtRest == linked /\ up /\ \A t \in Threads : pc[t] \in {"idle", "call", "opened", "use", "frame", "crashed"}

\* TCP has been given every byte of every record, and the records have all of
\* every frame, frame by frame.
Complete ==
  /\ bio = <<>>
  /\ \A n \in 1 .. Len(records) : \A j \in 1 .. records[n] : \E i \in 1 .. Len(wire) : wire[i] = <<n, j>>
  /\ InSequence(plain, FrameLens) /\ EndsWith(plain, FrameLens, Len(frames))

\* When no thread is in send() and the connection stands, everything is sent, if
\* every frame fits into what one call of the library takes: send() returns after
\* the last byte.  No message is larger than maxMessageSize().
AllIsSent == frames \in Seq(0 .. MaxMessageSize) /\ (AtRest /\ Fits => Complete)

\* The same of frames of any size that maxMessageSize() lets through.  GnuTLS and
\* Mbed TLS break it: a call takes no more than a record, and send() does not look
\* at how much it took.
LargeIsSent == AtRest => Complete

\* The worker holds mSslMutex and waits for itself, or for a sender that waits for it.
PingHangs ==
  /\ sslMutex = Worker
  /\ \/ pc[Worker] = "lock"
     \/ pc[Worker] = "frame" /\ sendMutex \in Senders /\ pc[sendMutex] = "lock"

\* The ping that is sent when TCP is idle goes through.  With Mbed TLS it does not.
IdlePingPasses == ~PingHangs

\* No thread uses a transport that is gone.  send() looks at mWsTransport, looks at
\* it again to use it, and has no share in what it uses.
NoUseAfterRelease == \A t \in Threads : pc[t] # "crashed"

\* Every call of send() returns, with or without an exception, though threads wait
\* for each other's mutexes and the connection goes away under them; but for a call
\* that uses what is gone (see NoUseAfterRelease), and for those that wait when an
\* idle ping has locked the worker up (see IdlePingPasses).
SendsReturn == \A t \in Threads : pc[t] # "idle" ~> (pc[t] \in {"idle", "crashed"} \/ PingHangs)

=============================================================================
