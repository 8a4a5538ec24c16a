--------------------------- MODULE WebSocketImpl ---------------------------
(***************************************************************************)
(* The life cycle of impl::WebSocket (src/impl/websocketimpl.cpp): open(), *)
(* close(), remoteClose(), closeTransports(), the state-change callbacks   *)
(* of the transports, emplaceTransport() and the timers, run by the        *)
(* threads of the program: application threads, the poll service thread    *)
(* and the workers of the thread pool.                                     *)
(*                                                                         *)
(* Every atomic load, store or exchange of `state` and of a transport      *)
(* pointer is one step.  A thread is a top frame and the frames it returns *)
(* to, so that the recursion of the code (close -> stop -> changeState ->  *)
(* callback -> remoteClose -> close) is kept.  The frames "cbEnd" and      *)
(* "recvEnd" stand for the recursive mutex of a synchronized_callback: the *)
(* thread that has one on its stack holds it.                              *)
(***************************************************************************)
EXTENDS Naturals, Sequences

CONSTANTS
  AppThreads,     \* threads of the application
  Poll,           \* the thread of the PollService
  Workers,        \* the threads of the ThreadPool
  Secure,         \* mIsSecure: the URL has the scheme wss
  Proxied,        \* config.proxyServer is set
  MaxOpens,       \* bound: calls of open()
  AppCalls,       \* what application threads call
  CallbackCalls,  \* what the application calls from a callback
  ConnectionTimer,\* config.connectionTimeout > 0
  PeerErrors      \* the peer may also send a bad opcode, or no pongs

Threads == AppThreads \cup {Poll} \cup Workers
Calls   == {"open", "close", "forceClose"}

ASSUME ConstantsAssumption ==
  /\ Secure \in BOOLEAN /\ Proxied \in BOOLEAN
  /\ MaxOpens \in Nat \ {0}
  /\ AppCalls \subseteq Calls /\ CallbackCalls \subseteq Calls
  /\ ConnectionTimer \in BOOLEAN /\ PeerErrors \in BOOLEAN

States  == {"Connecting", "Open", "Closing", "Closed"}
TStates == {"Disconnected", "Connecting", "Connected", "Failed"}   \* no code sets Completed
Layers  == {"tcp", "proxy", "tls", "ws"}
Inst    == 1 .. MaxOpens      \* the instances of a layer, in creation order
Ptr     == 0 .. MaxOpens      \* a shared_ptr to one of them; 0 is nullptr
NoPtrs  == [l \in Layers |-> 0]

Lower(l) ==
  CASE l = "ws"  -> IF Secure THEN "tls" ELSE IF Proxied THEN "proxy" ELSE "tcp"
    [] l = "tls" -> IF Proxied THEN "proxy" ELSE "tcp"
    [] OTHER     -> "tcp"

Upper(l) ==
  CASE l = "tcp"   -> IF Proxied THEN "proxy" ELSE IF Secure THEN "tls" ELSE "ws"
    [] l = "proxy" -> IF Secure THEN "tls" ELSE "ws"
    [] OTHER       -> "ws"

PCs == {"idle", "open1", "open2", "setTcp", "close1", "close2", "close3", "rc2",
        "ct1", "exchange", "detachRecv", "detachState", "enqueue",
        "init1", "init2", "empStore", "empStart", "empChk", "empNull", "empThrow",
        "stop", "drop", "changeState", "cb", "cbEnd", "broken", "recvNull", "recvEnd",
        "doRecvEnd",
        "wsOpen1", "wsOpen2", "wsClose1", "wsClose2", "ifConnecting",
        "user", "tdReset"}

LockPCs   == {"cbEnd", "recvEnd", "doRecvEnd"}   \* never executed, only held
ReturnPCs == LockPCs \cup   \* what a call can return to
  {"empStart", "stop", "wsClose1", "drop", "close1", "rc2", "recvNull", "changeState", "tdReset"}

\* Frames whose thread holds a shared_ptr to the transport, or runs in it.
Emplacing == {"empStore", "empStart", "empChk", "empNull", "empThrow"}
Running   == {"changeState", "cb", "cbEnd", "broken", "recvNull", "recvEnd",
              "wsClose1", "wsClose2"}

Frame ==   \* what runs in a transport has one to run in
  {f \in [pc : PCs, l : Layers, n : Ptr, s : TStates] :
     f.pc \in Emplacing \cup (Running \ {"recvEnd"}) => f.n # 0}
TopFrame == {f \in Frame : f.pc \notin LockPCs}
RetFrame == {f \in Frame : f.pc \in ReturnPCs}

VARIABLES
  state,      \* WebSocket::state
  mem,        \* mTcpTransport, mProxyTransport, mTlsTransport, mWsTransport
  top, ret,   \* per thread: the frame it executes, the frames it returns to
  got,        \* per thread: the locals ws, tls, tcp of closeTransports()
  made,       \* per layer: how many transports were constructed
  base,       \* per transport: the transports below it (mLower, transitively)
  tst,        \* per transport: Transport::mState
  cb,         \* per transport: is mStateChangeCallback set
  rcv,        \* per transport: who mRecvCallback calls; for ws 1 = WebSocket
  halted,     \* TLS transports whose mIncomingQueue is stopped
  closeSent,  \* WS transports with mCloseSent
  connTimers, \* scheduled connection timeouts, by the open() that did
  closeTimers,\* WS transports with a scheduled close timeout
  teardown,   \* TearDownProcessor: its tasks, the first may be running
  opens,      \* number of calls of open() (the bound counts these)
  gen,        \* number of times open() made the state Connecting
  closedCb    \* per gen: how often the closed callback was called (capped at 2)

wsVars   == <<state, mem, gen, closedCb>>
trVars   == <<made, base, tst, cb, rcv, halted, closeSent>>
taskVars == <<connTimers, closeTimers, teardown, opens>>
data     == <<wsVars, trVars, taskVars, got>>
vars     == <<top, ret, data>>

-----------------------------------------------------------------------------
(* Control flow of a thread                                                *)

FrS(p, l, n, s) == [pc |-> p, l |-> l, n |-> n, s |-> s]
FrT(p, l, n)    == FrS(p, l, n, "Disconnected")
Fr(p)           == FrT(p, "tcp", 0)
Idle            == Fr("idle")

At(t, p) == top[t].pc = p

\* The current frame is replaced by f, which returns to the frames ks.
Goto(t, f, ks) ==
  /\ top' = [top EXCEPT ![t] = f]
  /\ ret' = [ret EXCEPT ![t] = ks \o @]

\* The innermost caller goes on; the mutexes of the calls that end on the way
\* are released.
Return(t) ==
  LET locks(k) == \A i \in 1 .. k : ret[t][i].pc \in LockPCs IN
  \/ /\ locks(Len(ret[t]))
     /\ top' = [top EXCEPT ![t] = Idle]
     /\ ret' = [ret EXCEPT ![t] = <<>>]
  \/ \E k \in 1 .. Len(ret[t]) :
     /\ locks(k - 1) /\ ret[t][k].pc \notin LockPCs
     /\ top' = [top EXCEPT ![t] = ret[t][k]]
     /\ ret' = [ret EXCEPT ![t] = SubSeq(@, k + 1, Len(@))]

\* An atomic load and a branch that may return: no shared state changes.
Test(t, p, c, f) ==
  /\ At(t, p)
  /\ IF c THEN Goto(t, f, <<>>) ELSE Return(t)
  /\ UNCHANGED data

\* transport->stop(); WsTransport::stop() is its close().
StopFr(l, n) == FrT(IF l = "ws" THEN "wsClose1" ELSE "stop", l, n)

\* WebSocket::remoteClose() starts with close().
RemoteClose(t, ks) == Goto(t, Fr("close1"), <<Fr("rc2")>> \o ks)

Frames(t) == {top[t]} \cup {ret[t][i] : i \in 1 .. Len(ret[t])}

\* Mutant: a mutex that is not recursive.
CallbackFree_NotRecursive(t, l, n) == \A u \in Threads : FrT("cbEnd", l, n) \notin Frames(u)

\* The mutex of a callback of transport (l, n) is recursive: another thread's
\* call delays an assignment or a call, the own one does not.
CallbackFree(t, l, n) == \A u \in Threads \ {t} : FrT("cbEnd", l, n) \notin Frames(u)
RecvFree(t, l, n)     == \A u \in Threads \ {t} : FrT("recvEnd", l, n) \notin Frames(u)

-----------------------------------------------------------------------------
(* Who refers to a transport                                               *)

Owned(l, n) ==
  \/ mem[l] = n
  \/ \E u \in Threads : got[u][l] = n
  \/ \E i \in 1 .. Len(teardown) : teardown[i].tr[l] = n

\* A thread u # t whose stack holds a shared_ptr to (l, n), or runs in it.
HeldBy(u, l, n, pcs) == \E f \in Frames(u) : f.pc \in pcs /\ f.l = l /\ f.n = n

HeldByUpper(l, n) ==
  \E k \in Layers, m \in Inst :
     /\ m <= made[k] /\ base[k][m][l] = n
     /\ Owned(k, m) \/ \E u \in Threads : HeldBy(u, k, m, Emplacing \cup Running)

\* Transport::outgoing() walks down: every transport below must be Connected.
CanSend(l, n) ==
  \A k \in Layers : base[l][n][k] # 0 => tst[k][base[l][n][k]] = "Connected"

-----------------------------------------------------------------------------
(* WebSocket::open(), setTcpTransport(), initProxyTransport(),             *)
(* initTlsTransport(), initWsTransport(), emplaceTransport()               *)

\* "WebSocket must be closed before opening"
Open1(t) == Test(t, "open1", state = "Closed", Fr("open2"))

Open2(t) ==   \* changeState(State::Connecting)
  /\ At(t, "open2") /\ gen < MaxOpens
  /\ state' = "Connecting"
  /\ gen' = gen + 1
  /\ Goto(t, Fr("setTcp"), <<>>)
  /\ UNCHANGED <<mem, closedCb, trVars, taskVars, got>>

\* The constructor of a transport of layer l, with its state-change callback.
Construct(l, below) ==
  LET n == made[l] + 1 IN
  /\ made' = [made EXCEPT ![l] = n]
  /\ base' = [base EXCEPT ![l][n] = below]
  /\ cb'   = [cb EXCEPT ![l][n] = TRUE]
  /\ rcv'  = [rcv EXCEPT ![l][n] = IF l = "ws" THEN 1 ELSE 0]
  /\ UNCHANGED <<tst, halted, closeSent>>

SetTcpTransport(t) ==
  /\ At(t, "setTcp")
  /\ \/ /\ mem["tcp"] # 0           \* "TCP transport is already set"
        /\ RemoteClose(t, <<>>)
        /\ UNCHANGED <<trVars, connTimers>>
     \/ /\ mem["tcp"] = 0 /\ made["tcp"] < MaxOpens
        /\ Construct("tcp", NoPtrs)
        /\ connTimers' = IF ConnectionTimer THEN connTimers \cup {gen} ELSE connTimers
        /\ Goto(t, FrT("empStore", "tcp", made["tcp"] + 1), <<>>)
  /\ UNCHANGED <<wsVars, closeTimers, got, teardown, opens>>

\* if (auto transport = std::atomic_load(&m...)) return transport
InitTransport1(t) == Test(t, "init1", mem[top[t].l] = 0, FrT("init2", top[t].l, 0))

InitTransport2(t) ==
  LET l == top[t].l  lo == Lower(l)  m == mem[lo] IN
  /\ At(t, "init2")
  /\ \/ /\ m = 0                    \* "No underlying ... transport"
        /\ RemoteClose(t, <<>>)
        /\ UNCHANGED trVars
     \/ /\ m # 0 /\ made[l] < MaxOpens
        /\ Construct(l, [base[lo][m] EXCEPT ![lo] = m])
        /\ Goto(t, FrT("empStore", l, made[l] + 1), <<>>)
  /\ UNCHANGED <<wsVars, taskVars, got>>

EmplaceStore(t) ==   \* the pointer it replaces is released
  LET l == top[t].l IN
  /\ At(t, "empStore")
  /\ mem' = [mem EXCEPT ![l] = top[t].n]
  /\ IF mem[l] = 0 THEN Goto(t, FrT("empStart", l, top[t].n), <<>>)
     ELSE Goto(t, FrT("drop", l, mem[l]), <<FrT("empStart", l, top[t].n)>>)
  /\ UNCHANGED <<state, gen, closedCb, trVars, taskVars, got>>

\* transport->start(): TCP goes to Connecting and has resolve() queued; the
\* others register with the transport below, go to Connecting and send their
\* first message, which throws if something below is not connected or the socket
\* fails.  One step: what comes from below in between is dropped, and the peer is
\* not obliged to send anything before it has the message.  (GnuTLS and Mbed TLS
\* leave their first message to doRecv() and do not throw; OpenSSL does.)
EmplaceStart(t) ==
  LET l == top[t].l  n == top[t].n  lo == Lower(l)  m == base[l][n][lo] IN
  /\ At(t, "empStart")
  /\ tst' = [tst EXCEPT ![l][n] = "Connecting"]
  /\ \/ /\ l = "tcp"
        /\ Goto(t, FrT("empChk", l, n), <<>>)
        /\ UNCHANGED rcv
     \/ /\ l # "tcp" /\ RecvFree(t, lo, m)
        /\ rcv' = [rcv EXCEPT ![lo][m] = n]
        /\ \/ CanSend(l, n) /\ Goto(t, FrT("empChk", l, n), <<>>)
           \/ Goto(t, FrT("empThrow", l, n), <<>>)
  /\ UNCHANGED <<wsVars, made, base, cb, halted, closeSent, taskVars, got>>

\* Mutant: the state is not looked at after start().
EmplaceCheck_Skipped(t) == At(t, "empChk") /\ Return(t) /\ UNCHANGED data

EmplaceCheck(t) ==   \* the local shared_ptr is released with the frame
  LET l == top[t].l  n == top[t].n IN
  /\ At(t, "empChk")
  /\ CASE state = "Closed"                -> Goto(t, FrT("empNull", l, n), <<>>)
       [] state # "Closed" /\ Owned(l, n)  -> Return(t)
       [] state # "Closed" /\ ~Owned(l, n) -> Goto(t, FrT("drop", l, n), <<>>)
  /\ UNCHANGED data

\* std::atomic_store(member, nullptr); transport->stop(); then, when start()
\* threw, the handler of the caller: remoteClose().
EmplaceUndo(t) ==
  LET l == top[t].l  n == top[t].n
      after == IF At(t, "empThrow") THEN <<Fr("close1"), Fr("rc2")>> ELSE <<>> IN
  /\ At(t, "empNull") \/ At(t, "empThrow")
  /\ mem' = [mem EXCEPT ![l] = 0]
  /\ IF mem[l] \in {0, n} THEN Goto(t, StopFr(l, n), <<FrT("drop", l, n)>> \o after)
     ELSE Goto(t, FrT("drop", l, mem[l]),
               <<StopFr(l, n), FrT("drop", l, n)>> \o after)
  /\ UNCHANGED <<state, gen, closedCb, trVars, taskVars, got>>

-----------------------------------------------------------------------------
(* WebSocket::close(), remoteClose(), closeTransports()                    *)

\* auto s = state.load()
Close1(t) == Test(t, "close1", state \in {"Connecting", "Open"}, Fr("close2"))

Close2(t) ==   \* changeState(State::Closing), whatever the state is by now
  /\ At(t, "close2")
  /\ state' = "Closing"
  /\ Goto(t, Fr("close3"), <<>>)
  /\ UNCHANGED <<mem, gen, closedCb, trVars, taskVars, got>>

\* Mutant: mWsTransport is dereferenced without a test.
Close3_NoTest(t) ==
  /\ At(t, "close3")
  /\ Goto(t, StopFr("ws", mem["ws"]), <<>>)
  /\ UNCHANGED data

Close3(t) ==   \* if (auto transport = std::atomic_load(&mWsTransport)) ...
  /\ At(t, "close3")
  /\ IF mem["ws"] # 0 THEN Goto(t, StopFr("ws", mem["ws"]), <<>>)
     ELSE RemoteClose(t, <<>>)
  /\ UNCHANGED data

RemoteClose2(t) == Test(t, "rc2", state # "Closed", Fr("ct1"))

CloseTransports(t) ==   \* if (!changeState(State::Closed)) return; // already closed
  /\ At(t, "ct1")
  /\ state' = "Closed"
  /\ IF state = "Closed" THEN Return(t) ELSE Goto(t, FrT("exchange", "ws", 0), <<>>)
  /\ UNCHANGED <<mem, gen, closedCb, trVars, taskVars, got>>

\* The order in which closeTransports() goes through its three pointers.
After(l) == IF l = "ws" THEN "tls" ELSE "tcp"

\* Mutant: the pointers are read and not cleared.
Exchange_Load(t) ==
  LET l == top[t].l IN
  /\ At(t, "exchange")
  /\ got' = [got EXCEPT ![t][l] = mem[l]]
  /\ Goto(t, IF l = "tcp" THEN Fr("detachRecv") ELSE FrT("exchange", After(l), 0), <<>>)
  /\ UNCHANGED <<wsVars, trVars, taskVars>>

\* The three std::atomic_exchange.
Exchange(t) ==
  LET l == top[t].l IN
  /\ At(t, "exchange")
  /\ got' = [got EXCEPT ![t][l] = mem[l]]
  /\ mem' = [mem EXCEPT ![l] = 0]
  /\ Goto(t, IF l = "tcp" THEN Fr("detachRecv") ELSE FrT("exchange", After(l), 0), <<>>)
  /\ UNCHANGED <<state, gen, closedCb, trVars, taskVars>>

DetachRecv(t) ==   \* ws->onRecv(nullptr)
  LET n == got[t]["ws"] IN
  /\ At(t, "detachRecv")
  /\ n # 0 => RecvFree(t, "ws", n)
  /\ rcv' = IF n = 0 THEN rcv ELSE [rcv EXCEPT !["ws"][n] = 0]
  /\ Goto(t, FrT("detachState", "ws", 0), <<>>)
  /\ UNCHANGED <<wsVars, made, base, tst, cb, halted, closeSent, taskVars, got>>

\* Mutant: the callback is cleared without its mutex.
DetachState_NoLock(t) ==
  LET l == top[t].l  n == got[t][l] IN
  /\ At(t, "detachState")
  /\ cb' = IF n = 0 THEN cb ELSE [cb EXCEPT ![l][n] = FALSE]
  /\ Goto(t, IF l = "tcp" THEN Fr("enqueue") ELSE FrT("detachState", After(l), 0), <<>>)
  /\ UNCHANGED <<wsVars, made, base, tst, rcv, halted, closeSent, taskVars, got>>

DetachState(t) ==   \* t->onStateChange(nullptr), for ws, tls, tcp
  LET l == top[t].l  n == got[t][l] IN
  /\ At(t, "detachState")
  /\ n # 0 => CallbackFree(t, l, n)
  /\ cb' = IF n = 0 THEN cb ELSE [cb EXCEPT ![l][n] = FALSE]
  /\ Goto(t, IF l = "tcp" THEN Fr("enqueue") ELSE FrT("detachState", After(l), 0), <<>>)
  /\ UNCHANGED <<wsVars, made, base, tst, rcv, halted, closeSent, taskVars, got>>

\* Mutant: nothing to tear down, nothing to announce.
EnqueueTearDown_IfAny(t) ==
  /\ At(t, "enqueue")
  /\ IF got[t] = NoPtrs THEN Return(t) /\ UNCHANGED <<teardown, closedCb>>
     ELSE /\ teardown' = Append(teardown, [tr |-> got[t], by |-> t])
          /\ closedCb' = [closedCb EXCEPT ![gen] = IF @ < 2 THEN @ + 1 ELSE @]
          /\ Goto(t, Fr("user"), <<>>)
  /\ got' = [got EXCEPT ![t] = NoPtrs]
  /\ UNCHANGED <<state, mem, gen, trVars, connTimers, closeTimers, opens>>

\* Mutant: without a WsTransport nothing is handed over.
EnqueueTearDown_WsOnly(t) ==
  /\ At(t, "enqueue")
  /\ teardown' = IF got[t]["ws"] = 0 THEN teardown ELSE Append(teardown, [tr |-> got[t], by |-> t])
  /\ got' = [got EXCEPT ![t] = NoPtrs]
  /\ closedCb' = [closedCb EXCEPT ![gen] = IF @ < 2 THEN @ + 1 ELSE @]
  /\ Goto(t, Fr("user"), <<>>)
  /\ UNCHANGED <<state, mem, gen, trVars, connTimers, closeTimers, opens>>

EnqueueTearDown(t) ==   \* TearDownProcessor::enqueue(...); triggerClosed()
  /\ At(t, "enqueue")
  /\ teardown' = Append(teardown, [tr |-> got[t], by |-> t])
  /\ got' = [got EXCEPT ![t] = NoPtrs]
  /\ closedCb' = [closedCb EXCEPT ![gen] = IF @ < 2 THEN @ + 1 ELSE @]
  /\ Goto(t, Fr("user"), <<>>)
  /\ UNCHANGED <<state, mem, gen, trVars, connTimers, closeTimers, opens>>

-----------------------------------------------------------------------------
(* Transport::changeState() and the callbacks the WebSocket installs       *)

ChangeState(t) ==   \* mState.exchange(state) != state
  LET f == top[t] IN
  /\ At(t, "changeState")
  /\ tst' = [tst EXCEPT ![f.l][f.n] = f.s]
  /\ IF tst[f.l][f.n] = f.s THEN Return(t) ELSE Goto(t, [f EXCEPT !.pc = "cb"], <<>>)
  /\ UNCHANGED <<wsVars, made, base, cb, rcv, halted, closeSent, taskVars, got>>

\* What the callback installed on a transport of layer l does for state s.
Handler(l, s) ==
  CASE s = "Connected" /\ l # "ws" -> <<FrT("init1", Upper(l), 0)>>
    [] s = "Connected" /\ l = "ws" -> <<Fr("wsOpen1")>>
    [] s = "Failed"                -> <<Fr("user"), Fr("close1"), Fr("rc2")>>
    [] s = "Disconnected"          -> IF l = "ws" THEN <<Fr("close1"), Fr("rc2")>>
                                      ELSE <<Fr("ifConnecting")>>
    [] OTHER                       -> <<>>

\* mStateChangeCallback(state), under its mutex until "cbEnd".
StateCallback(t) ==
  LET f == top[t]  h == Handler(f.l, f.s) IN
  /\ At(t, "cb") /\ CallbackFree(t, f.l, f.n)
  /\ IF ~cb[f.l][f.n] \/ h = <<>> THEN Return(t)
     ELSE Goto(t, Head(h), Tail(h) \o <<FrT("cbEnd", f.l, f.n)>>)
  /\ UNCHANGED data

\* if (state == Connecting) remoteClose(): a lower transport disconnected, or
\* the connection timed out (where the error callback is called first).
IfConnecting(t) ==
  /\ At(t, "ifConnecting")
  /\ IF state = "Connecting" THEN RemoteClose(t, <<>>) ELSE Return(t)
  /\ UNCHANGED data

\* if (state == WebSocket::State::Connecting)
WsOpen1(t) == Test(t, "wsOpen1", state = "Connecting", Fr("wsOpen2"))

WsOpen2(t) ==   \* if (changeState(WebSocket::State::Open)) triggerOpen()
  /\ At(t, "wsOpen2")
  /\ state' = "Open"
  /\ IF state = "Open" THEN Return(t) ELSE Goto(t, Fr("user"), <<>>)
  /\ UNCHANGED <<mem, gen, closedCb, trVars, taskVars, got>>

\* Mutant: the end is not passed up.
Broken_Alone(t) ==
  LET l == top[t].l  n == top[t].n IN
  /\ At(t, "broken")
  /\ Goto(t, FrS("changeState", l, n, IF tst[l][n] = "Connected" THEN "Disconnected" ELSE "Failed"), <<>>)
  /\ UNCHANGED data

\* The end of incoming() and of doRecv(), when there is nothing left to read or
\* what was read is wrong.  The state is loaded once more, after the load that
\* let the message in: another thread may have changed it.
Broken(t) ==
  LET l == top[t].l  n == top[t].n IN
  /\ At(t, "broken")
  /\ IF tst[l][n] = "Connected"
     THEN Goto(t, FrS("changeState", l, n, "Disconnected"), <<FrT("recvNull", l, n)>>)
     ELSE Goto(t, FrS("changeState", l, n, "Failed"), <<>>)
  /\ UNCHANGED data

\* recv(nullptr): the WebSocket, or the transport above, learns that the
\* connection below is gone.  TLS only stops its queue; doRecv() follows.
RecvNull(t) ==
  LET l == top[t].l  n == top[t].n  end == FrT("recvEnd", l, n)
      up == Upper(l)  u == rcv[l][n] IN
  /\ At(t, "recvNull") /\ RecvFree(t, l, n)
  /\ CASE u = 0            -> Return(t)
       [] u # 0 /\ l = "ws" -> RemoteClose(t, <<end>>)
       [] u # 0 /\ l # "ws" ->
            CASE up = "tls" -> Return(t)
              [] up # "tls" /\ tst[up][u] \in {"Connecting", "Connected"} ->
                   Goto(t, FrT("broken", up, u), <<end>>)
              [] OTHER -> Return(t)
  /\ halted' = IF l # "ws" /\ up = "tls" /\ u # 0 THEN halted \cup {u} ELSE halted
  /\ UNCHANGED <<wsVars, made, base, tst, cb, rcv, closeSent, taskVars, got>>

\* TcpTransport, HttpProxyTransport and TlsTransport::stop()
Stop(t) ==
  LET l == top[t].l  n == top[t].n  lo == Lower(l)  m == base[l][n][lo] IN
  /\ At(t, "stop")
  /\ Return(t)
  /\ \/ l = "tcp" /\ UNCHANGED <<rcv, halted>>
     \/ /\ l \in {"proxy", "tls"} /\ RecvFree(t, lo, m)
        /\ rcv' = [rcv EXCEPT ![lo][m] = 0]
        /\ halted' = IF l = "tls" THEN halted \cup {n} ELSE halted
  /\ UNCHANGED <<wsVars, made, base, tst, cb, closeSent, taskVars, got>>

\* WsTransport::close(): if (state() != State::Connected) return
WsClose1(t) ==
  Test(t, "wsClose1", tst["ws"][top[t].n] = "Connected", FrT("wsClose2", "ws", top[t].n))

\* Mutant: no timeout for the peer's answer.
WsClose2_NoTimer(t) ==
  LET n == top[t].n IN
  /\ At(t, "wsClose2")
  /\ closeSent' = closeSent \cup {n}
  /\ \/ n \in closeSent /\ Return(t)
     \/ n \notin closeSent /\ CanSend("ws", n) /\ Return(t)
     \/ n \notin closeSent /\ Goto(t, FrS("changeState", "ws", n, "Disconnected"), <<>>)
  /\ UNCHANGED <<wsVars, made, base, tst, cb, rcv, halted, taskVars, got>>

\* mCloseSent.exchange(true); send the close frame; schedule the timeout, or
\* give up if the frame cannot be sent.
WsClose2(t) ==
  LET n == top[t].n IN
  /\ At(t, "wsClose2")
  /\ closeSent' = closeSent \cup {n}
  /\ \/ n \in closeSent /\ Return(t) /\ UNCHANGED closeTimers
     \/ /\ n \notin closeSent /\ CanSend("ws", n)
        /\ closeTimers' = closeTimers \cup {n} /\ Return(t)
     \/ /\ n \notin closeSent
        /\ Goto(t, FrS("changeState", "ws", n, "Disconnected"), <<>>)
        /\ UNCHANGED closeTimers
  /\ UNCHANGED <<wsVars, made, base, tst, cb, rcv, halted, connTimers, got, teardown, opens>>

\* A shared_ptr to (l, n) is released.  If it was the last one the destructor
\* runs: ~TcpTransport waits for its poll callback, closes the socket and
\* changes the state; the others unregister from the transport below, stop it
\* and release it.
Drop(t) ==
  LET l == top[t].l  n == top[t].n  lo == Lower(l)  m == base[l][n][lo]
      others == Threads \ {t} IN
  /\ At(t, "drop")
  /\ IF \/ n = 0 \/ Owned(l, n) \/ HeldByUpper(l, n)
        \/ \E u \in others : HeldBy(u, l, n, Emplacing)
        \/ l # "tcp" /\ \E u \in others : HeldBy(u, l, n, Running)
     THEN Return(t) /\ UNCHANGED <<rcv, closeTimers>>
     ELSE /\ IF l = "tcp"
             THEN /\ \A u \in others : ~HeldBy(u, l, n, Running)
                  /\ Goto(t, FrS("changeState", l, n, "Disconnected"), <<>>)
                  /\ UNCHANGED <<rcv, closeTimers>>
             ELSE /\ RecvFree(t, lo, m)
                  /\ rcv' = [rcv EXCEPT ![lo][m] = 0]
                  /\ closeTimers' = IF l = "ws" THEN closeTimers \ {n} ELSE closeTimers
                  /\ Goto(t, FrT("stop", lo, m), <<FrT("drop", lo, m)>>)
  /\ UNCHANGED <<wsVars, made, base, tst, cb, halted, closeSent, connTimers, got, teardown, opens>>

-----------------------------------------------------------------------------
(* What the threads start                                                  *)

Entry(call) ==
  CASE call = "open"  -> <<Fr("open1")>>
    [] call = "close" -> <<Fr("close1")>>
    [] OTHER          -> <<Fr("close1"), Fr("rc2")>>

\* The application calls open(), close() or forceClose(), from a thread of
\* its own or from a callback; a callback may also just return.
AppCall(t) ==
  /\ \E call \in Calls :
        /\ \/ t \in AppThreads /\ At(t, "idle") /\ call \in AppCalls
           \/ At(t, "user") /\ call \in CallbackCalls
        /\ call = "open" => opens < MaxOpens
        /\ opens' = IF call = "open" THEN opens + 1 ELSE opens
        /\ Goto(t, Head(Entry(call)), Tail(Entry(call)))
  /\ UNCHANGED <<wsVars, trVars, connTimers, closeTimers, got, teardown>>

UserReturn(t) ==
  /\ At(t, "user") /\ Return(t)
  /\ UNCHANGED data

\* TCP connects (poll thread) or cannot (resolve() or attempt(), a worker),
\* and later is lost (poll thread).
TcpConnect(t, n) ==
  /\ At(t, "idle") /\ tst["tcp"][n] = "Connecting"
  /\ \A u \in Threads : ~HeldBy(u, "tcp", n, {"changeState"})   \* one attempt at a time
  /\ \E s \in TStates :
       /\ \/ s = "Connected" /\ t = Poll
          \/ s = "Failed" /\ t \in Workers
       /\ Goto(t, FrS("changeState", "tcp", n, s), <<>>)
  /\ UNCHANGED data

TcpLost(t, n) ==
  /\ At(t, "idle") /\ t = Poll /\ tst["tcp"][n] = "Connected"
  /\ Goto(t, FrS("changeState", "tcp", n, "Disconnected"), <<FrT("recvNull", "tcp", n)>>)
  /\ UNCHANGED data

\* The locks held while the transport (l, n) handles what came from below:
\* the receive callbacks on the way, and TlsTransport::mRecvMutex.
Locks(l, n) ==
  LET b == base[l][n] IN
  CASE l = "tls" -> <<FrT("doRecvEnd", "tls", n)>>
    [] l # "tls" /\ b["tls"] # 0 ->
         <<FrT("recvEnd", "tls", b["tls"]), FrT("doRecvEnd", "tls", b["tls"])>>
    [] l # "tls" /\ b["tls"] = 0 /\ b["proxy"] # 0 ->
         <<FrT("recvEnd", "proxy", b["proxy"]), FrT("recvEnd", "tcp", b["tcp"])>>
    [] OTHER -> <<FrT("recvEnd", "tcp", b["tcp"])>>

\* What incoming data can make an upper transport do: finish or fail its
\* handshake; once connected, find the connection closed or broken.  For the
\* WebSocket transport also: a close frame, an unknown opcode, too many pings.
Reactions(l, n) ==
  LET to(s) == FrS("changeState", l, n, s) IN
  IF tst[l][n] = "Connecting"
  THEN {<<FrT("broken", l, n)>>} \cup
       (IF \/ l = "tls" /\ n \in halted
           \/ \E u \in Threads : HeldBy(u, l, n, {"empThrow"})
        THEN {} ELSE {<<to("Connected")>>})
  ELSE {<<FrT("broken", l, n)>>} \cup
       (IF l = "ws" THEN {<<FrT("wsClose1", l, n), to("Disconnected")>>} ELSE {}) \cup
       (IF l = "ws" /\ PeerErrors THEN {<<FrT("wsClose1", l, n)>>, <<to("Failed")>>} ELSE {})

Incoming(t, l, n) ==
  LET lo == Lower(l)  m == base[l][n][lo] IN
  /\ At(t, "idle") /\ n <= made[l] /\ l # "tcp"
  /\ IF l = "tls" \/ lo = "tls" THEN t \in Workers ELSE t = Poll
  /\ tst[l][n] \in {"Connecting", "Connected"}
  /\ \/ rcv[lo][m] = n /\ (l # "tls" => tst[lo][m] = "Connected")
     \/ l = "tls" /\ n \in halted
  /\ \A u \in Threads \ {t} : \A i \in 1 .. Len(Locks(l, n)) : Locks(l, n)[i] \notin Frames(u)
  /\ \E fs \in Reactions(l, n) : Goto(t, Head(fs), Tail(fs) \o Locks(l, n))
  /\ UNCHANGED data

ConnectionTimeout(t, g) ==
  /\ At(t, "idle") /\ t \in Workers /\ g \in connTimers
  /\ connTimers' = connTimers \ {g}
  /\ IF state = "Connecting" THEN Goto(t, Fr("user"), <<Fr("close1"), Fr("rc2")>>)
     ELSE UNCHANGED <<top, ret>>
  /\ UNCHANGED <<wsVars, trVars, closeTimers, got, teardown, opens>>

CloseTimeout(t, n) ==
  /\ At(t, "idle") /\ t \in Workers /\ n \in closeTimers
  /\ closeTimers' = closeTimers \ {n}
  /\ Goto(t, FrS("changeState", "ws", n, "Disconnected"), <<>>)
  /\ UNCHANGED <<wsVars, trVars, connTimers, got, teardown, opens>>

\* The task of closeTransports(), one at a time (Processor): stop the first
\* transport that is set, then release all of them.
TearDown(t) ==
  /\ At(t, "idle") /\ t \in Workers /\ teardown # <<>>
  /\ \A u \in Threads : \A f \in Frames(u) : f.pc # "tdReset"
  /\ LET tr == Head(teardown).tr
         l  == IF tr["ws"] # 0 THEN "ws" ELSE IF tr["tls"] # 0 THEN "tls" ELSE "tcp" IN
     IF tr[l] # 0 THEN Goto(t, StopFr(l, tr[l]), <<FrT("tdReset", "ws", 0)>>)
     ELSE Goto(t, FrT("tdReset", "ws", 0), <<>>)
  /\ UNCHANGED data

ProxyOn(n) == mem["proxy"] # 0 /\ base["proxy"][mem["proxy"]]["tcp"] = n

\* t.reset() for ws, then tls.  ~WsTransport and ~TlsTransport unregister from
\* the transport below, waiting for a running call, and stop it; a scheduled
\* close timeout no longer finds its transport.
TearDownReset(t) ==
  LET l == top[t].l  n == Head(teardown).tr[l]  lo == Lower(l)  m == base[l][n][lo] IN
  /\ At(t, "tdReset") /\ l # "tcp" /\ teardown # <<>>
  /\ Goto(t, FrT("tdReset", After(l), 0), <<>>)
  /\ \/ n = 0 /\ UNCHANGED <<rcv, halted, closeTimers>>
     \/ /\ n # 0 /\ RecvFree(t, lo, m)
        /\ rcv' = [rcv EXCEPT ![lo][m] = 0]
        /\ halted' = IF lo = "tls" THEN halted \cup {m} ELSE halted
        /\ closeTimers' = IF l = "ws" THEN closeTimers \ {n} ELSE closeTimers
  /\ UNCHANGED <<wsVars, made, base, tst, cb, closeSent, connTimers, got, teardown, opens>>

\* t.reset() for tcp, and the end of the task.  ~TcpTransport waits for its poll
\* callback and closes the socket, unless a proxy transport still refers to it.
TearDownEnd(t) ==
  LET n == Head(teardown).tr["tcp"] IN
  /\ At(t, "tdReset") /\ top[t].l = "tcp" /\ teardown # <<>>
  /\ \A u \in Threads : n # 0 => ~HeldBy(u, "tcp", n, Running)
  /\ tst' = IF n = 0 \/ ProxyOn(n) THEN tst ELSE [tst EXCEPT !["tcp"][n] = "Disconnected"]
  /\ teardown' = Tail(teardown)
  /\ Return(t)
  /\ UNCHANGED <<wsVars, made, base, cb, rcv, halted, closeSent, connTimers, closeTimers, got, opens>>

-----------------------------------------------------------------------------
Init ==
  /\ state = "Closed" /\ mem = NoPtrs /\ gen = 0
  /\ closedCb = [g \in Ptr |-> 0]
  /\ made = NoPtrs
  /\ base = [l \in Layers |-> [n \in Inst |-> NoPtrs]]
  /\ tst = [l \in Layers |-> [n \in Inst |-> "Disconnected"]]
  /\ cb = [l \in Layers |-> [n \in Inst |-> FALSE]]
  /\ rcv = [l \in Layers |-> [n \in Inst |-> 0]]
  /\ halted = {} /\ closeSent = {} /\ connTimers = {} /\ closeTimers = {}
  /\ top = [t \in Threads |-> Idle] /\ ret = [t \in Threads |-> <<>>]
  /\ got = [t \in Threads |-> NoPtrs]
  /\ teardown = <<>> /\ opens = 0

\* A thread goes on with what it is doing.
Step(t) ==
  \/ Open1(t) \/ Open2(t) \/ SetTcpTransport(t) \/ InitTransport1(t) \/ InitTransport2(t)
  \/ EmplaceStore(t) \/ EmplaceStart(t) \/ EmplaceCheck(t) \/ EmplaceUndo(t)
  \/ Close1(t) \/ Close2(t) \/ Close3(t) \/ RemoteClose2(t) \/ CloseTransports(t)
  \/ Exchange(t) \/ DetachRecv(t) \/ DetachState(t) \/ EnqueueTearDown(t)
  \/ ChangeState(t) \/ StateCallback(t) \/ IfConnecting(t) \/ WsOpen1(t) \/ WsOpen2(t)
  \/ Broken(t) \/ RecvNull(t) \/ Stop(t) \/ WsClose1(t) \/ WsClose2(t) \/ Drop(t)
  \/ UserReturn(t) \/ TearDownReset(t) \/ TearDownEnd(t)

\* A worker or the poll thread picks up something to do.
Event(t) ==
  \/ \E n \in Inst : TcpConnect(t, n) \/ TcpLost(t, n) \/ CloseTimeout(t, n)
  \/ \E l \in Layers, n \in Inst : Incoming(t, l, n)
  \/ \E g \in Ptr : ConnectionTimeout(t, g)
  \/ TearDown(t)

\* Nothing runs and nothing is due.
Done ==
  /\ \A t \in Threads : At(t, "idle")
  /\ UNCHANGED vars

Next == (\E t \in Threads : Step(t) \/ Event(t) \/ AppCall(t)) \/ Done

Spec == Init /\ [][Next]_vars

\* Threads that run go on; application callbacks return.  Every connection
\* attempt ends (PollService times it out after 10 s), scheduled timers expire,
\* workers take what is queued.  The peer is not obliged to anything.
Fairness ==
  /\ \A t \in Threads : WF_vars(Step(t))
  /\ WF_vars(\E t \in Threads, n \in Inst : TcpConnect(t, n))
  /\ WF_vars(\E t \in Workers, n \in Inst : CloseTimeout(t, n))
  /\ WF_vars(\E t \in Workers, g \in Ptr : ConnectionTimeout(t, g))
  /\ WF_vars(\E t \in Workers, n \in halted : Incoming(t, "tls", n))
  /\ WF_vars(\E t \in Workers : TearDown(t))

FairSpec == Spec /\ Fairness

-----------------------------------------------------------------------------
(* Properties                                                              *)

\* The variables have the types of the members and locals they stand for.
TypeOK ==
  /\ state \in States
  /\ mem \in [Layers -> Ptr] /\ made \in [Layers -> Ptr]
  /\ gen \in Ptr /\ opens \in Ptr
  /\ closedCb \in [Ptr -> 0 .. 2]
  /\ base \in [Layers -> [Inst -> [Layers -> Ptr]]]
  /\ tst \in [Layers -> [Inst -> TStates]]
  /\ cb \in [Layers -> [Inst -> BOOLEAN]]
  /\ rcv \in [Layers -> [Inst -> Ptr]]
  /\ halted \subseteq Ptr /\ closeSent \subseteq Ptr
  /\ connTimers \subseteq Ptr /\ closeTimers \subseteq Ptr
  /\ top \in [Threads -> TopFrame] /\ ret \in [Threads -> Seq(RetFrame)]
  /\ got \in [Threads -> [Layers -> Ptr]]
  /\ teardown \in Seq([tr : [Layers -> Ptr], by : Threads])

Closable == {"ws", "tls", "tcp"}   \* what closeTransports() takes

\* In frame f a thread is about to take member l in closeTransports(), or is
\* between the store and the state check of emplaceTransport() for it.
Clears(f, l) ==
  \/ /\ f.pc = "exchange"
     /\ l \in CASE f.l = "ws"  -> Closable
               [] f.l = "tls" -> {"tls", "tcp"}
               [] OTHER       -> {"tcp"}
  \/ f.pc \in {"empStart", "empChk", "empNull", "empThrow"} /\ f.l = l

Pending(t, l) == \E f \in Frames(t) : Clears(f, l)

\* No transport outlives its WebSocket: while the state is Closed, a member
\* that is still set is about to be cleared by a thread that is on its way,
\* however open(), close(), callbacks and timeouts interleave
\* (closeTransports() against emplaceTransport()).
NoOrphan ==
  \A l \in Closable : (state = "Closed" /\ mem[l] # 0) => \E t \in Threads : Pending(t, l)

\* Each transport has one owner: the member, one thread inside
\* closeTransports(), or one task of the TearDownProcessor.  So stop() and the
\* release of a transport happen once even if several threads close at once.
SingleOwner ==
  \A l \in Closable, n \in Inst :
    /\ \A t \in Threads : got[t][l] = n => mem[l] # n
    /\ \A t, u \in Threads : got[t][l] = n /\ got[u][l] = n => t = u
    /\ \A i \in 1 .. Len(teardown) : teardown[i].tr[l] = n =>
         /\ mem[l] # n /\ \A t \in Threads : got[t][l] # n
         /\ \A j \in 1 .. Len(teardown) : teardown[j].tr[l] = n => i = j

\* Once a transport is handed to the TearDownProcessor its state-change
\* callback is cleared and no thread is in it but, possibly, the one that
\* closed: the WebSocket hears nothing more from it
\* (synchronized_callback's mutex in closeTransports()).
DetachedSilent ==
  \A i \in 1 .. Len(teardown), l \in Closable :
    LET n == teardown[i].tr[l] IN
    n # 0 => /\ ~cb[l][n]
             /\ CallbackFree(teardown[i].by, l, n)

\* Thread t waits for the mutex of a callback that u holds: to clear the callback
\* (closeTransports()) or to call it (changeState(), recv()).
Waits(t, u) ==
  \/ /\ At(t, "detachState") /\ got[t][top[t].l] # 0
     /\ FrT("cbEnd", top[t].l, got[t][top[t].l]) \in Frames(u)
  \/ /\ At(t, "detachRecv") /\ got[t]["ws"] # 0
     /\ FrT("recvEnd", "ws", got[t]["ws"]) \in Frames(u)
  \/ At(t, "cb") /\ FrT("cbEnd", top[t].l, top[t].n) \in Frames(u)
  \/ At(t, "recvNull") /\ FrT("recvEnd", top[t].l, top[t].n) \in Frames(u)
MutualWait == \E t, u \in Threads : t # u /\ Waits(t, u) /\ Waits(u, t)

\* No two threads wait for each other's callback mutex: a transport can be
\* terminated "from its own thread".
NoMutualWait == ~MutualWait

\* Whenever the WebSocket is closed the closed callback follows: closing gets
\* stuck between the state change and triggerClosed() in one way only, when two
\* threads wait for each other's callback mutex.
ClosedIsAnnounced ==
  \A g \in Inst : (gen = g /\ state = "Closed") ~> (closedCb[g] >= 1 \/ MutualWait)

\* A connection whose TCP transport failed or was lost does not stay the
\* connection of the WebSocket: closeTransports() takes it, whichever of the
\* callbacks, recv(nullptr), doRecv() or emplaceTransport() notices, with TLS
\* and without, unless two threads wait for each other's callback mutex.
LostConnectionIsClosed ==
  \A n \in Inst :
    []<>(~(mem["tcp"] = n /\ tst["tcp"][n] \in {"Failed", "Disconnected"}) \/ MutualWait)

\* What hangs a call is that circle and nothing else: an application thread that
\* called open(), close() or forceClose() and the poll thread that runs callbacks
\* come out again, whatever callback mutexes, teardown tasks and timers they meet,
\* unless two threads wait for each other's callback mutex.  (A teardown task may
\* have to wait as long as the peer keeps the receive callback busy.)
CallsReturn ==
  \A t \in AppThreads \cup {Poll} : []<>(At(t, "idle") \/ MutualWait)

\* Closed is left by open() alone: what closeTransports() finds "already
\* closed" stays closed, so that the closed callback is called once and a
\* WebSocket without transports never looks open.
ClosedIsFinal == [][state = "Closed" /\ state' # "Closed" => gen' = gen + 1]_vars

\* A WebSocket transport that has sent its close frame does not stay the one of the
\* WebSocket: the peer's answer, the loss of the connection or, if need be, the
\* timeout of WsTransport::close() ends it.  (A close() before the transport is
\* connected sends none, and waits for the peer.)
SentCloseEnds ==
  \A n \in Inst : []<>~(mem["ws"] = n /\ n \in closeSent)

\* When the TCP connection to the proxy is up and nothing runs, the proxy
\* transport is the one over that connection ("No underlying TCP transport for
\* Proxy transport" is the error otherwise).
ProxyOnCurrentTcp ==
  (/\ \A t \in Threads : At(t, "idle")
   /\ mem["proxy"] # 0 /\ mem["tcp"] # 0
   /\ tst["tcp"][mem["tcp"]] = "Connected")
    => base["proxy"][mem["proxy"]]["tcp"] = mem["tcp"]

=============================================================================
