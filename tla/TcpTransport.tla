---------------------------- MODULE TcpTransport ----------------------------
(***************************************************************************)
(* TcpTransport (src/impl/tcptransport.cpp): the host is resolved and its  *)
(* addresses are tried one after the other by tasks of the ThreadPool,     *)
(* each attempt ends in a callback of the PollService; then bytes are sent *)
(* directly, or queued until the socket is writable.                       *)
(*                                                                         *)
(* Bytes are numbered in the order in which send() takes them; a message   *)
(* is an interval of numbers.  send() runs on threads of the application   *)
(* and on the poll thread, from the callbacks of upper layers (a pong, a   *)
(* ping, a handshake).  The poll thread has the mutex of the PollService   *)
(* during a callback: cb # "none" means that mutex is taken.               *)
(***************************************************************************)
EXTENDS Integers, Sequences, FiniteSets

CONSTANTS
  Senders,    \* threads of the application that call send()
  Poll,       \* the thread of the PollService
  Nobody,     \* no thread has mSendMutex
  Socks,      \* socket descriptors
  NoSock,     \* INVALID_SOCKET
  MaxAddrs,   \* bound: addresses a host resolves to
  MaxBytes    \* bound: bytes given to send()

ASSUME TcpAssumption ==
  /\ Poll \notin Senders /\ Nobody \notin Senders \cup {Poll} /\ NoSock \notin Socks
  /\ MaxAddrs \in Nat /\ MaxBytes \in Nat

Threads  == Senders \cup {Poll}
Bytes    == 1..MaxBytes
\* A message is the numbers of its first and last byte.
NoMsg    == [lo |-> 1, hi |-> 0]                 \* nullptr, or an empty message
Size(m)  == IF m = NoMsg THEN 0 ELSE m.hi - m.lo + 1

\* A registration has the direction and what it calls: the lambda of attempt(),
\* or process().
NoReg  == [kind |-> "none", dir |-> "none"]
Idle   == [pc |-> "idle", own |-> NoMsg, cur |-> NoMsg, size |-> 0]

VARIABLES
  st,       \* state()
  sock,     \* mSock
  open,     \* the descriptors the process has open
  resolved, \* the number of addresses in mResolved
  tasks,    \* what the ThreadPool has to run for this transport
  reg,      \* the registrations in the PollService
  queue,    \* mSendQueue
  amount,   \* mBufferedAmount
  mutex,    \* who has mSendMutex
  th,       \* per thread: where it is in send() or trySendQueue()
  cb,       \* the callback the poll thread runs
  more,     \* does Out follow the callback In
  alive,    \* is there a shared_ptr to the transport
  conn,     \* the connection: none, up, half (closed by the peer) or dead
  total,    \* bytes given to send() so far
  wire,     \* bytes the socket has taken
  raced,    \* have two threads been in trySendQueue() at a time
  shadowed  \* has setPoll(In) replaced Both while bytes were queued

netVars  == <<resolved, tasks, alive, conn>>
sendVars == <<queue, amount, mutex, th, total, wire, raced>>
vars     == <<st, sock, open, reg, cb, more, shadowed, netVars, sendVars>>

-----------------------------------------------------------------------------
(* setPoll() and PollService::remove()                                     *)

\* A new registration replaces the old one.
SetPoll(dir) == reg' = [reg EXCEPT ![sock] = [kind |-> "process", dir |-> dir]]

Removed == IF sock = NoSock THEN reg ELSE [reg EXCEPT ![sock] = NoReg]

\* Another thread gets the mutex of the PollService between callbacks only.
PollLockFree(t) == t = Poll \/ cb = "none"

-----------------------------------------------------------------------------
(* start(), resolve(), attempt()                                           *)

\* connect(); the second call throws.
Start ==
  /\ st = "Disconnected" /\ sock = NoSock /\ total = 0 /\ tasks = <<>> /\ alive
  /\ st' = "Connecting" /\ tasks' = <<"resolve">>
  /\ UNCHANGED <<sock, open, reg, cb, more, shadowed, resolved, alive, conn, sendVars>>

\* A task of the pool starts: weak_bind() drops it when the transport is gone,
\* and the task returns at once when the connection was cancelled.
TaskStarts(task) == tasks # <<>> /\ Head(tasks) = task
TaskRuns(task)   == TaskStarts(task) /\ alive /\ st = "Connecting" /\ mutex = Nobody

TaskDropped ==
  /\ tasks # <<>>
  /\ ~alive \/ (st # "Connecting" /\ mutex = Nobody)
  /\ tasks' = Tail(tasks)
  /\ resolved' = IF alive /\ Head(tasks) = "resolve" THEN 0 ELSE resolved
  /\ UNCHANGED <<st, sock, open, reg, cb, more, shadowed, alive, conn, sendVars>>

Resolve ==
  /\ TaskRuns("resolve")
  /\ \/ \E n \in 1..MaxAddrs : resolved' = n /\ tasks' = <<"attempt">> /\ UNCHANGED st
     \/ resolved' = 0 /\ tasks' = <<>> /\ st' = "Failed"
  /\ UNCHANGED <<sock, open, reg, cb, more, shadowed, alive, conn, sendVars>>

\* The test of mSock at line 205 is the wrong way round: the socket of the
\* attempt before stays open, and mSock is overwritten.
AttemptNone ==
  /\ TaskRuns("attempt") /\ resolved = 0
  /\ st' = "Failed" /\ tasks' = <<>>
  /\ UNCHANGED <<sock, open, reg, cb, more, shadowed, resolved, alive, conn, sendVars>>

\* Mutant: the next address is not tried.
AttemptFails_NoRetry ==
  /\ TaskRuns("attempt") /\ resolved > 0
  /\ resolved' = resolved - 1 /\ sock' = NoSock /\ tasks' = <<>>
  /\ UNCHANGED <<st, open, reg, cb, more, shadowed, alive, conn, sendVars>>

\* createSocket() throws: the next address is tried by another task.
AttemptFails ==
  /\ TaskRuns("attempt") /\ resolved > 0
  /\ resolved' = resolved - 1 /\ sock' = NoSock /\ tasks' = <<"attempt">>
  /\ UNCHANGED <<st, open, reg, cb, more, shadowed, alive, conn, sendVars>>

\* connect() is in progress on the first free descriptor; the PollService reports.
AttemptConnects ==
  /\ TaskRuns("attempt") /\ resolved > 0 /\ open # Socks /\ PollLockFree(Nobody)
  /\ resolved' = resolved - 1
  /\ sock' = (CHOOSE s \in Socks \ open : TRUE) /\ open' = open \cup {sock'}
  /\ reg' = [reg EXCEPT ![sock'] = [kind |-> "attempt", dir |-> "Out"]]
  /\ tasks' = <<>>
  /\ UNCHANGED <<st, cb, more, shadowed, alive, conn, sendVars>>

-----------------------------------------------------------------------------
(* send(), outgoing(), trySendQueue(), trySendMessage()                    *)

Go(t, pc) == th' = [th EXCEPT ![t].pc = pc]

\* The poll thread sends from the callbacks of upper layers.
MaySend(t) ==
  th[t].pc = "idle" /\ alive /\ (t = Poll => cb \in {"connected", "in", "timeout"})

\* Does trySendQueue() run without mSendMutex on the poll thread: process(Out).
Unlocked(t) == t = Poll /\ cb = "out"

InSendQueue(t) == th[t].pc \in {"flush", "queued"}

\* send(): the thread waits for mSendMutex.
SendCall(t) ==
  /\ MaySend(t) /\ Go(t, "lock")
  /\ UNCHANGED <<st, sock, open, reg, cb, more, shadowed, netVars, queue, amount, mutex, total, wire, raced>>

SendThrows(t) ==   \* "Connection is not open"
  /\ th[t].pc = "lock" /\ mutex = Nobody /\ st # "Connected" /\ Go(t, "idle")
  /\ UNCHANGED <<st, sock, open, reg, cb, more, shadowed, netVars, queue, amount, mutex, total, wire, raced>>

\* An empty message (k = 0) flushes the queue only.
SendLocks(t, k) ==
  /\ th[t].pc = "lock" /\ mutex = Nobody /\ st = "Connected" /\ total + k <= MaxBytes
  /\ total' = total + k /\ mutex' = t
  /\ th' = [th EXCEPT ![t] = [pc |-> "flush", cur |-> NoMsg, size |-> 0,
       own |-> IF k = 0 THEN NoMsg ELSE [lo |-> total + 1, hi |-> total + k]]]
  /\ UNCHANGED <<st, sock, open, reg, cb, more, shadowed, netVars, queue, amount, wire, raced>>

\* trySendQueue() returns true: the thread goes on with its own message.
FlushDone(t) ==
  /\ th[t].pc = "flush" /\ queue = <<>>
  /\ th' = [th EXCEPT ![t].pc = IF th[t].own = NoMsg THEN "return" ELSE "direct",
                      ![t].cur = th[t].own]
  /\ UNCHANGED <<st, sock, open, reg, cb, more, shadowed, netVars, queue, amount, mutex, total, wire, raced>>

\* mSendQueue.peek()
FlushPeek(t) ==
  /\ th[t].pc = "flush" /\ queue # <<>>
  /\ th' = [th EXCEPT ![t].pc = "queued", ![t].cur = Head(queue), ![t].size = Size(Head(queue))]
  /\ raced' = (raced \/ \E u \in Threads \ {t} : InSendQueue(u))
  /\ UNCHANGED <<st, sock, open, reg, cb, more, shadowed, netVars, queue, amount, mutex, total, wire>>

\* ::send() takes n bytes of the message.  Without a race there are never more
\* than MaxBytes; with one, this is where the model stops.
Write(t, n) ==
  LET m == th[t].cur IN
  /\ th[t].pc \in {"queued", "direct"} /\ n \in 1..Size(m) /\ conn \in {"up", "half"}
  /\ Len(wire) + n <= MaxBytes
  /\ wire' = wire \o [i \in 1..n |-> m.lo + i - 1]
  /\ th' = [th EXCEPT ![t].cur = IF n = Size(m) THEN NoMsg ELSE [m EXCEPT !.lo = m.lo + n]]
  /\ UNCHANGED <<st, sock, open, reg, cb, more, shadowed, netVars, queue, amount, mutex, total, raced>>

Minus(a, b) == IF a > b THEN a - b ELSE 0   \* std::max(..., 0)

\* The message is out: pop() and updateBufferedAmount(), then the next one.
Pop(t) ==
  /\ th[t].pc = "queued" /\ th[t].cur = NoMsg
  /\ queue' = IF queue = <<>> THEN queue ELSE Tail(queue)
  /\ amount' = Minus(amount, th[t].size)
  /\ Go(t, "flush")
  /\ UNCHANGED <<st, sock, open, reg, cb, more, shadowed, netVars, mutex, total, wire, raced>>

\* Mutant: outgoing() tries its own message though the queue is not empty.
Exchange_ThenDirect(t) ==
  /\ th[t].pc = "queued" /\ th[t].cur # NoMsg /\ conn # "dead"
  /\ queue' = IF queue = <<>> THEN queue ELSE <<th[t].cur>> \o Tail(queue)
  /\ amount' = Minus(amount + Size(th[t].cur), th[t].size)
  /\ th' = [th EXCEPT ![t].pc = IF th[t].own = NoMsg THEN "again" ELSE "direct", ![t].cur = th[t].own]
  /\ UNCHANGED <<st, sock, open, reg, cb, more, shadowed, netVars, mutex, total, wire, raced>>

\* The socket is full: exchange() puts the rest back, trySendQueue() returns
\* false and outgoing() queues its own message behind it.
Exchange(t) ==
  /\ th[t].pc = "queued" /\ th[t].cur # NoMsg /\ conn # "dead"
  /\ queue' = IF queue = <<>> THEN queue ELSE <<th[t].cur>> \o Tail(queue)
  /\ amount' = Minus(amount + Size(th[t].cur), th[t].size)
  /\ th' = [th EXCEPT ![t].pc = IF th[t].own = NoMsg THEN "again" ELSE "push", ![t].cur = th[t].own]
  /\ UNCHANGED <<st, sock, open, reg, cb, more, shadowed, netVars, mutex, total, wire, raced>>

\* The socket is full, or was: what is left of the message is queued.
Push(t) ==
  /\ th[t].pc = "push" \/ (th[t].pc = "direct" /\ th[t].cur # NoMsg /\ conn # "dead")
  /\ queue' = Append(queue, th[t].cur) /\ amount' = amount + Size(th[t].cur)
  /\ Go(t, "setPoll")
  /\ UNCHANGED <<st, sock, open, reg, cb, more, shadowed, netVars, mutex, total, wire, raced>>

\* Mutant: the socket stays registered for input.
SendSetPoll_None(t) ==
  /\ th[t].pc = "setPoll" /\ PollLockFree(t)
  /\ Go(t, "return")
  /\ UNCHANGED <<st, sock, open, reg, cb, more, shadowed, netVars, queue, amount, mutex, total, wire, raced>>

\* setPoll(Both) waits for the mutex of the PollService.
SendSetPoll(t) ==
  /\ th[t].pc = "setPoll" /\ PollLockFree(t)
  /\ SetPoll("Both") /\ shadowed' = FALSE
  /\ Go(t, "return")
  /\ UNCHANGED <<st, sock, open, cb, more, netVars, queue, amount, mutex, total, wire, raced>>

\* send() returns: the message is out or queued, or ::send() failed and it throws.
SendReturns(t) ==
  /\ mutex = t
  /\ \/ th[t].pc \in {"return", "again"}
     \/ th[t].pc = "direct" /\ th[t].cur = NoMsg
     \/ th[t].pc \in {"queued", "direct"} /\ th[t].cur # NoMsg /\ conn = "dead"
  /\ mutex' = Nobody /\ th' = [th EXCEPT ![t] = Idle]
  /\ UNCHANGED <<st, sock, open, reg, cb, more, shadowed, netVars, queue, amount, total, wire, raced>>

-----------------------------------------------------------------------------
(* The callbacks of the PollService                                        *)

\* The lambda of attempt(): failure, or the timeout of 10 s.
AttemptEnds ==
  /\ cb = "none" /\ sock # NoSock /\ reg[sock].kind = "attempt"
  /\ reg' = Removed /\ tasks' = Append(tasks, "attempt")
  /\ UNCHANGED <<st, sock, open, cb, more, shadowed, resolved, alive, conn, sendVars>>

\* Success: changeState(Connected) calls the upper layers ...
Connects ==
  /\ cb = "none" /\ sock # NoSock /\ reg[sock].kind = "attempt"
  /\ st' = "Connected" /\ conn' = "up" /\ cb' = "connected"
  /\ UNCHANGED <<sock, open, reg, more, shadowed, resolved, tasks, alive, sendVars>>

\* ... and setPoll(In) follows, whatever they have sent.
ConnectedReturns ==
  /\ cb = "connected" /\ th[Poll].pc = "idle"
  /\ SetPoll("In") /\ shadowed' = (shadowed \/ queue # <<>>)
  /\ cb' = "none"
  /\ UNCHANGED <<st, sock, open, more, netVars, sendVars>>

Polled(dirs) == cb = "none" /\ sock # NoSock /\ reg[sock].kind = "process" /\ reg[sock].dir \in dirs

\* process(In), and process(Out) afterwards if poll() reported both.  Nothing
\* happens if the transport is being destroyed: weak_from_this() has no owner.
PollIn(both) ==
  /\ Polled({"In", "Both"}) /\ (both => reg[sock].dir = "Both")
  /\ alive /\ cb' = "in" /\ more' = both
  /\ UNCHANGED <<st, sock, open, reg, shadowed, netVars, sendVars>>

PollTimeout ==   \* the read timeout: only In has one
  /\ Polled({"In"})
  /\ alive /\ cb' = "timeout" /\ reg' = Removed
  /\ UNCHANGED <<st, sock, open, more, shadowed, netVars, sendVars>>

PollOut ==
  /\ Polled({"Both"}) /\ conn = "up"   \* else In is reported as well
  /\ alive /\ cb' = "out" /\ Go(Poll, "flush")
  /\ UNCHANGED <<st, sock, open, reg, more, shadowed, netVars, queue, amount, mutex, total, wire, raced>>

\* The socket fails: the registration ends, and process(Error) disconnects.
PollError ==
  /\ Polled({"In", "Both"}) /\ conn = "dead"
  /\ alive /\ reg' = Removed /\ cb' = "disconnect"
  /\ UNCHANGED <<st, sock, open, more, shadowed, netVars, sendVars>>

\* The upper layers have had the message of length zero.
TimeoutReturns ==
  /\ cb = "timeout" /\ th[Poll].pc = "idle"
  /\ SetPoll("In") /\ shadowed' = (shadowed \/ queue # <<>>)
  /\ cb' = "end"
  /\ UNCHANGED <<st, sock, open, more, netVars, sendVars>>

\* ::recv() has no more, or says that the connection is closed or lost.
InReturns ==
  /\ cb = "in" /\ th[Poll].pc = "idle"
  /\ cb' = IF conn = "up" THEN "end" ELSE "disconnect"
  /\ UNCHANGED <<st, sock, open, reg, more, shadowed, netVars, sendVars>>

\* trySendQueue() of process(Out) is over: only an empty queue ends the watch.
OutReturns ==
  /\ cb = "out" /\ th[Poll].pc \in {"return", "again"}
  /\ IF th[Poll].pc = "return" THEN SetPoll("In") ELSE UNCHANGED reg
  /\ th' = [th EXCEPT ![Poll] = Idle] /\ cb' = "end"
  /\ UNCHANGED <<st, sock, open, more, shadowed, netVars, queue, amount, mutex, total, wire, raced>>

OutFails ==
  /\ cb = "out" /\ th[Poll].pc = "queued" /\ th[Poll].cur # NoMsg /\ conn = "dead"
  /\ th' = [th EXCEPT ![Poll] = Idle] /\ cb' = "disconnect"
  /\ UNCHANGED <<st, sock, open, reg, more, shadowed, netVars, queue, amount, mutex, total, wire, raced>>

\* Mutant: process() does not remove the socket.
Disconnect_NoRemove ==
  /\ cb = "disconnect"
  /\ st' = "Disconnected" /\ cb' = "end"
  /\ UNCHANGED <<sock, open, reg, more, shadowed, netVars, sendVars>>

\* The end of process(): remove(), changeState(Disconnected), recv(nullptr).
Disconnect ==
  /\ cb = "disconnect"
  /\ reg' = Removed /\ st' = "Disconnected" /\ cb' = "end"
  /\ UNCHANGED <<sock, open, more, shadowed, netVars, sendVars>>

\* The callback returns to the PollService: Out follows In.
CallbackEnds ==
  /\ cb = "end" /\ (alive \/ sock = NoSock)
  /\ more' = FALSE
  /\ IF more /\ alive THEN cb' = "out" /\ Go(Poll, "flush") ELSE cb' = "none" /\ UNCHANGED th
  /\ UNCHANGED <<st, sock, open, reg, shadowed, netVars, queue, amount, mutex, total, wire, raced>>

-----------------------------------------------------------------------------
(* The destructor                                                          *)

\* The last owner but process() itself lets go.
Release ==
  /\ alive /\ \A t \in Senders : th[t].pc = "idle"
  /\ th[Poll].pc # "idle" => Unlocked(Poll)
  /\ alive' = FALSE
  /\ UNCHANGED <<st, sock, open, reg, cb, more, shadowed, resolved, tasks, conn, sendVars>>

\* Mutant: the socket is closed without remove().
Close_StaysRegistered ==
  /\ ~alive /\ mutex = Nobody /\ cb \in {"none", "end"}
  /\ sock # NoSock \/ st # "Disconnected"
  /\ open' = open \ {sock} /\ sock' = NoSock /\ st' = "Disconnected"
  /\ UNCHANGED <<reg, cb, more, shadowed, netVars, sendVars>>

\* ~TcpTransport: close(), on the releasing thread, which waits for the callback,
\* or at the end of process() on the poll thread.
Close ==
  /\ ~alive /\ mutex = Nobody /\ cb \in {"none", "end"}
  /\ sock # NoSock \/ st # "Disconnected"
  /\ reg' = Removed /\ open' = open \ {sock} /\ sock' = NoSock /\ st' = "Disconnected"
  /\ UNCHANGED <<cb, more, shadowed, netVars, sendVars>>

-----------------------------------------------------------------------------
(* The peer and the network                                                *)

Breaks(c) ==
  /\ conn \in {"up", "half"} /\ c # conn /\ conn' = c
  /\ UNCHANGED <<st, sock, open, reg, cb, more, shadowed, resolved, tasks, alive, sendVars>>

-----------------------------------------------------------------------------
Init ==
  /\ st = "Disconnected" /\ sock = NoSock /\ open = {} /\ resolved = 0 /\ tasks = <<>>
  /\ reg = [s \in Socks |-> NoReg] /\ queue = <<>> /\ amount = 0 /\ mutex = Nobody
  /\ th = [t \in Threads |-> Idle] /\ cb = "none" /\ more = FALSE /\ alive = TRUE
  /\ conn = "none" /\ total = 0 /\ wire = <<>> /\ raced = FALSE /\ shadowed = FALSE

Task == TaskDropped \/ Resolve \/ AttemptNone \/ AttemptFails \/ AttemptConnects

\* What a thread does once it is in send() or trySendQueue().
Send(t) ==
  \/ FlushDone(t) \/ FlushPeek(t) \/ Pop(t) \/ Exchange(t) \/ Push(t)
  \/ SendSetPoll(t) \/ SendReturns(t) \/ SendThrows(t)
  \/ (\E n \in Bytes : Write(t, n)) \/ \E k \in 0..MaxBytes : SendLocks(t, k)

Callback ==
  \/ ConnectedReturns \/ TimeoutReturns \/ InReturns \/ OutReturns \/ OutFails
  \/ Disconnect \/ CallbackEnds

Event == AttemptEnds \/ Connects \/ PollTimeout \/ PollOut \/ PollError \/ \E b \in BOOLEAN : PollIn(b)

Next ==
  \/ Start \/ Task \/ Callback \/ Event \/ Release \/ Close
  \/ \E t \in Threads : Send(t) \/ SendCall(t)
  \/ \E c \in {"half", "dead"} : Breaks(c)

Spec == Init /\ [][Next]_vars

\* The pool runs its tasks, an attempt is reported within its timeout, a closed
\* connection is readable, and callbacks return: an upper layer sends now and then,
\* but not for ever in one callback.
FairSpec ==
  /\ Spec /\ WF_vars(Task) /\ WF_vars(AttemptEnds \/ Connects) /\ SF_vars(Callback)
  /\ \A t \in Threads : WF_vars(Send(t))
  /\ WF_vars(Close) /\ WF_vars(conn # "up" /\ PollIn(FALSE))

-----------------------------------------------------------------------------
(* Properties                                                              *)

\* The messages of q are the bytes after a and up to b, in order.
Holds(q, a, b) ==
  /\ \A i \in DOMAIN q : q[i].lo <= q[i].hi /\ q[i].lo = 1 + (IF i = 1 THEN a ELSE q[i - 1].hi)
  /\ b = IF q = <<>> THEN a ELSE q[Len(q)].hi

\* Bytes reach the socket in the order of the calls of send(), each once and none
\* left out; between calls, and on a connection that lives, the queue holds all
\* that was given to send() and is not yet on the wire, and mBufferedAmount is the
\* size of it: unless process() has run trySendQueue() while a send() was in it
\* (raced), which is what WireOnce is about.
WireInOrder ==
  ~raced =>
    /\ wire = [i \in 1..Len(wire) |-> i]
    /\ (conn # "dead" /\ \A t \in Threads : th[t].pc \in {"idle", "lock"}) =>
         Holds(queue, Len(wire), total) /\ amount = total - Len(wire)

\* Bytes reach the socket in the order of the calls of send(), each once, with no
\* exception: "mSendMutex must be locked" in trySendQueue(), and "requires mSendMutex
\* to be locked" in updateBufferedAmount().  It does not hold: process() calls
\* trySendQueue() without the mutex, beside a send() that has it.
WireOnce == wire = [i \in 1..Len(wire) |-> i]

\* A connected transport with bytes in its queue is registered for output, whoever
\* queued them and whoever was in trySendQueue() at the time: unless setPoll(In) of a
\* connect or a timeout has ended the watch of a send() meanwhile (shadowed), which
\* is what BufferedIsWatched is about.
QueueIsWatched ==
  (st = "Connected" /\ queue # <<>> /\ ~shadowed /\ cb = "none"
     /\ \A t \in Threads : th[t].pc # "setPoll") =>
     reg[sock].dir = "Both"

\* What is "buffered to send" is going to be sent: a connected transport with bytes
\* in its queue is registered for output as soon as no callback and no send() is
\* under way.  It does not hold: after the callbacks of Connected and of a timeout,
\* setPoll(In) replaces the Both of a send() meanwhile that found the socket full.
BufferedIsWatched ==
  (st = "Connected" /\ queue # <<>> /\ cb = "none" /\ \A t \in Threads : th[t].pc = "idle") =>
     reg[sock].dir = "Both"

\* The PollService never has a socket that is closed, or that is not the current
\* one; there is one attempt at a time, as a task or as a registration; and a
\* transport that was destroyed has no registration that could call it.
RegisteredIsCurrent ==
  /\ \A s \in Socks : reg[s] # NoReg => s \in open /\ s = sock
  /\ Len(tasks) <= 1
  /\ (tasks # <<>> /\ alive) => (st = "Connecting" /\ \A s \in Socks : reg[s] = NoReg)

\* connect() comes to an end: connected, failed or released.
ConnectEnds == st = "Connecting" ~> st # "Connecting"

\* The poll thread waits for mSendMutex in a callback, and the thread that has it
\* waits in setPoll() for the callback to end.
LockCycle == th[Poll].pc = "lock" /\ mutex # Nobody /\ th[mutex].pc = "setPoll"

\* send() "returns false if buffered", and so it returns: the thread that has the
\* mutex is not waited for by the one it waits for.  It does not hold: a ping or a
\* pong of the poll thread meets a send() that found the socket full.
NoLockCycle == ~LockCycle

\* A disconnected transport does not stay registered, though process(Out) after
\* process(In), or a send() that was under way, may register it once more; unless
\* the poll thread is stuck, for which see NoLockCycle.
DisconnectedIsRemoved ==
  st = "Disconnected" ~> (LockCycle \/ \A s \in Socks : reg[s] = NoReg)

=============================================================================
