-------------------------- MODULE TcpTransportProofs --------------------------
(***************************************************************************)
(* Proofs about TcpTransport, for any threads, descriptors, addresses and  *)
(* bytes.                                                                  *)
(***************************************************************************)
EXTENDS TcpTransport, SequenceTheorems, TLAPS

Messages == [lo : Nat, hi : Int]
Regs     == [kind : {"none", "attempt", "process"}, dir : {"none", "In", "Out", "Both"}]
Busy     == {"flush", "queued", "direct", "push", "again", "setPoll", "return"}
Places   == [pc : {"idle", "lock"} \cup Busy, own : Messages, cur : Messages, size : Int]

TypeOK ==
  /\ st \in {"Disconnected", "Connecting", "Connected", "Failed"}
  /\ sock \in Socks \cup {NoSock} /\ open \in SUBSET Socks /\ resolved \in Nat
  /\ tasks \in Seq({"resolve", "attempt"}) /\ reg \in [Socks -> Regs]
  /\ queue \in Seq(Messages) /\ amount \in Int /\ mutex \in Threads \cup {Nobody}
  /\ th \in [Threads -> Places]
  /\ cb \in {"none", "connected", "in", "timeout", "out", "disconnect", "end"}
  /\ conn \in {"none", "up", "half", "dead"} /\ total \in Nat /\ wire \in Seq(Int)

FlagsOK == more \in BOOLEAN /\ alive \in BOOLEAN /\ raced \in BOOLEAN /\ shadowed \in BOOLEAN

-----------------------------------------------------------------------------
(* Type correctness                                                        *)

LEMMA SizeType ==
  /\ \A m \in Messages : Size(m) \in Int
  /\ NoMsg \in Messages /\ Idle \in Places /\ NoReg \in Regs
BY DEF Messages, Size, NoMsg, Idle, Places, NoReg, Regs

LEMMA RegTypes ==
  ASSUME TypeOK
  PROVE  /\ Removed \in [Socks -> Regs]
         /\ \A d \in {"In", "Out", "Both"} : SetPoll(d) => reg' \in [Socks -> Regs]
<1>1. \A d \in {"In", "Out", "Both"} : [kind |-> "process", dir |-> d] \in Regs
  BY DEF Regs
<1>2. reg \in [Socks -> Regs]
  BY DEF TypeOK
<1> QED
  BY <1>1, <1>2, SizeType DEF Removed, SetPoll

\* What a step of a thread leaves in its record.
LEMMA GoType ==
  ASSUME TypeOK, NEW t \in Threads, NEW pc \in {"idle", "lock"} \cup Busy, Go(t, pc)
  PROVE  /\ th' \in [Threads -> Places]
         /\ th'[t].pc = pc /\ th'[t].own = th[t].own /\ th'[t].cur = th[t].cur /\ th'[t].size = th[t].size
         /\ \A u \in Threads : u # t => th'[u] = th[u]
BY DEF TypeOK, Go, Places

LEMMA PollIsThread == Poll \in Threads
BY DEF Threads

LEMMA InitType ==
  ASSUME Init
  PROVE  TypeOK
<1>1. reg \in [Socks -> Regs] /\ th \in [Threads -> Places]
  BY SizeType DEF Init
<1> QED
  BY <1>1 DEF Init, TypeOK

LEMMA SendType ==
  ASSUME TypeOK, NEW t \in Threads, Send(t) \/ SendCall(t)
  PROVE  TypeOK'
<1>0. /\ th[t] \in Places /\ th[t].cur \in Messages /\ th[t].own \in Messages /\ th[t].size \in Int
      /\ queue # <<>> => Head(queue) \in Messages /\ Tail(queue) \in Seq(Messages)
  BY DEF TypeOK, Places
<1>1. CASE SendCall(t)
  <2>1. th' \in [Threads -> Places]
    BY <1>1, GoType DEF SendCall
  <2> QED
    BY <1>1, <2>1 DEF SendCall, TypeOK, netVars
<1>2. CASE SendThrows(t)
  <2>1. th' \in [Threads -> Places]
    BY <1>2, GoType DEF SendThrows
  <2> QED
    BY <1>2, <2>1 DEF SendThrows, TypeOK, netVars
<1>3. CASE \E k \in 0..MaxBytes : SendLocks(t, k)
  <2> PICK k \in 0..MaxBytes : SendLocks(t, k)
    BY <1>3
  <2>1. total + k \in Nat /\ (k # 0 => [lo |-> total + 1, hi |-> total + k] \in Messages)
    BY TcpAssumption DEF TypeOK, Messages
  <2>2. th' \in [Threads -> Places]
    BY <2>1, SizeType DEF SendLocks, TypeOK, Places, Busy
  <2> QED
    BY <2>1, <2>2 DEF SendLocks, TypeOK, netVars
<1>4. CASE FlushDone(t)
  <2>1. th' \in [Threads -> Places]
    BY <1>0, <1>4 DEF FlushDone, TypeOK, Places, Busy
  <2> QED
    BY <1>4, <2>1 DEF FlushDone, TypeOK, netVars
<1>5. CASE FlushPeek(t)
  <2>1. th' \in [Threads -> Places]
    BY <1>0, <1>5, SizeType DEF FlushPeek, TypeOK, Places, Busy
  <2> QED
    BY <1>5, <2>1 DEF FlushPeek, TypeOK, netVars
<1>6. CASE Pop(t)
  <2>1. th' \in [Threads -> Places]
    BY <1>6, GoType DEF Pop, Busy
  <2>2. amount' \in Int
    BY <1>0, <1>6 DEF Pop, Minus, TypeOK
  <2> QED
    BY <1>0, <1>6, <2>1, <2>2 DEF Pop, TypeOK, netVars
<1>7. CASE Exchange(t)
  <2>1. th' \in [Threads -> Places]
    BY <1>0, <1>7 DEF Exchange, TypeOK, Places, Busy
  <2>2. amount' \in Int
    BY <1>0, <1>7, SizeType DEF Exchange, Minus, TypeOK
  <2>3. queue' \in Seq(Messages)
    BY <1>0, <1>7 DEF Exchange, TypeOK
  <2> QED
    BY <1>7, <2>1, <2>2, <2>3 DEF Exchange, TypeOK, netVars
<1>8. CASE Push(t)
  <2>1. th' \in [Threads -> Places]
    BY <1>8, GoType DEF Push, Busy
  <2>2. queue' \in Seq(Messages) /\ amount' \in Int
    BY <1>0, <1>8, SizeType DEF Push, TypeOK
  <2> QED
    BY <1>8, <2>1, <2>2 DEF Push, TypeOK, netVars
<1>9. CASE SendSetPoll(t)
  <2>1. th' \in [Threads -> Places]
    BY <1>9, GoType DEF SendSetPoll, Busy
  <2> QED
    BY <1>9, <2>1, RegTypes DEF SendSetPoll, TypeOK, netVars
<1>10. CASE SendReturns(t)
  BY <1>10, SizeType DEF SendReturns, TypeOK, netVars
<1>11. CASE \E n \in Bytes : Write(t, n)
  <2> PICK n \in Bytes : Write(t, n)
    BY <1>11
  <2> DEFINE m == th[t].cur
  <2>0. n \in Nat /\ m.lo \in Nat /\ m.hi \in Int
    BY <1>0, TcpAssumption DEF Bytes, Messages
  <2>1. th' \in [Threads -> Places]
    <3>1. (IF n = Size(m) THEN NoMsg ELSE [m EXCEPT !.lo = m.lo + n]) \in Messages
      <4>1. m.lo + n \in Nat
        BY <2>0
      <4>2. [m EXCEPT !.lo = m.lo + n] \in Messages
        BY <1>0, <4>1 DEF Messages
      <4> QED
        BY <4>2, SizeType
    <3>2. th' = [th EXCEPT ![t].cur = IF n = Size(m) THEN NoMsg ELSE [m EXCEPT !.lo = m.lo + n]]
      BY DEF Write
    <3>3. th \in [Threads -> Places]
      BY DEF TypeOK
    <3> QED
      BY <3>1, <3>2, <3>3 DEF Places
  <2>2. wire' \in Seq(Int)
    <3>1. [i \in 1..n |-> m.lo + i - 1] \in Seq(Int)
      BY <2>0
    <3> QED
      BY <3>1 DEF Write, TypeOK
  <2> QED
    BY <2>1, <2>2 DEF Write, TypeOK, netVars
<1> QED
  BY <1>1, <1>2, <1>3, <1>4, <1>5, <1>6, <1>7, <1>8, <1>9, <1>10, <1>11 DEF Send

LEMMA NetType ==
  ASSUME TypeOK, Start \/ Task \/ Release \/ Close \/ \E c \in {"half", "dead"} : Breaks(c)
  PROVE  TypeOK'
<1>1. CASE Start
  BY <1>1 DEF Start, TypeOK, sendVars
<1>2. CASE TaskDropped
  BY <1>2 DEF TaskDropped, TypeOK, sendVars
<1> DEFINE T == Seq({"resolve", "attempt"})
<1>0. <<>> \in T /\ <<"attempt">> \in T
  OBVIOUS
<1> HIDE DEF T
<1>3. CASE Resolve
  <2>1. resolved' \in Nat
    BY <1>3, TcpAssumption DEF Resolve
  <2>2. tasks' \in T
    BY <1>0, <1>3 DEF Resolve
  <2> QED
    BY <1>3, <2>1, <2>2 DEF Resolve, TypeOK, sendVars, T
<1>4. CASE AttemptNone \/ AttemptFails
  <2>1. resolved' \in Nat
    BY <1>4 DEF AttemptNone, AttemptFails, TypeOK
  <2>2. tasks' \in T
    BY <1>0, <1>4 DEF AttemptNone, AttemptFails
  <2> QED
    BY <1>4, <2>1, <2>2 DEF AttemptNone, AttemptFails, TypeOK, sendVars, T
<1>5. CASE AttemptConnects
  <2>1. sock' \in Socks
    BY <1>5 DEF AttemptConnects, TypeOK
  <2>2. [kind |-> "attempt", dir |-> "Out"] \in Regs
    BY DEF Regs
  <2>3. reg' \in [Socks -> Regs]
    BY <1>5, <2>1, <2>2 DEF AttemptConnects, TypeOK
  <2>4. resolved' = resolved - 1 /\ resolved > 0 /\ open' = open \cup {sock'}
    BY <1>5 DEF AttemptConnects
  <2>6. resolved' \in Nat /\ open' \in SUBSET Socks
    BY <2>1, <2>4 DEF TypeOK
  <2>5. tasks' \in T
    BY <1>0, <1>5 DEF AttemptConnects
  <2> QED
    BY <1>5, <2>1, <2>3, <2>5, <2>6 DEF AttemptConnects, TypeOK, sendVars, T
<1>6. CASE Release
  BY <1>6 DEF Release, TypeOK, sendVars
<1>7. CASE Close
  BY <1>7, RegTypes DEF Close, TypeOK, sendVars, netVars
<1>8. CASE \E c \in {"half", "dead"} : Breaks(c)
  BY <1>8 DEF Breaks, TypeOK, sendVars
<1> QED
  BY <1>1, <1>2, <1>3, <1>4, <1>5, <1>6, <1>7, <1>8 DEF Task

LEMMA PollType ==
  ASSUME TypeOK, Callback \/ Event
  PROVE  TypeOK'
<1> USE DEF sendVars, netVars
<1>1. CASE ConnectedReturns \/ TimeoutReturns
  BY <1>1, RegTypes DEF ConnectedReturns, TimeoutReturns, TypeOK
<1>2. CASE InReturns \/ Disconnect
  BY <1>2, RegTypes DEF InReturns, Disconnect, TypeOK
<1>3. CASE OutReturns \/ OutFails
  <2>1. th' \in [Threads -> Places]
    BY <1>3, SizeType DEF OutReturns, OutFails, TypeOK
  <2> QED
    BY <1>3, <2>1, RegTypes DEF OutReturns, OutFails, TypeOK
<1>4. CASE CallbackEnds
  <2>1. th' \in [Threads -> Places]
    BY <1>4, GoType, PollIsThread DEF CallbackEnds, TypeOK, Busy
  <2> QED
    BY <1>4, <2>1 DEF CallbackEnds, TypeOK
<1>5. CASE AttemptEnds
  <2>1. tasks' \in Seq({"resolve", "attempt"})
    BY <1>5 DEF AttemptEnds, TypeOK
  <2> QED
    BY <1>5, <2>1, RegTypes DEF AttemptEnds, TypeOK
<1>6. CASE Connects
  BY <1>6 DEF Connects, TypeOK
<1>7. CASE PollOut
  <2>1. th' \in [Threads -> Places]
    BY <1>7, GoType, PollIsThread DEF PollOut, Busy
  <2> QED
    BY <1>7, <2>1 DEF PollOut, TypeOK
<1>8. CASE PollTimeout \/ PollError \/ \E b \in BOOLEAN : PollIn(b)
  BY <1>8, RegTypes DEF PollTimeout, PollError, PollIn, TypeOK
<1> QED
  BY <1>1, <1>2, <1>3, <1>4, <1>5, <1>6, <1>7, <1>8 DEF Callback, Event

LEMMA FlagsStep ==
  ASSUME FlagsOK, Next
  PROVE  FlagsOK'
<1>1. CASE Start \/ Task \/ Release \/ Close \/ \E c \in {"half", "dead"} : Breaks(c)
  BY <1>1 DEF FlagsOK, Start, Task, TaskDropped, Resolve, AttemptNone, AttemptFails, AttemptConnects,
     Release, Close, Breaks, netVars, sendVars
<1>2. CASE Callback \/ Event
  BY <1>2 DEF FlagsOK, Callback, ConnectedReturns, TimeoutReturns, InReturns, OutReturns, OutFails,
     Disconnect, CallbackEnds, Event, AttemptEnds, Connects, PollTimeout, PollOut, PollError, PollIn,
     netVars, sendVars
<1>3. CASE \E t \in Threads : Send(t) \/ SendCall(t)
  BY <1>3, ZenonT(40) DEF FlagsOK, Send, SendCall, SendThrows, SendLocks, FlushDone, FlushPeek, Pop, Exchange, Push,
     SendSetPoll, SendReturns, Write, netVars, sendVars
<1> QED
  BY <1>1, <1>2, <1>3 DEF Next

\* The variables of a TcpTransport keep their types.
THEOREM TypeCorrect == Spec => [](TypeOK /\ FlagsOK)
<1>1. Init => TypeOK /\ FlagsOK
  BY InitType DEF Init, FlagsOK
<1>3. FlagsOK /\ [Next]_vars => FlagsOK'
  BY FlagsStep DEF vars, netVars, sendVars, FlagsOK
<1>2. TypeOK /\ [Next]_vars => TypeOK'
  <2> SUFFICES ASSUME TypeOK, [Next]_vars PROVE TypeOK'
    OBVIOUS
  <2>1. CASE UNCHANGED vars
    BY <2>1 DEF vars, netVars, sendVars, TypeOK
  <2> QED
    BY <2>1, SendType, NetType, PollType DEF Next
<1> QED
  BY <1>1, <1>2, <1>3, PTL DEF Spec

-----------------------------------------------------------------------------
(* The threads                                                             *)

Quiet == \A t \in Threads : th[t].pc \in {"idle", "lock"}

\* The poll thread sends and flushes in a callback only, and process(Out) has no
\* message of its own; a transport that nobody owns is in process(Out) at most.
PollCalls ==
  /\ th[Poll].pc # "idle" => cb \in {"connected", "in", "timeout", "out"}
  /\ cb = "out" => th[Poll].pc \in {"idle", "flush", "queued", "return", "again"} /\ th[Poll].own = NoMsg
  /\ \A t \in Threads : th[t].pc \in {"idle", "lock"} => th[t].own = NoMsg
  /\ ~alive => (\A t \in Senders : th[t].pc = "idle") /\ (th[Poll].pc # "idle" => cb = "out")

\* Who is in send() has mSendMutex.
Locking == \A t \in Threads : mutex = t <=> th[t].pc \in Busy /\ ~Unlocked(t)

\* A step of a thread, in which it goes where it may go.
LEMMA SendMoves ==
  ASSUME TypeOK, NEW t \in Threads, Send(t) \/ SendCall(t)
  PROVE  /\ UNCHANGED <<st, sock, open, cb, more, netVars>>
         /\ \A u \in Threads : u # t => th'[u] = th[u]
         /\ \/ /\ th[t].pc = "idle" /\ alive /\ (t = Poll => cb \in {"connected", "in", "timeout"})
               /\ th'[t].pc = "lock" /\ th'[t].own = th[t].own /\ mutex' = mutex
            \/ th[t].pc = "lock" /\ th'[t].pc = "idle" /\ th'[t].own = th[t].own /\ mutex' = mutex
            \/ /\ th[t].pc = "lock" /\ th'[t].pc = "flush" /\ mutex = Nobody /\ mutex' = t
               /\ st = "Connected"
            \/ /\ th[t].pc \in Busy /\ th'[t].pc \in Busy /\ th'[t].own = th[t].own /\ mutex' = mutex
               /\ (th[t].pc = "flush" /\ th[t].own = NoMsg) => th'[t].pc \in {"queued", "return"}
               /\ (th[t].pc = "queued" /\ th[t].own = NoMsg) => th'[t].pc \in {"queued", "flush", "again"}
               /\ th[t].pc = "return" => th'[t].pc = "return"
               /\ th[t].pc = "again" => th'[t].pc = "again"
            \/ th[t].pc \in Busy /\ th'[t] = Idle /\ mutex = t /\ mutex' = Nobody
<1>0. th[t] \in Places /\ th \in [Threads -> Places]
  BY DEF TypeOK
<1> USE DEF netVars
<1>1. CASE SendCall(t)
  BY <1>1, GoType DEF SendCall, MaySend
<1>2. CASE SendThrows(t)
  BY <1>2, GoType DEF SendThrows
<1>3. CASE \E k \in 0..MaxBytes : SendLocks(t, k)
  BY <1>0, <1>3 DEF SendLocks
<1>4. CASE FlushDone(t)
  BY <1>0, <1>4 DEF FlushDone, Busy, Places
<1>5. CASE FlushPeek(t)
  BY <1>0, <1>5 DEF FlushPeek, Busy, Places
<1>6. CASE Pop(t)
  BY <1>6, GoType DEF Pop, Busy
<1>7. CASE Exchange(t)
  BY <1>0, <1>7 DEF Exchange, Busy, Places
<1>8. CASE Push(t)
  BY <1>8, GoType DEF Push, Busy
<1>9. CASE SendSetPoll(t)
  BY <1>9, GoType DEF SendSetPoll, Busy
<1>10. CASE SendReturns(t)
  BY <1>0, <1>10 DEF SendReturns, Busy
<1>11. CASE \E n \in Bytes : Write(t, n)
  BY <1>0, <1>11 DEF Write, Busy, Places
<1> QED
  BY <1>1, <1>2, <1>3, <1>4, <1>5, <1>6, <1>7, <1>8, <1>9, <1>10, <1>11 DEF Send

\* A callback of the poll thread: it goes on, flushes, or is done with flushing.
LEMMA PollMoves ==
  ASSUME TypeOK, PollCalls, Callback \/ Event
  PROVE  /\ UNCHANGED <<alive, mutex, sock, open>>
         /\ \A u \in Threads : u # Poll => th'[u] = th[u]
         /\ \/ th' = th /\ th[Poll].pc = "idle" /\ cb # "out" /\ cb' # "out"
            \/ /\ cb # "out" /\ cb' = "out" /\ th[Poll].pc = "idle" /\ alive
               /\ th'[Poll].pc = "flush" /\ th'[Poll].own = th[Poll].own
            \/ cb = "out" /\ cb' \in {"end", "disconnect"} /\ th'[Poll] = Idle
<1>0. th[Poll] \in Places /\ th \in [Threads -> Places] /\ Poll \in Threads
  BY PollIsThread DEF TypeOK
<1> USE DEF netVars, sendVars
<1>1. CASE ConnectedReturns \/ TimeoutReturns \/ InReturns
  BY <1>1 DEF ConnectedReturns, TimeoutReturns, InReturns
<1>2. CASE Disconnect
  BY <1>2 DEF Disconnect, PollCalls
<1>3. CASE OutReturns \/ OutFails
  BY <1>0, <1>3 DEF OutReturns, OutFails
<1>4. CASE CallbackEnds
  BY <1>0, <1>4, GoType DEF CallbackEnds, PollCalls, Busy
<1>5. CASE AttemptEnds \/ Connects
  BY <1>5 DEF AttemptEnds, Connects, PollCalls
<1>6. CASE PollOut
  BY <1>0, <1>6, GoType DEF PollOut, Polled, PollCalls, Busy
<1>7. CASE PollTimeout \/ PollError \/ \E b \in BOOLEAN : PollIn(b)
  BY <1>7 DEF PollTimeout, PollError, PollIn, Polled, PollCalls
<1> QED
  BY <1>1, <1>2, <1>3, <1>4, <1>5, <1>6, <1>7 DEF Callback, Event

LEMMA NetMoves ==
  ASSUME Start \/ Task \/ Release \/ Close \/ \E c \in {"half", "dead"} : Breaks(c)
  PROVE  UNCHANGED <<cb, sendVars>> /\ (alive' = alive \/ Release)
BY DEF Start, Task, TaskDropped, Resolve, AttemptNone, AttemptFails, AttemptConnects,
   Release, Close, Breaks, netVars

LEMMA ThreadsStep ==
  ASSUME TypeOK, PollCalls, Locking, [Next]_vars
  PROVE  PollCalls' /\ Locking'
<1>0. /\ Poll \in Threads /\ \A t \in Senders : t \in Threads /\ t # Poll
      /\ \A t \in Threads : t # Poll => t \in Senders
      /\ Nobody \notin Threads
      /\ Idle.pc = "idle" /\ Idle.own = NoMsg
  BY TcpAssumption DEF Threads, Idle
<1>1. CASE \E t \in Threads : Send(t) \/ SendCall(t)
  <2> PICK t \in Threads : Send(t) \/ SendCall(t)
    BY <1>1
  <2>1. UNCHANGED <<cb, alive>> /\ \A u \in Threads : u # t => th'[u] = th[u]
    BY SendMoves DEF netVars
  <2>2. PollCalls'
    BY <1>0, <2>1, SendMoves DEF PollCalls, Locking, Unlocked, Busy
  <2>3. Locking'
    BY <1>0, <2>1, SendMoves DEF PollCalls, Locking, Unlocked, Busy
  <2> QED
    BY <2>2, <2>3
<1>2. CASE Callback \/ Event
  <2>1. PollCalls'
    BY <1>0, <1>2, PollMoves DEF PollCalls
  <2>2. Locking'
    BY <1>0, <1>2, PollMoves DEF PollCalls, Locking, Unlocked, Busy
  <2> QED
    BY <2>1, <2>2
<1>3. CASE Start \/ Task \/ Release \/ Close \/ \E c \in {"half", "dead"} : Breaks(c)
  <2>1. UNCHANGED <<cb, th, mutex>> /\ (alive' = alive \/ Release)
    BY <1>3, NetMoves DEF sendVars
  <2>2. PollCalls'
    BY <1>0, <2>1 DEF PollCalls, Release, Unlocked
  <2> QED
    BY <2>1, <2>2 DEF Locking, Unlocked
<1>4. CASE UNCHANGED vars
  BY <1>4 DEF vars, sendVars, netVars, PollCalls, Locking, Unlocked
<1> QED
  BY <1>1, <1>2, <1>3, <1>4 DEF Next

-----------------------------------------------------------------------------
(* RegisteredIsCurrent                                                     *)

\* The PollService has the lambda of attempt(), and does not run it.
Attempting == cb = "none" /\ sock # NoSock /\ reg[sock].kind = "attempt"

NoneRegistered == \A s \in Socks : reg[s] = NoReg

\* While an attempt is a task or a registration, nobody sends and no callback
\* runs: nothing can register the socket meanwhile.
OneAttempt ==
  /\ \A s \in Socks : reg[s] # NoReg => s = sock
  /\ sock # NoSock => sock \in open
  /\ Len(tasks) <= 1
  /\ tasks # <<>> => cb = "none" /\ Quiet /\ NoneRegistered /\ (alive => st = "Connecting")
  /\ Attempting => tasks = <<>> /\ Quiet /\ st = "Connecting"
  /\ (sock # NoSock /\ reg[sock].kind = "attempt") => cb \in {"none", "connected"}
  /\ (alive /\ sock = NoSock) => cb = "none" /\ Quiet /\ st # "Connected" /\ conn = "none"
  /\ sock = NoSock => cb \in {"none", "end"}
  /\ st = "Connecting" => conn = "none"

\* Nobody is in trySendQueue() without a socket.
LEMMA BusyHasSocket ==
  ASSUME PollCalls, OneAttempt, NEW t \in Threads, th[t].pc \in Busy
  PROVE  sock # NoSock /\ tasks = <<>> /\ ~Attempting
BY DEF PollCalls, OneAttempt, Quiet, Threads, Busy

LEMMA SendAttempt ==
  ASSUME TypeOK, PollCalls, OneAttempt, NEW t \in Threads, Send(t) \/ SendCall(t)
  PROVE  OneAttempt'
<1>0. UNCHANGED <<st, sock, open, cb, tasks, alive, conn>> /\ \A u \in Threads : u # t => th'[u] = th[u]
  BY SendMoves DEF netVars
<1>1. CASE SendSetPoll(t)
  <2>1. sock # NoSock /\ tasks = <<>> /\ ~Attempting
    BY <1>1, BusyHasSocket DEF SendSetPoll, Busy
  <2>2. /\ \A s \in Socks : s # sock => reg'[s] = reg[s]
        /\ reg'[sock].kind = "process"
    BY <1>1, <2>1 DEF SendSetPoll, SetPoll, TypeOK
  <2> QED
    BY <1>0, <2>1, <2>2 DEF OneAttempt, Attempting
<1>2. CASE ~SendSetPoll(t)
  <2>1. reg' = reg
    BY <1>2 DEF Send, SendCall, SendThrows, SendLocks, FlushDone, FlushPeek, Pop, Exchange, Push,
       SendReturns, Write
  <2>2. Quiet => Quiet' \/ (st = "Connected" /\ alive)
    BY <1>0, SendMoves DEF Quiet, Busy, PollCalls, Threads
  <2> QED
    BY <1>0, <2>1, <2>2 DEF OneAttempt, Attempting, NoneRegistered
<1> QED
  BY <1>1, <1>2

LEMMA PollAttempt ==
  ASSUME TypeOK, PollCalls, OneAttempt, Callback \/ Event
  PROVE  OneAttempt'
<1>0. /\ UNCHANGED <<alive, sock, open>>
      /\ cb # "out" /\ cb' # "out" => th' = th
      /\ sock # NoSock => sock \in Socks
      /\ NoReg.kind = "none"
      /\ \A s \in Socks : reg[s] # NoReg => s = sock
  BY PollMoves DEF PollCalls, TypeOK, NoReg, OneAttempt
<1> USE DEF netVars, sendVars
<1>r. ASSUME reg' = Removed, UNCHANGED sock PROVE NoneRegistered'
  BY <1>r, <1>0, TcpAssumption DEF Removed, NoneRegistered, TypeOK
<1>s. ASSUME NEW d, SetPoll(d), sock # NoSock
      PROVE  reg'[sock].kind = "process" /\ \A s \in Socks : s # sock => reg'[s] = reg[s]
  BY <1>s, <1>0 DEF SetPoll, TypeOK
<1>1. CASE ConnectedReturns
  BY <1>1, <1>0, <1>s DEF ConnectedReturns, OneAttempt, Attempting, NoneRegistered, Quiet
<1>2. CASE TimeoutReturns
  BY <1>2, <1>0, <1>s DEF TimeoutReturns, OneAttempt, Attempting, NoneRegistered, Quiet
<1>3. CASE InReturns
  BY <1>3, <1>0 DEF InReturns, OneAttempt, Attempting, NoneRegistered, Quiet
<1>4. CASE OutReturns
  BY <1>4, <1>0, <1>s DEF OutReturns, OneAttempt, Attempting, NoneRegistered, Quiet
<1>5. CASE OutFails
  BY <1>5, <1>0 DEF OutFails, OneAttempt, Attempting, NoneRegistered, Quiet
<1>6. CASE Disconnect
  BY <1>6, <1>0, <1>r DEF Disconnect, OneAttempt, Attempting, NoneRegistered, Quiet
<1>7. CASE CallbackEnds
  BY <1>7, <1>0 DEF CallbackEnds, OneAttempt, Attempting, NoneRegistered, Quiet
<1>8. CASE AttemptEnds
  BY <1>8, <1>0, <1>r DEF AttemptEnds, OneAttempt, Attempting, NoneRegistered, Quiet, TypeOK
<1>9. CASE Connects
  BY <1>9, <1>0 DEF Connects, OneAttempt, Attempting, NoneRegistered, Quiet
<1>10. CASE PollTimeout \/ PollError
  BY <1>10, <1>0, <1>r DEF PollTimeout, PollError, Polled, OneAttempt, Attempting, NoneRegistered, Quiet
<1>11. CASE PollOut
  BY <1>11, <1>0 DEF PollOut, Polled, OneAttempt, Attempting, NoneRegistered
<1>12. CASE \E b \in BOOLEAN : PollIn(b)
  BY <1>12, <1>0 DEF PollIn, Polled, OneAttempt, Attempting, NoneRegistered, Quiet
<1> QED
  BY <1>1, <1>2, <1>3, <1>4, <1>5, <1>6, <1>7, <1>8, <1>9, <1>10, <1>11, <1>12 DEF Callback, Event

LEMMA NetAttempt ==
  ASSUME TypeOK, PollCalls, OneAttempt,
         Start \/ Task \/ Release \/ Close \/ \E c \in {"half", "dead"} : Breaks(c)
  PROVE  OneAttempt'
<1>0. /\ UNCHANGED <<cb, th>> /\ (Quiet' <=> Quiet)
      /\ NoSock \notin Socks /\ (sock # NoSock => sock \in Socks)
      /\ NoReg.kind = "none"
      /\ tasks \in Seq({"resolve", "attempt"})
      /\ sock = NoSock => NoneRegistered
  BY NetMoves, TcpAssumption DEF sendVars, Quiet, TypeOK, NoReg, NoneRegistered, OneAttempt
<1>1. CASE Start
  BY <1>1, <1>0 DEF Start, OneAttempt, Attempting, NoneRegistered
<1>2. CASE TaskDropped
  <2>1. tasks' = <<>>
    BY <1>2, <1>0 DEF TaskDropped, OneAttempt
  <2> QED
    BY <1>2, <1>0, <2>1 DEF TaskDropped, OneAttempt, Attempting, NoneRegistered
<1>3. CASE Resolve \/ AttemptNone \/ AttemptFails
  BY <1>3, <1>0 DEF Resolve, AttemptNone, AttemptFails, TaskRuns, TaskStarts, OneAttempt, Attempting, NoneRegistered
<1>4. CASE AttemptConnects
  <2>1. /\ sock' \in Socks /\ open' = open \cup {sock'} /\ tasks' = <<>> /\ UNCHANGED <<st, conn, alive>>
        /\ st = "Connecting" /\ tasks # <<>>
        /\ reg' = [reg EXCEPT ![sock'] = [kind |-> "attempt", dir |-> "Out"]]
    BY <1>4 DEF AttemptConnects, TypeOK, TaskRuns, TaskStarts
  <2>2. \A s \in Socks : reg'[s] # NoReg => s = sock'
    BY <2>1 DEF TypeOK, OneAttempt, NoneRegistered
  <2> QED
    BY <1>0, <2>1, <2>2 DEF OneAttempt, Attempting
<1>5. CASE Release
  BY <1>5, <1>0 DEF Release, OneAttempt, Attempting, NoneRegistered
<1>6. CASE Close
  <2>1. NoneRegistered'
    BY <1>6, <1>0 DEF Close, Removed, NoneRegistered, TypeOK, OneAttempt
  <2> QED
    BY <1>6, <1>0, <2>1 DEF Close, OneAttempt, Attempting, NoneRegistered, netVars
<1>7. CASE \E c \in {"half", "dead"} : Breaks(c)
  BY <1>7, <1>0 DEF Breaks, OneAttempt, Attempting, NoneRegistered
<1> QED
  BY <1>1, <1>2, <1>3, <1>4, <1>5, <1>6, <1>7 DEF Task

LEMMA AttemptStep ==
  ASSUME TypeOK, PollCalls, OneAttempt, [Next]_vars
  PROVE  OneAttempt'
<1>1. CASE UNCHANGED vars
  BY <1>1 DEF vars, netVars, sendVars, OneAttempt, Attempting, NoneRegistered, Quiet
<1> QED
  BY <1>1, SendAttempt, PollAttempt, NetAttempt DEF Next

LEMMA ControlInductive == Spec => [](TypeOK /\ PollCalls /\ Locking /\ OneAttempt)
<1>1. Init => PollCalls /\ Locking /\ OneAttempt
  <2> SUFFICES ASSUME Init PROVE PollCalls /\ Locking /\ OneAttempt
    OBVIOUS
  <2>1. (\A t \in Threads : th[t] = Idle) /\ Poll \in Threads /\ mutex \notin Threads
    BY TcpAssumption DEF Init, Threads
  <2>2. PollCalls /\ Locking /\ Quiet
    BY <2>1 DEF Init, PollCalls, Locking, Quiet, Idle, Busy, Threads
  <2>3. OneAttempt
    BY <2>2 DEF Init, OneAttempt, Attempting, NoneRegistered
  <2> QED
    BY <2>2, <2>3
<1> QED
  BY <1>1, TypeCorrect, ThreadsStep, AttemptStep, PTL DEF Spec

\* For any number of addresses and descriptors, whatever attempts fail, time out
\* or are released meanwhile: the PollService has no socket but the current one,
\* which is open, and there is at most one attempt, as a task or a registration.
THEOREM RegistrationsAreCurrent == Spec => []RegisteredIsCurrent
<1>1. TypeOK /\ OneAttempt => RegisteredIsCurrent
  BY TcpAssumption DEF TypeOK, OneAttempt, RegisteredIsCurrent, NoneRegistered
<1> QED
  BY <1>1, ControlInductive, PTL

-----------------------------------------------------------------------------
(* QueueIsWatched                                                          *)

\* Bytes in the queue are watched for, or a thread is about to see to it, or a
\* callback that shadows them or disconnects is under way.
Watching ==
  (~shadowed /\ st = "Connected" /\ queue # <<>>) =>
    \/ \E t \in Threads : th[t].pc = "setPoll"
    \/ cb \in {"connected", "timeout", "disconnect"}
    \/ reg[sock].dir = "Both" /\ ~(cb = "out" /\ th[Poll].pc = "return")

LEMMA SendWatching ==
  ASSUME TypeOK, PollCalls, OneAttempt, Watching, NEW t \in Threads, Send(t) \/ SendCall(t)
  PROVE  Watching'
<1>0. UNCHANGED <<st, sock, cb>> /\ \A u \in Threads : u # t => th'[u] = th[u]
  BY SendMoves
<1>1. CASE SendSetPoll(t)
  <2>1. sock \in Socks /\ th[t].pc = "setPoll"
    BY <1>1, BusyHasSocket DEF SendSetPoll, Busy, TypeOK
  <2>2. reg'[sock].dir = "Both"
    BY <1>1, <2>1 DEF SendSetPoll, SetPoll, TypeOK
  <2>3. cb # "out"
    BY <1>1, <2>1 DEF SendSetPoll, PollLockFree, PollCalls
  <2> QED
    BY <1>0, <2>2, <2>3 DEF Watching
<1>2. CASE Push(t)
  <2>1. th'[t].pc = "setPoll"
    BY <1>2, GoType DEF Push, Busy
  <2> QED
    BY <2>1 DEF Watching
<1>3. CASE ~SendSetPoll(t) /\ ~Push(t)
  <2>1. UNCHANGED <<reg, shadowed>> /\ th[t].pc # "setPoll"
    BY <1>3, ZenonT(40) DEF Send, SendCall, SendThrows, SendLocks, FlushDone, FlushPeek, Pop, Exchange, Push,
       SendReturns, Write, MaySend
  <2>2. queue' # <<>> => queue # <<>>
    BY <1>3 DEF Send, SendCall, SendThrows, SendLocks, FlushDone, FlushPeek, Pop, Exchange, Push,
       SendReturns, Write
  <2>3. th'[t].pc = "return" => queue' = <<>> \/ th[t].pc = "return"
    <3>1. CASE FlushDone(t)
      BY <3>1 DEF FlushDone
    <3>2. CASE FlushPeek(t) \/ Exchange(t) \/ SendReturns(t) \/ \E k \in 0..MaxBytes : SendLocks(t, k)
      BY <3>2 DEF FlushPeek, Exchange, SendReturns, SendLocks, TypeOK, Idle, Places
    <3>3. CASE Pop(t) \/ SendThrows(t) \/ SendCall(t)
      BY <3>3, GoType DEF Pop, SendThrows, SendCall, Busy
    <3>4. CASE \E n \in Bytes : Write(t, n)
      BY <3>4 DEF Write, TypeOK, Places
    <3> QED
      BY <1>3, <3>1, <3>2, <3>3, <3>4 DEF Send
  <2>4. \A u \in Threads : th[u].pc = "setPoll" => th'[u].pc = "setPoll"
    BY <1>0, <2>1
  <2>5. (cb = "out" /\ th'[Poll].pc = "return") => queue' = <<>> \/ th[Poll].pc = "return"
    BY <1>0, <2>3, PollIsThread
  <2> QED
    BY <1>0, <2>1, <2>2, <2>4, <2>5, ZenonT(40) DEF Watching
<1> QED
  BY <1>1, <1>2, <1>3

LEMMA PollWatching ==
  ASSUME TypeOK, PollCalls, OneAttempt, Watching, Callback \/ Event
  PROVE  Watching'
<1>0. /\ UNCHANGED <<alive, sock, queue, raced>> /\ Poll \in Threads
      /\ \A u \in Threads : th[u].pc = "setPoll" => th'[u].pc = "setPoll"
  <2>1. UNCHANGED <<alive, sock, queue, raced>>
    BY DEF Callback, ConnectedReturns, TimeoutReturns, InReturns, OutReturns, OutFails,
     Disconnect, CallbackEnds, Event, AttemptEnds, Connects, PollTimeout, PollOut, PollError, PollIn,
     netVars, sendVars
  <2> QED
    BY <2>1, PollIsThread, PollMoves DEF PollCalls
<1> USE DEF netVars, sendVars
<1>1. CASE ConnectedReturns \/ TimeoutReturns
  BY <1>1, <1>0 DEF ConnectedReturns, TimeoutReturns, Watching
<1>2. CASE InReturns
  BY <1>2, <1>0 DEF InReturns, Watching
<1>3. CASE OutReturns
  BY <1>3, <1>0 DEF OutReturns, Watching
<1>4. CASE OutFails \/ Disconnect \/ Connects
  BY <1>4, <1>0 DEF OutFails, Disconnect, Connects, Watching
<1>5. CASE CallbackEnds
  <2>1. cb' = "out" => th'[Poll].pc = "flush"
    BY <1>5, <1>0, GoType DEF CallbackEnds, Busy
  <2> QED
    BY <1>5, <1>0, <2>1 DEF CallbackEnds, Watching
<1>6. CASE AttemptEnds
  BY <1>6, <1>0 DEF AttemptEnds, Watching, OneAttempt, Attempting
<1>7. CASE PollTimeout \/ PollError \/ \E b \in BOOLEAN : PollIn(b)
  BY <1>7, <1>0 DEF PollTimeout, PollError, PollIn, Polled, Watching
<1>8. CASE PollOut
  <2>1. th'[Poll].pc = "flush"
    BY <1>8, <1>0, GoType DEF PollOut, Busy
  <2> QED
    BY <1>8, <1>0, <2>1 DEF PollOut, Polled, Watching
<1> QED
  BY <1>1, <1>2, <1>3, <1>4, <1>5, <1>6, <1>7, <1>8 DEF Callback, Event

\* For any number of threads and messages, trySendQueue() raced or not: bytes that
\* send() left in the queue of a connected transport are watched for, as long as no
\* setPoll(In) of a connect or a timeout has ended the watch.
THEOREM QueueWatched == Spec => []QueueIsWatched
<1>1. Init => Watching
  BY DEF Init, Watching
<1>2. TypeOK /\ PollCalls /\ OneAttempt /\ Watching /\ [Next]_vars => Watching'
  <2> SUFFICES ASSUME TypeOK, PollCalls, OneAttempt, Watching, [Next]_vars PROVE Watching'
    OBVIOUS
  <2>1. CASE Start \/ Task \/ Release \/ Close \/ \E c \in {"half", "dead"} : Breaks(c)
    BY <2>1 DEF Start, Task, TaskDropped, Resolve, AttemptNone, AttemptFails, AttemptConnects, TaskRuns,
       Release, Close, Breaks, netVars, sendVars, Watching
  <2>2. CASE UNCHANGED vars
    BY <2>2 DEF vars, netVars, sendVars, Watching
  <2> QED
    BY <2>1, <2>2, SendWatching, PollWatching DEF Next
<1>3. Watching => QueueIsWatched
  BY DEF Watching, QueueIsWatched
<1> QED
  BY <1>1, <1>2, <1>3, ControlInductive, PTL DEF Spec

-----------------------------------------------------------------------------
(* WireInOrder                                                             *)

\* The thread has a message of its own to add behind the queue.
Reserve(t) == th[t].pc \in {"flush", "queued", "push"} /\ th[t].own # NoMsg

\* Bytes up to e belong into the queue or on the wire.
EndsAt(e) ==
  /\ \A t \in Threads : Reserve(t) =>
       e = th[t].own.lo - 1 /\ th[t].own.lo <= th[t].own.hi /\ th[t].own.hi = total
  /\ (\A t \in Threads : ~Reserve(t)) => e = total

Pushing == \A t \in Threads : th[t].pc = "push" => th[t].cur = th[t].own /\ th[t].own # NoMsg

\* Who writes its own message has found the queue empty.
Direct == \A t \in Threads : th[t].pc = "direct" =>
  /\ queue = <<>> /\ amount = 0
  /\ IF th[t].cur = NoMsg THEN Len(wire) = total
     ELSE th[t].cur.lo = Len(wire) + 1 /\ th[t].cur.hi = total /\ Len(wire) < total

\* Who writes the front of the queue is the only one to look at it.
Peeking == \A t \in Threads : th[t].pc = "queued" =>
  /\ queue # <<>> /\ th[t].size = queue[1].hi - queue[1].lo + 1
  /\ IF th[t].cur = NoMsg THEN Len(wire) = queue[1].hi
     ELSE th[t].cur.lo = Len(wire) + 1 /\ th[t].cur.hi = queue[1].hi /\ Len(wire) < queue[1].hi
  /\ \A u \in Threads \ {t} : th[u].pc # "queued"

Chain ==
  /\ \A i \in 1..Len(queue) : queue[i].lo <= queue[i].hi
  /\ \A i, j \in 1..Len(queue) : i < j => queue[i].hi < queue[j].lo
  /\ \A i \in 1..Len(queue) : i > 1 => queue[i].lo = queue[i - 1].hi + 1

QueueEnds(e) ==
  /\ queue # <<>> => queue[Len(queue)].hi = e /\ amount = e + 1 - queue[1].lo
  /\ (queue = <<>> /\ \A t \in Threads : th[t].pc # "direct") => Len(wire) = e /\ amount = 0

QueueBegins ==
  (queue # <<>> /\ \A t \in Threads : th[t].pc # "queued") => queue[1].lo = Len(wire) + 1

FlowTo(e) == EndsAt(e) /\ Pushing /\ Direct /\ Peeking /\ Chain /\ QueueEnds(e) /\ QueueBegins

Flow == \E e \in Nat : FlowTo(e)

\* The wire has the bytes in order, and while the connection lives what is next
\* is at the front of the queue, or with the thread that is to write it.
InOrder == ~raced => (wire = [i \in 1..Len(wire) |-> i]) /\ (conn # "dead" => Flow)

LEMMA PeekRaces ==
  ASSUME NEW t \in Threads, FlushPeek(t), ~raced'
  PROVE  ~raced /\ \A u \in Threads \ {t} : ~InSendQueue(u)
<1>1. raced' = (raced \/ \E u \in Threads \ {t} : InSendQueue(u))
  BY DEF FlushPeek
<1> QED
  BY <1>1

LEMMA SizeIs ==
  ASSUME NEW m \in Messages
  PROVE  /\ Size(m) = m.hi - m.lo + 1 /\ m.lo \in Nat /\ m.hi \in Int
         /\ m.lo <= m.hi => m # NoMsg
BY DEF Messages, Size, NoMsg

\* Only who has mSendMutex has a message of its own.
LEMMA ReserveLocks ==
  ASSUME PollCalls, Locking, NEW t \in Threads, Reserve(t) \/ th[t].pc \in {"direct", "push", "setPoll"}
  PROVE  mutex = t
BY DEF PollCalls, Locking, Reserve, Unlocked, Busy

\* A step in which no thread gets or loses a place that matters, and nothing is
\* queued or written.
LEMMA SameFlow ==
  ASSUME NEW e \in Nat, FlowTo(e), UNCHANGED <<queue, amount, total, wire>>,
         \A u \in Threads : \/ th'[u] = th[u]
                            \/ th[u].pc \in {"idle", "lock"} /\ th'[u].pc \in {"idle", "lock"}
                            \/ th[u].pc \in {"return", "again", "setPoll"} /\ th'[u].pc \in {"idle", "return"}
                            \/ /\ th[u].pc \in {"idle", "lock"} /\ th'[u].pc = "flush" /\ th'[u].own = NoMsg
                            \/ /\ th[u].pc = "flush" /\ th[u].own = NoMsg /\ th'[u].pc = "return" /\ queue = <<>>
  PROVE  FlowTo(e)'
<1>1. \A u \in Threads : Reserve(u)' => th'[u] = th[u]
  BY DEF Reserve
<1>2. \A u \in Threads : Reserve(u) => th'[u] = th[u]
  BY DEF Reserve
<1>3. EndsAt(e)'
  BY <1>1, <1>2 DEF FlowTo, EndsAt, Reserve
<1>4. \A u \in Threads : /\ th'[u].pc \in {"queued", "direct", "push"} => th'[u] = th[u]
                         /\ th[u].pc \in {"queued", "direct", "push"} => th'[u] = th[u]
  OBVIOUS
<1>5. Pushing' /\ Direct'
  BY <1>4 DEF FlowTo, Pushing, Direct
<1>6. Peeking'
  BY <1>4 DEF FlowTo, Peeking
<1>7. Chain' /\ QueueEnds(e)' /\ QueueBegins'
  BY <1>4 DEF FlowTo, Chain, QueueEnds, QueueBegins
<1> QED
  BY <1>3, <1>5, <1>6, <1>7 DEF FlowTo

\* What does not queue or write: send() comes and goes.
LEMMA CallFlow ==
  ASSUME TypeOK, PollCalls, Locking, NEW e \in Nat, FlowTo(e), conn # "dead", NEW t \in Threads,
         SendCall(t) \/ SendThrows(t) \/ SendSetPoll(t)
  PROVE  FlowTo(e)'
<1>1. CASE SendCall(t)
  BY <1>1, GoType, SameFlow DEF SendCall, MaySend
<1>2. CASE SendThrows(t)
  BY <1>2, GoType, SameFlow DEF SendThrows
<1>3. CASE SendSetPoll(t)
  BY <1>3, GoType, SameFlow DEF SendSetPoll, Busy
<1> QED
  BY <1>1, <1>2, <1>3

LEMMA LocksFlow ==
  ASSUME TypeOK, PollCalls, Locking, NEW e \in Nat, FlowTo(e), NEW t \in Threads,
         NEW k \in 0..MaxBytes, SendLocks(t, k)
  PROVE  FlowTo(e)'
<1>0. /\ th[t].pc = "lock" /\ mutex = Nobody /\ total' = total + k /\ UNCHANGED <<queue, amount, wire>>
      /\ k \in Nat /\ total \in Nat
      /\ th'[t].pc = "flush" /\ th'[t].own = IF k = 0 THEN NoMsg ELSE [lo |-> total + 1, hi |-> total + k]
      /\ \A u \in Threads : u # t => th'[u] = th[u]
      /\ Nobody \notin Threads
  BY TcpAssumption DEF SendLocks, TypeOK, Threads
<1>1. \A u \in Threads : ~Reserve(u) /\ th[u].pc \notin {"direct", "push", "setPoll"}
  BY <1>0, ReserveLocks
<1>2. e = total
  BY <1>1 DEF FlowTo, EndsAt
<1>3. EndsAt(e)'
  <2>1. \A u \in Threads : Reserve(u)' => u = t /\ k # 0
    BY <1>0, <1>1 DEF Reserve
  <2>2. CASE k = 0
    BY <2>1, <2>2, <1>0, <1>2 DEF EndsAt
  <2>3. CASE k # 0
    <3>1. Reserve(t)'
      BY <1>0, <2>3 DEF Reserve, NoMsg
    <3>2. th'[t].own.lo = total + 1 /\ th'[t].own.hi = total + k
      BY <1>0, <2>3
    <3> QED
      BY <3>1, <3>2, <2>1, <1>0, <1>2 DEF EndsAt
  <2> QED
    BY <2>2, <2>3
<1>4. Pushing' /\ Direct'
  BY <1>0, <1>1 DEF Pushing, Direct
<1>5. Peeking'
  BY <1>0 DEF FlowTo, Peeking
<1>6. Chain' /\ QueueEnds(e)' /\ QueueBegins'
  BY <1>0 DEF FlowTo, Chain, QueueEnds, QueueBegins
<1> QED
  BY <1>3, <1>4, <1>5, <1>6 DEF FlowTo

LEMMA FlushDoneFlow ==
  ASSUME TypeOK, PollCalls, Locking, NEW e \in Nat, FlowTo(e), NEW t \in Threads, FlushDone(t)
  PROVE  Flow'
<1>0. /\ th[t].pc = "flush" /\ queue = <<>> /\ UNCHANGED <<queue, amount, wire, total>>
      /\ th'[t].pc = (IF th[t].own = NoMsg THEN "return" ELSE "direct") /\ th'[t].cur = th[t].own
      /\ \A u \in Threads : u # t => th'[u] = th[u]
      /\ total \in Nat /\ Len(wire) \in Nat /\ th[t].own \in Messages
  BY DEF FlushDone, TypeOK, Places
<1>1. CASE th[t].own = NoMsg
  BY <1>0, <1>1, SameFlow DEF Flow
<1>2. CASE th[t].own # NoMsg
  <2>1. Reserve(t) /\ mutex = t
    BY <1>0, <1>2, ReserveLocks DEF Reserve
  <2>2. \A u \in Threads : u # t => ~Reserve(u) /\ th[u].pc \notin {"direct", "push"}
    BY <2>1, ReserveLocks
  <2>3. Len(wire) = e /\ amount = 0
    BY <1>0, <2>2 DEF FlowTo, QueueEnds
  <2>4. e = th[t].own.lo - 1 /\ th[t].own.lo <= th[t].own.hi /\ th[t].own.hi = total
    BY <2>1 DEF FlowTo, EndsAt
  <2>5. EndsAt(total)'
    BY <1>0, <1>2, <2>2 DEF EndsAt, Reserve
  <2>6. Pushing' /\ Peeking'
    BY <1>0, <1>2, <2>2 DEF FlowTo, Pushing, Peeking
  <2>7. Direct'
    BY <1>0, <1>2, <2>2, <2>3, <2>4, SizeIs, SMTT(40) DEF Direct
  <2>8. Chain' /\ QueueEnds(total)' /\ QueueBegins'
    BY <1>0, <1>2 DEF FlowTo, Chain, QueueEnds, QueueBegins
  <2>9. FlowTo(total)'
    BY <2>5, <2>6, <2>7, <2>8 DEF FlowTo
  <2> QED
    BY <2>9, <1>0 DEF Flow
<1> QED
  BY <1>1, <1>2

LEMMA PeekFlow ==
  ASSUME TypeOK, NEW e \in Nat, FlowTo(e), NEW t \in Threads, FlushPeek(t), ~raced'
  PROVE  FlowTo(e)'
<1>0. /\ th[t].pc = "flush" /\ queue # <<>> /\ UNCHANGED <<queue, amount, wire, total>>
      /\ th'[t].pc = "queued" /\ th'[t].own = th[t].own
      /\ th'[t].cur = queue[1] /\ th'[t].size = Size(queue[1])
      /\ \A u \in Threads : u # t => th'[u] = th[u] /\ th[u].pc \notin {"flush", "queued"}
      /\ queue[1] \in Messages /\ Len(wire) \in Nat /\ 1 \in 1..Len(queue)
  <2>1. /\ queue # <<>> /\ Head(queue) = queue[1] /\ queue[1] \in Messages /\ 1 \in 1..Len(queue)
        /\ Len(wire) \in Nat
    BY DEF FlushPeek, TypeOK
  <2>2. /\ th'[t].pc = "queued" /\ th'[t].own = th[t].own
        /\ th'[t].cur = Head(queue) /\ th'[t].size = Size(Head(queue))
        /\ \A u \in Threads : u # t => th'[u] = th[u]
    BY DEF FlushPeek, TypeOK, Places
  <2> QED
    BY <2>1, <2>2, PeekRaces DEF FlushPeek, InSendQueue
<1>1. queue[1].lo = Len(wire) + 1 /\ queue[1].lo <= queue[1].hi
  BY <1>0 DEF FlowTo, QueueBegins, Chain
<1>2. EndsAt(e)'
  BY <1>0 DEF FlowTo, EndsAt, Reserve
<1>3. Pushing' /\ Direct'
  BY <1>0 DEF FlowTo, Pushing, Direct
<1>4. Peeking'
  BY <1>0, <1>1, SizeIs, SMTT(40) DEF Peeking
<1>5. Chain' /\ QueueEnds(e)' /\ QueueBegins'
  BY <1>0 DEF FlowTo, Chain, QueueEnds, QueueBegins
<1> QED
  BY <1>2, <1>3, <1>4, <1>5 DEF FlowTo

LEMMA MinusIs ==
  ASSUME NEW a \in Int, NEW b \in Int, a >= 0
  PROVE  Minus(a + b, b) = a
BY DEF Minus

LEMMA PopFlow ==
  ASSUME TypeOK, NEW e \in Nat, FlowTo(e), NEW t \in Threads, Pop(t)
  PROVE  FlowTo(e)'
<1> DEFINE L == Len(queue)
<1>0. /\ th[t].pc = "queued" /\ th[t].cur = NoMsg /\ UNCHANGED <<wire, total>>
      /\ th'[t].pc = "flush" /\ th'[t].own = th[t].own
      /\ \A u \in Threads : u # t => th'[u] = th[u]
      /\ amount' = Minus(amount, th[t].size)
  BY GoType DEF Pop, Busy
<1>1. /\ queue # <<>> /\ th[t].size = queue[1].hi - queue[1].lo + 1 /\ Len(wire) = queue[1].hi
      /\ \A u \in Threads : u # t => th[u].pc \notin {"direct", "queued"}
  BY <1>0 DEF FlowTo, Peeking, Direct
<1>2. /\ L \in Nat \ {0} /\ 1 \in 1..L /\ Len(queue') = L - 1
      /\ \A i \in 1..L : queue[i] \in Messages /\ queue[i].lo \in Nat /\ queue[i].hi \in Int
      /\ \A i \in 1..L - 1 : queue'[i] = queue[i + 1] /\ i + 1 \in 1..L
      /\ queue' = Tail(queue) /\ (queue' = <<>> <=> L = 1)
  <2>1. queue' = Tail(queue) /\ queue \in Seq(Messages) /\ queue # <<>>
    BY <1>1 DEF Pop, TypeOK
  <2>2. /\ L \in Nat \ {0} /\ 1 \in 1..L /\ Len(queue') = L - 1
        /\ \A i \in 1..L : queue[i] \in Messages
        /\ \A i \in 1..L - 1 : queue'[i] = queue[i + 1] /\ i + 1 \in 1..L
        /\ queue' \in Seq(Messages)
    BY <2>1
  <2>3. queue' = <<>> <=> L = 1
    BY <2>2
  <2> QED
    BY <2>1, <2>2, <2>3, SizeIs
<1>3. /\ queue[L].hi = e /\ amount = e + 1 - queue[1].lo /\ L \in 1..L
      /\ queue[1].hi <= e /\ (L > 1 => queue[1].hi < e)
      /\ queue[1].lo <= queue[1].hi
  <2>1. queue[L].hi = e /\ amount = e + 1 - queue[1].lo
    BY <1>1 DEF FlowTo, QueueEnds
  <2>2. L \in 1..L /\ queue[1].lo <= queue[1].hi
    BY <1>2 DEF FlowTo, Chain
  <2>3. CASE L = 1
    BY <1>2, <2>1, <2>2, <2>3
  <2>4. CASE L # 1
    <3>1. 1 < L
      BY <1>2, <2>4
    <3>2. queue[1].hi < queue[L].lo /\ queue[L].lo <= queue[L].hi
      BY <1>2, <2>2, <3>1 DEF FlowTo, Chain
    <3>3. queue[1].hi < queue[L].hi
      BY <1>2, <2>2, <3>2
    <3> QED
      BY <1>2, <2>1, <2>2, <3>1, <3>3
  <2> QED
    BY <2>3, <2>4
<1>4. amount' = e - queue[1].hi
  <2> DEFINE h == queue[1].hi
             o == queue[1].lo
  <2>1. h \in Int /\ o \in Nat /\ o <= h /\ h <= e /\ amount = e + 1 - o /\ th[t].size = h - o + 1
    BY <1>1, <1>2, <1>3
  <2>2. amount' = Minus(amount, th[t].size)
    BY <1>0
  <2> HIDE DEF h, o
  <2>3. amount' = e - h
    BY <2>1, <2>2, SMTT(40) DEF Minus
  <2> QED
    BY <2>3 DEF h
<1>5. EndsAt(e)'
  BY <1>0 DEF FlowTo, EndsAt, Reserve
<1>6. Pushing' /\ Direct' /\ Peeking'
  BY <1>0, <1>1 DEF FlowTo, Pushing, Direct, Peeking
<1>7. Chain'
  <2>1. \A i \in 1..L - 1 : queue'[i].lo <= queue'[i].hi
    BY <1>2 DEF FlowTo, Chain
  <2>2. \A i, j \in 1..L - 1 : i < j => queue'[i].hi < queue'[j].lo
    BY <1>2 DEF FlowTo, Chain
  <2>3. ASSUME NEW i \in 1..L - 1, i > 1 PROVE queue'[i].lo = queue'[i - 1].hi + 1
    <3>1. i - 1 \in 1..L - 1 /\ i + 1 > 1 /\ (i + 1) - 1 = i /\ (i - 1) + 1 = i /\ i \in 1..L
      BY <2>3, <1>2
    <3>2. queue'[i] = queue[i + 1] /\ queue'[i - 1] = queue[i] /\ i + 1 \in 1..L
      BY <3>1, <1>2
    <3>3. queue[i + 1].lo = queue[(i + 1) - 1].hi + 1
      BY <3>1, <3>2 DEF FlowTo, Chain
    <3> QED
      BY <3>1, <3>2, <3>3
  <2> QED
    BY <2>1, <2>2, <2>3, <1>2 DEF Chain
<1>8. QueueEnds(e)' /\ QueueBegins'
  <2>1. CASE L = 1
    <3>1. queue' = <<>> /\ Len(wire) = e /\ amount' = 0
      BY <2>1, <1>1, <1>2, <1>3, <1>4
    <3> QED
      BY <3>1, <1>0 DEF QueueEnds, QueueBegins
  <2>2. CASE L # 1
    <3>1. /\ 1 \in 1..L - 1 /\ L - 1 \in 1..L - 1 /\ (L - 1) + 1 = L /\ 1 + 1 = 2 /\ 2 \in 1..L /\ 2 - 1 = 1
          /\ queue' # <<>>
      BY <2>2, <1>2
    <3>2. queue'[1] = queue[2] /\ queue'[L - 1] = queue[L]
      BY <3>1, <1>2
    <3>3. queue[2].lo = queue[1].hi + 1
      BY <3>1 DEF FlowTo, Chain
    <3>4. amount' = e + 1 - queue'[1].lo /\ queue'[1].lo = Len(wire) + 1
      BY <3>2, <3>3, <1>1, <1>2, <1>4
    <3> QED
      BY <3>1, <3>2, <3>4, <1>0, <1>2, <1>3 DEF QueueEnds, QueueBegins
  <2> QED
    BY <2>1, <2>2
<1> QED
  BY <1>5, <1>6, <1>7, <1>8 DEF FlowTo

LEMMA ExchangeFlow ==
  ASSUME TypeOK, NEW e \in Nat, FlowTo(e), NEW t \in Threads, Exchange(t)
  PROVE  FlowTo(e)'
<1> DEFINE L == Len(queue)
           m == th[t].cur
<1>0. /\ th[t].pc = "queued" /\ m # NoMsg /\ UNCHANGED <<wire, total>>
      /\ th'[t].pc = (IF th[t].own = NoMsg THEN "again" ELSE "push") /\ th'[t].own = th[t].own
      /\ th'[t].cur = th[t].own
      /\ \A u \in Threads : u # t => th'[u] = th[u]
      /\ amount' = Minus(amount + Size(m), th[t].size)
      /\ m \in Messages /\ Len(wire) \in Nat
  BY DEF Exchange, TypeOK, Places
<1>1. /\ queue # <<>> /\ th[t].size = queue[1].hi - queue[1].lo + 1
      /\ m.lo = Len(wire) + 1 /\ m.hi = queue[1].hi /\ Len(wire) < queue[1].hi
      /\ \A u \in Threads : u # t => th[u].pc \notin {"direct", "queued"}
  BY <1>0 DEF FlowTo, Peeking, Direct
<1>2. /\ L \in Nat \ {0} /\ 1 \in 1..L /\ L \in 1..L
      /\ \A i \in 1..L : queue[i] \in Messages /\ queue[i].lo \in Nat /\ queue[i].hi \in Int
  <2>1. queue \in Seq(Messages) /\ queue # <<>>
    BY <1>1 DEF TypeOK
  <2>2. L \in Nat \ {0} /\ 1 \in 1..L /\ L \in 1..L /\ \A i \in 1..L : queue[i] \in Messages
    BY <2>1
  <2> QED
    BY <2>2, SizeIs
<1>3. /\ queue' \in Seq(Messages) /\ Len(queue') = L
      /\ queue'[1] = m /\ \A i \in 1..L : i > 1 => queue'[i] = queue[i]
  <2>1. Tail(queue) \in Seq(Messages) /\ Len(Tail(queue)) = L - 1 /\ \A i \in 1..L - 1 : Tail(queue)[i] = queue[i + 1]
    BY <1>1 DEF TypeOK
  <2>2. queue' = <<m>> \o Tail(queue)
    BY <1>1 DEF Exchange
  <2> QED
    BY <2>1, <2>2, <1>0, <1>2
<1>4. queue[L].hi = e /\ amount = e + 1 - queue[1].lo /\ queue[1].hi <= e
  <2>1. queue[L].hi = e /\ amount = e + 1 - queue[1].lo
    BY <1>1 DEF FlowTo, QueueEnds
  <2>a. L \in Nat \ {0} /\ 1 \in 1..L /\ L \in 1..L
    BY <1>2
  <2>b. queue[1].hi \in Int /\ queue[L].lo \in Nat /\ queue[L].hi \in Int
    BY <1>2, <2>a
  <2>2. CASE L = 1
    <3>1. queue[1].hi = queue[L].hi
      BY <2>2
    <3> QED
      BY <2>1, <2>b, <3>1
  <2>3. CASE L # 1
    <3>0. \A k \in Nat \ {0} : k = 1 \/ 1 < k
      OBVIOUS
    <3>1. 1 < L
      BY <2>a, <2>3, <3>0, Zenon
    <3>2. Chain
      BY DEF FlowTo
    <3>3. queue[1].hi < queue[L].lo
      BY <2>a, <3>1, <3>2 DEF Chain
    <3>4. queue[L].lo <= queue[L].hi
      BY <2>a, <3>2 DEF Chain
    <3> QED
      BY <2>1, <2>b, <3>3, <3>4
  <2> QED
    BY <2>2, <2>3
<1>5. amount' = e - Len(wire)
  <2> DEFINE h == queue[1].hi
             l == queue[1].lo
             W == Len(wire)
  <2>0. h \in Int /\ l \in Nat /\ W \in Nat
    BY <1>0, <1>2
  <2>1. Size(m) = m.hi - m.lo + 1
    BY <1>0, SizeIs
  <2>2. m.hi = h /\ m.lo = W + 1 /\ th[t].size = h - l + 1 /\ amount = e + 1 - l /\ W < h /\ h <= e
    BY <1>1, <1>4
  <2> HIDE DEF h, l, W
  <2>3. amount + Size(m) = (e - W) + th[t].size /\ e - W >= 0
    BY <2>0, <2>1, <2>2
  <2>4. amount' = Minus((e - W) + th[t].size, th[t].size) /\ e - W \in Int /\ th[t].size \in Int
    BY <2>0, <2>2, <2>3, <1>0
  <2>5. amount' = e - W
    BY <2>3, <2>4, MinusIs
  <2> QED
    BY <2>5 DEF W
<1>6. EndsAt(e)'
  BY <1>0 DEF FlowTo, EndsAt, Reserve
<1>7. Pushing' /\ Direct' /\ Peeking'
  BY <1>0, <1>1 DEF FlowTo, Pushing, Direct, Peeking
<1>8. queue'[L].hi = e /\ queue'[1].lo = Len(wire) + 1 /\ queue' # <<>>
  BY <1>1, <1>2, <1>3, <1>4, SMTT(40)
<1>9. Chain'
  <2>1. \A i \in 1..L : queue'[i].hi = queue[i].hi /\ (i > 1 => queue'[i].lo = queue[i].lo)
    BY <1>1, <1>2, <1>3
  <2>2. \A i \in 1..L : queue'[i].lo <= queue'[i].hi
    BY <1>1, <1>2, <1>3, <2>1 DEF FlowTo, Chain
  <2>3. \A i, j \in 1..L : i < j => queue'[i].hi < queue'[j].lo
    BY <1>2, <2>1 DEF FlowTo, Chain
  <2>4. \A i \in 1..L : i > 1 => queue'[i].lo = queue'[i - 1].hi + 1
    BY <1>2, <2>1 DEF FlowTo, Chain
  <2> QED
    BY <1>3, <2>2, <2>3, <2>4 DEF Chain
<1>10. QueueEnds(e)' /\ QueueBegins'
  BY <1>0, <1>3, <1>5, <1>8 DEF QueueEnds, QueueBegins
<1> QED
  BY <1>6, <1>7, <1>9, <1>10 DEF FlowTo

LEMMA PushFlow ==
  ASSUME TypeOK, PollCalls, Locking, NEW e \in Nat, FlowTo(e), NEW t \in Threads, Push(t)
  PROVE  FlowTo(total)'
<1> DEFINE L == Len(queue)
           m == th[t].cur
<1>0. /\ th[t].pc = "push" \/ (th[t].pc = "direct" /\ m # NoMsg)
      /\ UNCHANGED <<wire, total>> /\ th'[t].pc = "setPoll" /\ amount' = amount + Size(m)
      /\ \A u \in Threads : u # t => th'[u] = th[u]
      /\ m \in Messages /\ th[t].own \in Messages /\ Len(wire) \in Nat /\ total \in Nat /\ amount \in Int
  BY GoType DEF Push, Busy, TypeOK, Places
<1>1. mutex = t
  BY <1>0, ReserveLocks
<1>2. \A u \in Threads : u # t => ~Reserve(u) /\ th[u].pc \notin {"direct", "push"}
  BY <1>0, <1>1, ReserveLocks
<1>2a. \A u \in Threads : th[u].pc = "queued" => u # t /\ queue # <<>>
  BY <1>0 DEF FlowTo, Peeking
<1>3. /\ L \in Nat /\ Len(queue') = L + 1 /\ queue' # <<>> /\ L + 1 \in 1..L + 1 /\ queue'[L + 1] = m
      /\ \A i \in 1..L : queue'[i] = queue[i] /\ queue[i] \in Messages
      /\ \A i \in 1..L + 1 : i \in 1..L \/ i = L + 1
  BY <1>0 DEF Push, TypeOK
<1>4. /\ m.hi = total /\ m.lo <= m.hi
      /\ queue # <<>> => queue[L].hi = m.lo - 1 /\ amount = m.lo - queue[1].lo
      /\ queue = <<>> => Len(wire) = m.lo - 1 /\ amount = 0
  <2>1. CASE th[t].pc = "push"
    <3>1. Reserve(t) /\ m = th[t].own
      BY <2>1 DEF FlowTo, Pushing, Reserve
    <3>2. e = m.lo - 1 /\ m.lo <= m.hi /\ m.hi = total
      BY <3>1 DEF FlowTo, EndsAt
    <3>3. m.lo \in Nat
      BY <1>0, SizeIs
    <3>4. \A u \in Threads : th[u].pc # "direct"
      BY <2>1, <1>2
    <3>5. /\ queue # <<>> => queue[L].hi = e /\ amount = e + 1 - queue[1].lo
          /\ queue = <<>> => Len(wire) = e /\ amount = 0
      BY <3>4 DEF FlowTo, QueueEnds
    <3>6. e + 1 = m.lo
      BY <3>2, <3>3
    <3>8. queue # <<>> => 1 \in 1..L /\ queue[1] \in Messages
      BY <1>3 DEF TypeOK
    <3>9. queue # <<>> => queue[1].lo \in Nat
      BY <3>8, SizeIs
    <3>7. queue # <<>> => amount = m.lo - queue[1].lo
      BY <3>3, <3>5, <3>6, <3>9, SMTT(40)
    <3> QED
      BY <3>2, <3>5, <3>7
  <2>2. CASE th[t].pc = "direct" /\ m # NoMsg
    BY <2>2, <1>0, SizeIs, SMTT(40) DEF FlowTo, Direct
  <2> QED
    BY <1>0, <2>1, <2>2
<1>5. EndsAt(total)'
  BY <1>0, <1>2 DEF EndsAt, Reserve
<1>6. Pushing' /\ Direct' /\ Peeking'
  <2>1. Pushing' /\ Direct'
    BY <1>0, <1>2 DEF Pushing, Direct
  <2>2. queue # <<>> => queue'[1] = queue[1] /\ queue' # <<>>
    <3>1. queue # <<>> => 1 \in 1..L
      BY <1>3 DEF TypeOK
    <3> QED
      BY <3>1, <1>3
  <2>3. ASSUME NEW u \in Threads, th'[u].pc = "queued"
        PROVE  th'[u] = th[u] /\ th[u].pc = "queued" /\ u # t /\ queue # <<>>
    BY <2>3, <1>0, <1>2a
  <2>4. \A u \in Threads : th'[u].pc = "queued" => th[u].pc = "queued"
    BY <2>3
  <2>5. Peeking'
    <3> SUFFICES ASSUME NEW u \in Threads, th'[u].pc = "queued"
                 PROVE  /\ queue' # <<>> /\ th'[u].size = queue'[1].hi - queue'[1].lo + 1
                        /\ IF th'[u].cur = NoMsg THEN Len(wire') = queue'[1].hi
                           ELSE /\ th'[u].cur.lo = Len(wire') + 1 /\ th'[u].cur.hi = queue'[1].hi
                                /\ Len(wire') < queue'[1].hi
                        /\ \A v \in Threads \ {u} : th'[v].pc # "queued"
      BY DEF Peeking
    <3>1. th'[u] = th[u] /\ th[u].pc = "queued" /\ queue'[1] = queue[1] /\ queue' # <<>> /\ wire' = wire
      BY <1>0, <2>2, <2>3
    <3> QED
      BY <3>1, <2>4 DEF FlowTo, Peeking
  <2> QED
    BY <2>1, <2>5
<1>7. \A i \in 1..L : queue[i].hi \in Int /\ queue[i].lo \in Nat
  BY <1>3, SizeIs
<1>8. \A i \in 1..L : queue[i].hi <= queue[L].hi /\ queue[L].hi = m.lo - 1
  <2>1. ASSUME NEW i \in 1..L PROVE queue[i].hi <= queue[L].hi /\ queue[L].hi = m.lo - 1
    <3>1. L \in 1..L /\ queue # <<>> /\ (i = L \/ i < L)
      BY <1>3 DEF TypeOK
    <3> QED
      BY <3>1, <1>4, <1>7, SMTT(40) DEF FlowTo, Chain
  <2> QED
    BY <2>1
<1>9. Chain'
  <2>0. m.lo \in Nat /\ m.hi \in Int
    BY <1>0, SizeIs
  <2>1. \A i \in 1..L + 1 : queue'[i].lo <= queue'[i].hi
    BY <1>3, <1>4 DEF FlowTo, Chain
  <2>2. \A i, j \in 1..L + 1 : i < j => queue'[i].hi < queue'[j].lo
    BY <2>0, <1>3, <1>7, <1>8, SMTT(40) DEF FlowTo, Chain
  <2>3. ASSUME NEW i \in 1..L + 1, i > 1 PROVE queue'[i].lo = queue'[i - 1].hi + 1
    <3>1. i - 1 \in 1..L
      BY <2>3, <1>3
    <3>2. CASE i \in 1..L
      BY <3>1, <3>2, <2>3, <1>3 DEF FlowTo, Chain
    <3>3. CASE i = L + 1
      BY <3>1, <3>3, <2>0, <1>3, <1>8
    <3> QED
      BY <3>2, <3>3, <1>3
  <2> QED
    BY <1>3, <2>1, <2>2, <2>3 DEF Chain
<1>10. amount' = total + 1 - queue'[1].lo
  <2>0. m.lo \in Nat /\ m.hi \in Int /\ Size(m) = m.hi - m.lo + 1
    BY <1>0, SizeIs
  <2>1. CASE queue = <<>>
    BY <2>0, <2>1, <1>0, <1>3, <1>4, SMTT(40)
  <2>2. CASE queue # <<>>
    <3>1. 1 \in 1..L
      BY <2>2, <1>3 DEF TypeOK
    <3>2. queue'[1] = queue[1] /\ queue[1].lo \in Nat /\ amount = m.lo - queue[1].lo
      BY <3>1, <2>2, <1>3, <1>4, <1>7
    <3> DEFINE l == queue[1].lo
    <3>3. amount' = (m.lo - l) + (m.hi - m.lo + 1) /\ l \in Nat
      BY <3>2, <2>0, <1>0
    <3>4. m.hi = total /\ queue'[1].lo = l
      BY <3>2, <1>4
    <3> HIDE DEF l, m
    <3>5. amount' = m.hi + 1 - l
      BY <3>3, <2>0
    <3> QED
      BY <3>4, <3>5
  <2> QED
    BY <2>1, <2>2
<1>11. (\A u \in Threads : th'[u].pc # "queued") => queue'[1].lo = Len(wire) + 1
  <2> SUFFICES ASSUME \A u \in Threads : th'[u].pc # "queued" PROVE queue'[1].lo = Len(wire) + 1
    OBVIOUS
  <2>1. CASE queue = <<>>
    BY <2>1, <1>0, <1>3, <1>4, SizeIs, SMTT(40)
  <2>2. CASE queue # <<>>
    <3>0. \A u \in Threads : th[u].pc # "queued"
      BY <1>0, <1>2a
    <3>1. 1 \in 1..L
      BY <2>2, <1>3 DEF TypeOK
    <3> QED
      BY <3>0, <3>1, <2>2, <1>3 DEF FlowTo, QueueBegins
  <2> QED
    BY <2>1, <2>2
<1>12. QueueEnds(total)' /\ QueueBegins'
  BY <1>0, <1>3, <1>4, <1>10, <1>11 DEF QueueEnds, QueueBegins
<1> QED
  BY <1>5, <1>6, <1>9, <1>12 DEF FlowTo

LEMMA ReturnsFlow ==
  ASSUME TypeOK, PollCalls, Locking, NEW e \in Nat, FlowTo(e), conn # "dead", NEW t \in Threads, SendReturns(t)
  PROVE  FlowTo(e)'
<1>0. /\ mutex = t /\ th'[t].pc = "idle" /\ UNCHANGED <<queue, amount, wire, total>>
      /\ \A u \in Threads : u # t => th'[u] = th[u]
      /\ th[t].pc \in {"return", "again"} \/ (th[t].pc = "direct" /\ th[t].cur = NoMsg)
  BY DEF SendReturns, TypeOK, Idle
<1>1. CASE th[t].pc \in {"return", "again"}
  BY <1>0, <1>1, SameFlow
<1>2. CASE th[t].pc = "direct" /\ th[t].cur = NoMsg
  <2>1. \A u \in Threads : ~Reserve(u) /\ (u # t => th[u].pc \notin {"direct", "push"})
    BY <1>0, <1>2, ReserveLocks DEF Reserve
  <2>2. queue = <<>> /\ amount = 0 /\ Len(wire) = total /\ e = total
    BY <1>2, <2>1 DEF FlowTo, Direct, EndsAt
  <2>3. EndsAt(e)'
    BY <1>0, <2>1, <2>2 DEF EndsAt, Reserve
  <2>4. Pushing' /\ Direct' /\ Peeking'
    BY <1>0, <1>2, <2>1 DEF FlowTo, Pushing, Direct, Peeking
  <2>5. Chain' /\ QueueEnds(e)' /\ QueueBegins'
    BY <1>0, <2>2 DEF FlowTo, Chain, QueueEnds, QueueBegins
  <2> QED
    BY <2>3, <2>4, <2>5 DEF FlowTo
<1> QED
  BY <1>0, <1>1, <1>2

\* ::send() takes the next bytes.
LEMMA WriteFlow ==
  ASSUME TypeOK, PollCalls, Locking, NEW e \in Nat, FlowTo(e), wire = [i \in 1..Len(wire) |-> i],
         NEW t \in Threads, NEW n \in Bytes, Write(t, n)
  PROVE  FlowTo(e)' /\ wire' = [i \in 1..Len(wire') |-> i]
<1> DEFINE m == th[t].cur
           W == Len(wire)
           f == [i \in 1..n |-> m.lo + i - 1]
<1>0. /\ th[t].pc \in {"queued", "direct"} /\ n \in 1..Size(m) /\ wire' = wire \o f
      /\ UNCHANGED <<queue, amount, total>>
      /\ th'[t].pc = th[t].pc /\ th'[t].own = th[t].own /\ th'[t].size = th[t].size
      /\ th'[t].cur = IF n = Size(m) THEN NoMsg ELSE [m EXCEPT !.lo = m.lo + n]
      /\ \A u \in Threads : u # t => th'[u] = th[u]
      /\ m \in Messages /\ W \in Nat /\ n \in Nat /\ n >= 1
  BY TcpAssumption DEF Write, TypeOK, Places, Bytes
<1>1. Size(m) = m.hi - m.lo + 1 /\ m.lo \in Nat /\ m.hi \in Int /\ Size(NoMsg) = 0
  BY <1>0, SizeIs DEF Size
<1>2. m # NoMsg
  BY <1>0, <1>1
<1>3. m.lo = W + 1 /\ n <= m.hi - W
  BY <1>0, <1>1, <1>2, SMTT(40) DEF FlowTo, Direct, Peeking
<1> HIDE DEF m, W
<1>4. /\ Size(m) = m.hi - W /\ \A i \in 1..n : m.lo + i - 1 = W + i
      /\ W \in Nat /\ n \in Nat /\ n >= 1 /\ m.hi \in Int /\ m.lo + n = W + n + 1
  <2>1. W \in Nat /\ n \in Nat /\ n >= 1
    BY <1>0 DEF W
  <2> QED
    BY <2>1, <1>1, <1>3
<1>f. f \in Seq(Int) /\ Len(f) = n /\ \A i \in 1..n : f[i] = W + i
  BY <1>4, <1>1
<1> HIDE DEF f
<1>5. Len(wire') = W + n
  BY <1>0, <1>f DEF TypeOK, W
<1>6. wire' = [i \in 1..Len(wire') |-> i]
  <2>1. wire' \in Seq(Int)
    BY <1>0, <1>f DEF TypeOK
  <2>2. ASSUME NEW i \in 1..W + n PROVE wire'[i] = i
    <3>0. i \in Int /\ i >= 1 /\ i <= W + n
      BY <1>4
    <3>1. CASE i <= W
      <4>1. i \in 1..W /\ wire'[i] = wire[i]
        BY <3>0, <3>1, <1>0, <1>4, <1>f DEF TypeOK, W
      <4> QED
        BY <4>1 DEF W
    <3>2. CASE ~(i <= W)
      <4>1. i - W \in 1..n /\ W + (i - W) = i
        BY <3>0, <3>2, <1>4
      <4>2. wire'[i] = f[i - W]
        BY <3>0, <3>2, <1>0, <1>f, ConcatProperties DEF TypeOK, W
      <4> QED
        BY <4>1, <4>2, <1>f
    <3> QED
      BY <3>1, <3>2
  <2> QED
    BY <2>1, <2>2, <1>5
<1>7. IF n = Size(m) THEN th'[t].cur = NoMsg /\ W + n = m.hi
      ELSE th'[t].cur # NoMsg /\ th'[t].cur.lo = W + n + 1 /\ th'[t].cur.hi = m.hi /\ W + n < m.hi
  <2>1. CASE n = Size(m)
    <3>1. W + n = m.hi
      BY <2>1, <1>4
    <3> QED
      BY <3>1, <2>1, <1>0
  <2>2. CASE n # Size(m)
    <3>1. th'[t].cur.lo = m.lo + n /\ th'[t].cur.hi = m.hi
      BY <2>2, <1>0 DEF Messages
    <3>2. W + n < m.hi /\ W + n + 1 # 1
      BY <2>2, <1>3, <1>4
    <3>3. th'[t].cur # NoMsg
      BY <3>1, <3>2, <1>4 DEF NoMsg
    <3> QED
      BY <3>1, <3>2, <3>3, <2>2, <1>4
  <2> QED
    BY <2>1, <2>2
<1>8. EndsAt(e)'
  <2>1. \A u \in Threads : th'[u].pc = th[u].pc /\ th'[u].own = th[u].own
    BY <1>0
  <2> QED
    BY <2>1, <1>0 DEF FlowTo, EndsAt, Reserve
<1>p. Pushing'
  BY <1>0 DEF FlowTo, Pushing
<1>9. CASE th[t].pc = "direct"
  <2>1. mutex = t /\ queue = <<>> /\ m.hi = total /\ amount = 0
    BY <1>9, <1>2, ReserveLocks DEF FlowTo, Direct, m
  <2>2. \A u \in Threads : (u # t => th[u].pc # "direct") /\ th[u].pc # "queued"
    BY <2>1, ReserveLocks DEF FlowTo, Peeking
  <2>3. Direct'
    BY <1>0, <1>5, <1>7, <2>1, <2>2 DEF Direct
  <2>4. Peeking'
    BY <1>0, <1>9, <2>2 DEF Peeking
  <2>5. Chain' /\ QueueEnds(e)' /\ QueueBegins'
    BY <1>0, <1>9, <2>1 DEF FlowTo, Chain, QueueEnds, QueueBegins
  <2> QED
    BY <1>6, <1>8, <1>p, <2>3, <2>4, <2>5 DEF FlowTo
<1>10. CASE th[t].pc = "queued"
  <2>1. /\ queue # <<>> /\ m.hi = queue[1].hi /\ th[t].size = queue[1].hi - queue[1].lo + 1
        /\ \A u \in Threads \ {t} : th[u].pc \notin {"direct", "queued"}
    BY <1>10, <1>2 DEF FlowTo, Peeking, Direct, m
  <2>3. Direct'
    BY <1>0, <1>10, <2>1 DEF Direct
  <2>4. Peeking'
    BY <1>0, <1>5, <1>7, <2>1 DEF Peeking
  <2>5. Chain' /\ QueueEnds(e)' /\ QueueBegins'
    BY <1>0, <1>10, <2>1 DEF FlowTo, Chain, QueueEnds, QueueBegins
  <2> QED
    BY <1>6, <1>8, <1>p, <2>3, <2>4, <2>5 DEF FlowTo
<1> QED
  BY <1>0, <1>9, <1>10

LEMMA SendInOrder ==
  ASSUME TypeOK, PollCalls, Locking, InOrder, NEW t \in Threads, Send(t) \/ SendCall(t)
  PROVE  InOrder'
<1> SUFFICES ASSUME ~raced' PROVE (wire' = [i \in 1..Len(wire') |-> i]) /\ (conn' # "dead" => Flow')
  BY DEF InOrder
<1>0. conn' = conn
  BY SendMoves DEF netVars
<1>1. ~raced
  <2>1. CASE FlushPeek(t)
    BY <2>1, PeekRaces
  <2>2. CASE ~FlushPeek(t)
    <3>1. raced' = raced
      BY <2>2 DEF Send, SendCall, SendThrows, SendLocks, FlushDone, Pop, Exchange, Push,
         SendSetPoll, SendReturns, Write
    <3> QED
      BY <3>1
  <2> QED
    BY <2>1, <2>2
<1>2. wire = [i \in 1..Len(wire) |-> i] /\ (conn # "dead" => Flow)
  BY <1>1 DEF InOrder
<1>3. CASE \E n \in Bytes : Write(t, n)
  <2> PICK n \in Bytes : Write(t, n)
    BY <1>3
  <2>1. conn # "dead"
    BY DEF Write
  <2> PICK e \in Nat : FlowTo(e)
    BY <2>1, <1>2 DEF Flow
  <2>2. FlowTo(e)' /\ wire' = [i \in 1..Len(wire') |-> i]
    BY <1>2, WriteFlow
  <2> QED
    BY <2>2 DEF Flow
<1>4. CASE ~\E n \in Bytes : Write(t, n)
  <2>1. wire' = wire
    BY <1>4 DEF Send, SendCall, SendThrows, SendLocks, FlushDone, FlushPeek, Pop, Exchange, Push,
       SendSetPoll, SendReturns
  <2>2. ASSUME conn # "dead" PROVE Flow'
    <3> PICK e \in Nat : FlowTo(e)
      BY <2>2, <1>2 DEF Flow
    <3>1. CASE FlushDone(t)
      BY <3>1, FlushDoneFlow
    <3>2. CASE Push(t)
      <4>1. FlowTo(total)'
        BY <3>2, PushFlow
      <4>2. total' \in Nat
        BY <3>2 DEF Push, TypeOK
      <4> QED
        BY <4>1, <4>2 DEF Flow
    <3>3. CASE ~FlushDone(t) /\ ~Push(t)
      <4>1. FlowTo(e)'
        BY <3>3, <1>4, <2>2, CallFlow, LocksFlow, PeekFlow, PopFlow, ExchangeFlow, ReturnsFlow DEF Send
      <4> QED
        BY <4>1 DEF Flow
    <3> QED
      BY <3>1, <3>2, <3>3
  <2> QED
    BY <2>1, <2>2, <1>0, <1>2
<1> QED
  BY <1>3, <1>4

LEMMA PollInOrder ==
  ASSUME TypeOK, PollCalls, OneAttempt, InOrder, Callback \/ Event
  PROVE  InOrder'
<1>1. UNCHANGED <<raced, wire, queue, amount, total>> /\ (conn' # "dead" => conn # "dead")
  BY DEF Callback, ConnectedReturns, TimeoutReturns, InReturns, OutReturns, OutFails,
     Disconnect, CallbackEnds, Event, AttemptEnds, Connects, PollTimeout, PollOut, PollError, PollIn,
     netVars, sendVars, OneAttempt, Attempting
<1>2. CASE conn' = "dead"
  BY <1>1, <1>2 DEF InOrder
<1>3. CASE raced
  BY <1>1, <1>3 DEF InOrder
<1>4. CASE conn' # "dead" /\ ~raced
  <2> PICK e \in Nat : FlowTo(e)
    BY <1>1, <1>4 DEF InOrder, Flow
  <2>1. CASE OutFails
    BY <2>1, <1>4 DEF OutFails, netVars
  <2>2. CASE ~OutFails
    <3>1. cb = "out" => th[Poll].pc \in {"return", "again"} \/ th[Poll].pc = "idle"
      BY <2>2 DEF Callback, ConnectedReturns, TimeoutReturns, InReturns, OutReturns,
         Disconnect, CallbackEnds, Event, AttemptEnds, Connects, PollTimeout, PollOut, PollError, PollIn, Polled
    <3>2. FlowTo(e)'
      BY <3>1, <1>1, PollMoves, SameFlow DEF PollCalls, Idle
    <3> QED
      BY <3>2, <1>1 DEF InOrder, Flow
  <2> QED
    BY <2>1, <2>2
<1> QED
  BY <1>2, <1>3, <1>4

LEMMA InOrderStep ==
  ASSUME TypeOK, PollCalls, Locking, OneAttempt, InOrder, [Next]_vars
  PROVE  InOrder'
<1>0. ASSUME UNCHANGED sendVars, conn' # "dead" => conn # "dead" PROVE InOrder'
  <2>1. UNCHANGED <<queue, amount, total, wire, th, raced>>
    BY <1>0 DEF sendVars
  <2>2. \A e \in Nat : FlowTo(e) => FlowTo(e)'
    BY <2>1, SameFlow
  <2>3. Flow => Flow'
    BY <2>2 DEF Flow
  <2> QED
    BY <1>0, <2>1, <2>3 DEF InOrder
<1>1. CASE Start \/ Task \/ Release \/ Close \/ \E c \in {"half", "dead"} : Breaks(c)
  <2>1. UNCHANGED sendVars
    BY <1>1, NetMoves DEF sendVars
  <2>2. conn' # "dead" => conn # "dead"
    BY <1>1 DEF Start, Task, TaskDropped, Resolve, AttemptNone, AttemptFails, AttemptConnects,
       Release, Close, Breaks, netVars
  <2> QED
    BY <2>1, <2>2, <1>0
<1>2. CASE UNCHANGED vars
  BY <1>2, <1>0 DEF vars, netVars
<1> QED
  BY <1>1, <1>2, SendInOrder, PollInOrder DEF Next

LEMMA InOrderHolds ==
  ASSUME TypeOK, InOrder
  PROVE  WireInOrder
<1> SUFFICES ASSUME ~raced, conn # "dead", \A t \in Threads : th[t].pc \in {"idle", "lock"}
             PROVE  Holds(queue, Len(wire), total) /\ amount = total - Len(wire)
  BY DEF InOrder, WireInOrder
<1> PICK e \in Nat : FlowTo(e)
  BY DEF InOrder, Flow
<1>1. e = total /\ \A t \in Threads : th[t].pc \notin {"direct", "queued"}
  BY DEF FlowTo, EndsAt, Reserve
<1>2. Len(wire) \in Nat /\ queue \in Seq(Messages) /\ DOMAIN queue = 1..Len(queue)
  BY DEF TypeOK
<1>3. CASE queue = <<>>
  BY <1>1, <1>2, <1>3 DEF FlowTo, QueueEnds, Holds
<1>4. CASE queue # <<>>
  <2>1. queue[1].lo = Len(wire) + 1 /\ queue[Len(queue)].hi = e /\ amount = e + 1 - queue[1].lo
    BY <1>1, <1>4 DEF FlowTo, QueueBegins, QueueEnds
  <2>2. Holds(queue, Len(wire), total)
    <3>1. ASSUME NEW i \in 1..Len(queue)
          PROVE  queue[i].lo <= queue[i].hi /\ queue[i].lo = 1 + (IF i = 1 THEN Len(wire) ELSE queue[i - 1].hi)
      <4>1. i # 1 => i > 1 /\ i - 1 \in 1..Len(queue)
        BY <1>2
      <4>2. i # 1 => queue[i - 1].hi \in Int /\ queue[i].lo = queue[i - 1].hi + 1
        BY <4>1, <1>2, SizeIs DEF FlowTo, Chain
      <4> QED
        BY <4>2, <1>2, <2>1 DEF FlowTo, Chain
    <3> QED
      BY <3>1, <1>1, <1>2, <1>4, <2>1 DEF Holds
  <2> QED
    BY <1>1, <1>2, <2>1, <2>2
<1> QED
  BY <1>3, <1>4

\* For any number of threads and messages, and wherever the socket is full: until
\* process() and a send() have been in trySendQueue() together, bytes reach the
\* socket in the order of the calls of send(), and what is not on the wire is in the
\* queue, in order, and counted by mBufferedAmount.
THEOREM BytesInOrder == Spec => []WireInOrder
<1>1. Init => InOrder
  <2> SUFFICES ASSUME Init PROVE InOrder
    OBVIOUS
  <2>1. \A t \in Threads : th[t].pc = "idle"
    BY DEF Init, Idle
  <2>2. FlowTo(0)
    <3>1. queue = <<>> /\ Len(queue) = 0 /\ Len(wire) = 0 /\ amount = 0 /\ total = 0
      BY DEF Init
    <3>2. EndsAt(0) /\ Pushing /\ Direct /\ Peeking
      BY <2>1, <3>1 DEF EndsAt, Pushing, Direct, Peeking, Reserve
    <3>3. Chain /\ QueueEnds(0) /\ QueueBegins
      BY <3>1 DEF Chain, QueueEnds, QueueBegins
    <3> QED
      BY <3>2, <3>3 DEF FlowTo
  <2>3. wire = [i \in 1..Len(wire) |-> i]
    <3>1. wire = <<>> /\ Len(wire) = 0
      BY DEF Init
    <3>2. [i \in 1..0 |-> i] = <<>>
      OBVIOUS
    <3> QED
      BY <3>1, <3>2
  <2> QED
    BY <2>2, <2>3 DEF InOrder, Flow
<1> QED
  BY <1>1, InOrderStep, InOrderHolds, ControlInductive, PTL DEF Spec

=============================================================================
