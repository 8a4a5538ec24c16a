---------------------------- MODULE TlsTransport ----------------------------
(***************************************************************************)
(* The receiving path over TLS (src/impl/tlstransport.cpp): the poll thread *)
(* puts what TCP brings into mIncomingQueue and sees to it that a task     *)
(* doRecv() is in the ThreadPool; workers run doRecv(), one at a time, and *)
(* carry the messages on into the Channel.                                 *)
(*                                                                         *)
(* The TLS library is external: a chunk of the peer is part of something,  *)
(* ends the TLS handshake, holds the answer to the WebSocket handshake or  *)
(* one message, or closes or makes the library fail.  An idle chunk, of     *)
(* size zero, says that the read timeout of TCP has passed.  The three     *)
(* backends differ in how doRecv() asks the queue: OpenSSL is given what   *)
(* was taken; GnuTLS and Mbed TLS take by ReadCallback().                  *)
(***************************************************************************)
EXTENDS Channel

CONSTANTS
  Poll,       \* the poll thread, in incoming()
  Stopper,    \* the thread of the TearDownProcessor, in stop()
  Nobody,     \* mRecvMutex is free
  Setups,     \* instances: the TLS library built with, what may come in, whether
              \* stop() is called, and what the application calls
  InLimit     \* RECV_QUEUE_LIMIT of mIncomingQueue

ASSUME TlsAssumption == 
  /\ InLimit \in Nat \ {0} /\ Nobody \notin Carriers /\ Poll # Stopper
  /\ \A u \in Setups : u.backend \in {"openssl", "gnutls", "mbedtls"}

Chunks == [kind : {"part", "finished", "open", "data", "close", "idle", "end"}, id : 0..MaxMsgs]
NoChunk == [kind |-> "none", id |-> 0]

VARIABLES
  setup,     \* the instance: a member of Setups
  st,        \* state()
  iq,        \* mIncomingQueue
  stopping,  \* its mStopping
  count,     \* mPendingRecvCount
  tasks,     \* tasks doRecv() in the pool
  lock,      \* who has mRecvMutex
  tw,        \* per worker: where it is in doRecv()
  ts,        \* of Poll and Stopper: where they are
  chunk,     \* what Poll has in incoming()
  phase,     \* how far the peer has come
  brought,   \* messages the peer has sent
  closed,    \* has doRecv() met the end the peer made
  idled,     \* has it met an idle chunk
  reports    \* ends reported to upper layers: Failed, or recv(nullptr)

tlsVars == <<setup, st, iq, stopping, count, tasks, lock, tw, ts, chunk, phase, brought, closed, idled, reports>>
vars    == <<tlsVars, chVars>>

backend == setup.backend

-----------------------------------------------------------------------------
(* incoming(), stop(), enqueueRecv()                                       *)

Move(t, pc) == ts' = [ts EXCEPT ![t] = pc]

\* OpenSSL: start() writes the first flight itself.
StartHandshake ==
  /\ backend = "openssl" /\ st = "Disconnected" /\ phase = "none"
  /\ phase' = "handshake" /\ st' = "Connecting" /\ ts[Poll] = "idle"
  /\ UNCHANGED <<setup, iq, stopping, count, tasks, lock, tw, ts, chunk, brought, closed, idled, reports, chVars>>

\* GnuTLS and Mbed TLS: start() leaves it to a task.
Start ==
  /\ backend # "openssl" /\ st = "Disconnected" /\ phase = "none"
  /\ phase' = "handshake" /\ st' = "Connecting" /\ ts[Poll] = "idle" /\ Move(Poll, "startTest")
  /\ UNCHANGED <<setup, iq, stopping, count, tasks, lock, tw, chunk, brought, closed, idled, reports, chVars>>

\* What may come next: the peer keeps to the order of the protocol.
Sends(c) ==
  CASE c.kind = "finished" -> phase = "handshake"
    [] c.kind = "open"     -> phase = "connected"
    [] c.kind = "data"     -> phase = "open" /\ c.id = brought + 1
    [] c.kind = "end"      -> phase # "none"   \* TCP may say so twice
    [] OTHER               -> phase \notin {"none", "ended"}

After(c) == CASE c.kind = "finished" -> "connected"
              [] c.kind = "open"     -> "open"
              [] c.kind = "end"      -> "ended"
              [] OTHER               -> phase

\* The lower layer calls incoming(), unless stop() has unregistered it.
Incoming(c) ==
  /\ ts[Poll] = "idle" /\ ts[Stopper] = "none" /\ c.kind \in setup.kinds /\ Sends(c) /\ (c.kind = "data" <=> c.id # 0)
  /\ phase' = After(c) /\ brought' = IF c.kind = "data" THEN c.id ELSE brought
  /\ chunk' = c /\ Move(Poll, "push")
  /\ UNCHANGED <<setup, st, iq, stopping, count, tasks, lock, tw, closed, idled, reports, chVars>>

\* Mutant: no task is asked for.
IncomingPush_NoTask ==
  /\ ts[Poll] = "push" /\ (stopping \/ Len(iq) < InLimit \/ chunk.kind = "end")
  /\ iq' = IF stopping \/ chunk.kind = "end" THEN iq ELSE Append(iq, chunk)
  /\ stopping' = (stopping \/ chunk.kind = "end")
  /\ chunk' = NoChunk /\ Move(Poll, "idle")
  /\ UNCHANGED <<setup, st, count, tasks, lock, tw, phase, brought, closed, idled, reports, chVars>>

\* push(): waits while the queue is full, drops when it is stopping; the end
\* (nullptr) stops it.
IncomingPush ==
  /\ ts[Poll] = "push" /\ (stopping \/ Len(iq) < InLimit \/ chunk.kind = "end")
  /\ iq' = IF stopping \/ chunk.kind = "end" THEN iq ELSE Append(iq, chunk)
  /\ stopping' = (stopping \/ chunk.kind = "end")
  /\ chunk' = NoChunk /\ Move(Poll, "test")
  /\ UNCHANGED <<setup, st, count, tasks, lock, tw, phase, brought, closed, idled, reports, chVars>>

\* stop(): unregisterIncoming() waits until incoming() has returned.
Stop ==
  /\ setup.stops /\ ts[Stopper] = "none" /\ phase # "none" /\ ts[Poll] \in {"idle", "startTest", "startTask"}
  /\ Move(Stopper, "stop")
  /\ UNCHANGED <<setup, st, iq, stopping, count, tasks, lock, tw, chunk, phase, brought, closed, idled, reports, chVars>>

StopQueue ==
  /\ ts[Stopper] = "stop" /\ stopping' = TRUE /\ Move(Stopper, "test")
  /\ UNCHANGED <<setup, st, iq, count, tasks, lock, tw, chunk, phase, brought, closed, idled, reports, chVars>>

\* Mutant: nothing to do if doRecv() is running.
EnqueueTest_Busy(t) ==
  /\ ts[t] \in {"test", "startTest"}
  /\ Move(t, IF count > 0 \/ lock # Nobody THEN "idle" ELSE IF ts[t] = "test" THEN "task" ELSE "startTask")
  /\ UNCHANGED <<setup, st, iq, stopping, count, tasks, lock, tw, chunk, phase, brought, closed, idled, reports, chVars>>

\* enqueueRecv(): nothing to do if a task has yet to start ...
EnqueueTest(t) ==
  /\ ts[t] \in {"test", "startTest"}
  /\ Move(t, IF count > 0 THEN "idle" ELSE IF ts[t] = "test" THEN "task" ELSE "startTask")
  /\ UNCHANGED <<setup, st, iq, stopping, count, tasks, lock, tw, chunk, phase, brought, closed, idled, reports, chVars>>

\* ... else another one is enqueued.
EnqueueTask(t) ==
  /\ ts[t] \in {"task", "startTask"}
  /\ count' = count + 1 /\ tasks' = tasks + 1 /\ Move(t, "idle")
  /\ UNCHANGED <<setup, st, iq, stopping, lock, tw, chunk, phase, brought, closed, idled, reports, chVars>>

-----------------------------------------------------------------------------
(* doRecv()                                                                *)

Step(k, pc) == tw' = [tw EXCEPT ![k] = pc]
Returns(k)  == tw' = [tw EXCEPT ![k] = "idle"] /\ lock' = Nobody

\* A worker takes the task and waits for mRecvMutex.
Take(k) ==
  /\ tw[k] = "idle" /\ tasks > 0 /\ tasks' = tasks - 1 /\ Step(k, "lock")
  /\ UNCHANGED <<setup, st, iq, stopping, count, lock, ts, chunk, phase, brought, closed, idled, reports, chVars>>

Active == st \in {"Connecting", "Connected"}

\* Mutant: mRecvMutex is not taken.
Begin_NoLock(k) ==
  /\ tw[k] = "lock" /\ count' = count - 1
  /\ Step(k, IF Active THEN IF backend = "openssl" THEN "test" ELSE "pop" ELSE "idle")
  /\ UNCHANGED <<setup, st, iq, stopping, tasks, lock, ts, chunk, phase, brought, closed, idled, reports, chVars>>

\* GnuTLS has no test of the state: after the end it comes to the end again.
Begin(k) ==
  /\ tw[k] = "lock" /\ lock = Nobody /\ count' = count - 1
  /\ IF Active \/ backend = "gnutls"
     THEN /\ lock' = k
          /\ Step(k, IF ~Active THEN "end" ELSE IF backend = "openssl" THEN "test" ELSE "pop")
     ELSE Returns(k)
  /\ UNCHANGED <<setup, st, iq, stopping, tasks, ts, chunk, phase, brought, closed, idled, reports, chVars>>

\* Mutant: a queue that is stopping is not running.
Test_Stopping(k) ==
  /\ tw[k] = "test"
  /\ IF ~stopping
     THEN IF backend = "openssl" THEN Step(k, "pop") /\ UNCHANGED lock ELSE Returns(k)
     ELSE Step(k, "end") /\ UNCHANGED lock
  /\ UNCHANGED <<setup, st, iq, stopping, count, tasks, ts, chunk, phase, brought, closed, idled, reports, chVars>>

\* mIncomingQueue.running(): OpenSSL asks before it takes, the others after they
\* found nothing.
Test(k) ==
  /\ tw[k] = "test"
  /\ IF iq # <<>> \/ ~stopping
     THEN IF backend = "openssl" THEN Step(k, "pop") /\ UNCHANGED lock ELSE Returns(k)
     ELSE Step(k, "end") /\ UNCHANGED lock
  /\ UNCHANGED <<setup, st, iq, stopping, count, tasks, ts, chunk, phase, brought, closed, idled, reports, chVars>>

PopNone(k) ==
  /\ tw[k] = "pop" /\ iq = <<>>
  /\ IF backend = "openssl" THEN Returns(k) ELSE Step(k, "test") /\ UNCHANGED lock
  /\ UNCHANGED <<setup, st, iq, stopping, count, tasks, ts, chunk, phase, brought, closed, idled, reports, chVars>>

Again(k) == Step(k, IF backend = "openssl" THEN "test" ELSE "pop")

\* A chunk that leads nowhere above: part of a record.
PopPart(k) ==
  /\ tw[k] = "pop" /\ iq # <<>> /\ Head(iq).kind = "part"
  /\ iq' = Tail(iq) /\ Again(k)
  /\ UNCHANGED <<setup, st, stopping, count, tasks, lock, ts, chunk, phase, brought, closed, idled, reports, chVars>>

\* A chunk of size zero is passed through, and WsTransport answers with a ping once
\* it is connected.  Mbed TLS is inside the library then, and mSslMutex, which the
\* ping's send() wants, locked.  ReadCallback() keeps the chunk as mIncomingMessage.
PopIdle(k) ==
  /\ tw[k] = "pop" /\ iq # <<>> /\ Head(iq).kind = "idle"
  /\ iq' = Tail(iq) /\ idled' = TRUE
  /\ Step(k, CASE backend = "openssl"           -> "test"
               [] backend = "mbedtls" /\ opened -> "self"
               [] OTHER                         -> "spent")
  /\ UNCHANGED <<setup, st, stopping, count, tasks, lock, ts, chunk, phase, brought, closed, reports, chVars>>

\* With no chunk behind it, ReadCallback() returns its zero bytes: the end of input.
PopSpent(k) ==
  /\ tw[k] = "spent" /\ Step(k, IF iq = <<>> THEN "end" ELSE "pop")
  /\ UNCHANGED <<setup, st, iq, stopping, count, tasks, lock, ts, chunk, phase, brought, closed, idled, reports, chVars>>

\* The handshake is finished: changeState(Connected), and on.
PopFinished(k) ==
  /\ tw[k] = "pop" /\ iq # <<>> /\ Head(iq).kind = "finished"
  /\ iq' = Tail(iq) /\ st' = "Connected" /\ Again(k)
  /\ UNCHANGED <<setup, stopping, count, tasks, lock, ts, chunk, phase, brought, closed, idled, reports, chVars>>

\* recv(): the upper layers open the channel, or bring it a message.
PopUp(k) ==
  /\ tw[k] = "pop" /\ iq # <<>> /\ Head(iq).kind \in {"open", "data"}
  /\ iq' = Tail(iq) /\ Step(k, "up")
  /\ IF Head(iq).kind = "open" THEN Goto(k, "open") /\ UNCHANGED held
     ELSE Goto(k, "push") /\ held' = [held EXCEPT ![k] = <<[id |-> Head(iq).id, size |-> 1]>>]
  /\ UNCHANGED <<setup, st, stopping, count, tasks, lock, ts, chunk, phase, brought, closed, idled, reports>>
  /\ UNCHANGED <<rq, amount, opened, msgCb, availCb, stored, got, quiet, crossed, unset>>

UpReturns(k) ==
  /\ tw[k] = "up" /\ ct[k] = "idle" /\ Again(k)
  /\ UNCHANGED <<setup, st, iq, stopping, count, tasks, lock, ts, chunk, phase, brought, closed, idled, reports, chVars>>

\* The peer closes, or the library throws; the alert stops the queue of OpenSSL.
PopClose(k) ==
  /\ tw[k] = "pop" /\ iq # <<>> /\ Head(iq).kind = "close"
  /\ iq' = Tail(iq) /\ Step(k, "end") /\ closed' = TRUE
  /\ stopping' \in {stopping, stopping \/ backend = "openssl"}
  /\ UNCHANGED <<setup, st, count, tasks, lock, ts, chunk, phase, brought, idled, reports, chVars>>

\* Mutant: the end of a connected transport is not reported.
End_Silent(k) ==
  /\ tw[k] = "end" /\ st' = (IF st = "Connected" THEN "Connected" ELSE "Failed")
  /\ reports' = IF st # "Failed" THEN reports + 1 ELSE reports
  /\ Returns(k)
  /\ UNCHANGED <<setup, iq, stopping, count, tasks, ts, chunk, phase, brought, closed, idled, chVars>>

\* changeState(Disconnected) and recv(nullptr), or changeState(Failed).
End(k) ==
  /\ tw[k] = "end" /\ st' = (IF st = "Connected" THEN "Disconnected" ELSE "Failed")
  /\ reports' = IF st # "Failed" THEN reports + 1 ELSE reports
  /\ Returns(k)
  /\ UNCHANGED <<setup, iq, stopping, count, tasks, ts, chunk, phase, brought, closed, idled, chVars>>

-----------------------------------------------------------------------------
Init ==
  /\ setup \in Setups /\ st = "Disconnected" /\ iq = <<>> /\ stopping = FALSE
  /\ count = 0 /\ tasks = 0 /\ lock = Nobody /\ tw = [k \in Carriers |-> "idle"]
  /\ ts = [t \in {Poll, Stopper} |-> IF t = Poll THEN "idle" ELSE "none"] /\ chunk = NoChunk /\ phase = "none"
  /\ brought = 0 /\ closed = FALSE /\ idled = FALSE /\ reports = 0
  /\ ChannelInit

DoRecv(k) ==
  \/ Begin(k) \/ Test(k) \/ PopNone(k) \/ PopPart(k) \/ PopIdle(k) \/ PopSpent(k)
  \/ PopFinished(k) \/ PopUp(k) \/ UpReturns(k) \/ PopClose(k) \/ End(k)

EnqueueRecv == \E t \in {Poll, Stopper} : EnqueueTest(t) \/ EnqueueTask(t)

Next ==
  \/ StartHandshake \/ Start \/ IncomingPush \/ Stop \/ StopQueue \/ EnqueueRecv
  \/ \E c \in Chunks : Incoming(c)
  \/ \E k \in Carriers : Take(k) \/ DoRecv(k)
  \/ (\E t \in Threads : Progress(t)) /\ UNCHANGED tlsVars
  \/ (\E t \in Apps : Application(t, setup.calls)) /\ UNCHANGED tlsVars

Spec == Init /\ [][Next]_vars

\* Threads are scheduled, and the application receives what is there as long as
\* it has no message callback.
FairSpec ==
  /\ Spec /\ WF_vars(IncomingPush) /\ WF_vars(StopQueue) /\ WF_vars(EnqueueRecv)
  /\ \A k \in Carriers : WF_vars(Take(k)) /\ SF_vars(DoRecv(k))
  /\ \A t \in Threads : WF_vars(Progress(t) /\ UNCHANGED tlsVars)
  /\ \A t \in Apps : SF_vars(rq # <<>> /\ Receive(t) /\ UNCHANGED tlsVars)

-----------------------------------------------------------------------------
(* Properties                                                              *)

\* A worker of Mbed TLS waits for the mSslMutex that it holds.
SelfLocked == \E k \in Carriers : tw[k] = "self"

\* Nothing that came in waits in the queue without a task that will look for it,
\* though enqueueRecv() tests and counts in two steps, and doRecv() counts down
\* before it looks.  A worker that has locked itself out looks no more.
NoChunkIsStuck ==
  (Active /\ ~SelfLocked /\ (iq # <<>> \/ stopping)) =>
    \/ tasks > 0
    \/ \E k \in Carriers : tw[k] # "idle"
    \/ \E t \in {Poll, Stopper} : ts[t] \notin {"none", "idle"}

Ended == phase # "none" /\ ~Active

\* The end of the connection is reported once; and unless the peer closes, only
\* after all that came in has been passed on and the queue was stopped.  Only GnuTLS,
\* whose doRecv() does not look at the state, may report a failure after it, and an
\* idle chunk may end the connection of GnuTLS and Mbed TLS.
DrainedBeforeEnd ==
  /\ reports <= 1 \/ (backend = "gnutls" /\ st = "Failed")
  /\ (Ended /\ ~closed /\ ~(idled /\ backend # "openssl")) => (stopping /\ iq = <<>>)

\* "Pass zero-sized messages through": an idle connection is not ended by it.
IdlePassesThrough == (Ended /\ ~closed) => stopping

\* Once the layer below has ended, or stop() was called, the end is reported: full
\* queues do not stand in the way as long as the application receives.  A worker
\* that waits for its own mSslMutex reports nothing.
EndIsReported == (stopping /\ Active) ~> (~Active \/ SelfLocked)

\* What the peer has sent is given to the application, unless the connection ends,
\* a worker has locked itself out, or the order was lost.
BroughtIsGiven ==
  \A n \in Ids : brought = n ~> (stopping \/ ~Active \/ SelfLocked \/ unset \/ crossed \/ Len(got) >= n)

=============================================================================
