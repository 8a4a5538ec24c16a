-------------------------- MODULE TlsTransportProofs --------------------------
(***************************************************************************)
(* Proofs about TlsTransport and the Channel it brings messages to, for    *)
(* each backend, any workers, threads of the application, limits of the    *)
(* queues and numbers of messages.                                         *)
(***************************************************************************)
EXTENDS TlsTransport, FiniteSetTheorems, SequenceTheorems, TLAPS

Message == [id : Nat, size : {0, 1}]
Inside  == {"test", "pop", "spent", "self", "up", "end"}   \* where doRecv() has mRecvMutex

TlsTypes ==
  /\ setup \in Setups /\ st \in {"Disconnected", "Connecting", "Connected", "Failed"}
  /\ iq \in Seq(Chunks) /\ count \in Int /\ tasks \in Nat /\ lock \in Carriers \cup {Nobody}
  /\ tw \in [Carriers -> {"idle", "lock"} \cup Inside]
  /\ ts \in [{Poll, Stopper} -> {"none", "idle", "push", "stop", "test", "task", "startTest", "startTask"}]
  /\ chunk \in Chunks \cup {NoChunk} /\ brought \in Nat /\ reports \in Nat
  /\ phase \in {"none", "handshake", "connected", "open", "ended"}
  /\ ts[Poll] = "push" => chunk \in Chunks

ChannelTypes ==
  /\ rq \in Seq(Message) /\ amount \in Int /\ got \in Seq(Message)
  /\ ct \in [Threads -> {"idle", "push", "available", "open", "flush", "loop", "take", "call", "discard"}]
  /\ held \in [Threads -> Seq(Message)]

FlagsOK ==
  /\ stopping \in BOOLEAN /\ closed \in BOOLEAN /\ idled \in BOOLEAN /\ opened \in BOOLEAN
  /\ msgCb \in BOOLEAN /\ availCb \in BOOLEAN /\ stored \in BOOLEAN /\ quiet \in BOOLEAN
  /\ crossed \in BOOLEAN /\ unset \in BOOLEAN

TypeOK == TlsTypes /\ ChannelTypes

-----------------------------------------------------------------------------
(* The steps                                                               *)

ChannelStep ==
  /\ (\E t \in Threads : Progress(t)) \/ (\E t \in Apps : Application(t, setup.calls))
  /\ UNCHANGED tlsVars

PollStep ==
  \/ StartHandshake \/ Start \/ IncomingPush \/ Stop \/ StopQueue \/ EnqueueRecv
  \/ \E c \in Chunks : Incoming(c)

WorkerStep == \E k \in Carriers : Take(k) \/ DoRecv(k)

LEMMA Steps == [Next]_vars => PollStep \/ WorkerStep \/ ChannelStep \/ UNCHANGED vars
BY DEF Next, PollStep, WorkerStep, ChannelStep

LEMMA ThreadsAre ==
  /\ \A k \in Carriers : k \in Threads /\ k \notin Apps
  /\ \A t \in Apps : t \in Threads /\ t \notin Carriers
  /\ \A t \in Threads : t \in Carriers \/ t \in Apps
  /\ Nobody \notin Carriers /\ Poll # Stopper
BY ChannelAssumption, TlsAssumption DEF Threads

LEMMA IncomingIs ==
  ASSUME TlsTypes, NEW c \in Chunks, Incoming(c)
  PROVE  /\ phase # "none" /\ phase' # "none" /\ phase' \in {"none", "handshake", "connected", "open", "ended"}
         /\ c.kind = "data" => c.id = brought + 1 /\ brought' = c.id
         /\ c.kind # "data" => brought' = brought
<1>1. c.kind \in {"part", "finished", "open", "data", "close", "idle", "end"}
  BY DEF Chunks
<1>2. phase # "none" /\ phase' # "none" /\ phase' \in {"none", "handshake", "connected", "open", "ended"}
  BY <1>1 DEF Incoming, Sends, After, TlsTypes
<1>3. c.kind = "data" => c.id = brought + 1
  BY DEF Incoming, Sends
<1> QED
  BY <1>2, <1>3 DEF Incoming

LEMMA GotoIs ==
  ASSUME ChannelTypes, NEW t \in Threads, NEW pc, Goto(t, pc)
  PROVE  ct'[t] = pc /\ \A u \in Threads : u # t => ct'[u] = ct[u]
BY DEF ChannelTypes, Goto

LEMMA StepIs ==
  ASSUME TlsTypes, NEW k \in Carriers, NEW pc, tw' = [tw EXCEPT ![k] = pc]
  PROVE  tw'[k] = pc /\ \A u \in Carriers : u # k => tw'[u] = tw[u]
BY DEF TlsTypes

LEMMA MoveIs ==
  ASSUME TlsTypes, NEW t \in {Poll, Stopper}, NEW pc, Move(t, pc)
  PROVE  ts'[t] = pc /\ \A u \in {Poll, Stopper} : u # t => ts'[u] = ts[u]
BY DEF TlsTypes, Move

-----------------------------------------------------------------------------
(* Type correctness                                                        *)

LEMMA InitTypes ==
  ASSUME Init
  PROVE  TypeOK /\ ts[Poll] = "idle" /\ ts[Stopper] = "none"
<1>1. ts[Poll] = "idle" /\ ts[Stopper] = "none"
  BY TlsAssumption DEF Init
<1>2. TlsTypes
  BY <1>1 DEF Init, TlsTypes
<1>3. ChannelTypes
  BY DEF Init, ChannelInit, ChannelTypes
<1> QED
  BY <1>1, <1>2, <1>3 DEF TypeOK

LEMMA PollTypes ==
  ASSUME TlsTypes, PollStep
  PROVE  TlsTypes'
<1> DEFINE Pcs == {"none", "idle", "push", "stop", "test", "task", "startTest", "startTask"}
<1>0. ASSUME NEW t \in {Poll, Stopper}, NEW pc \in Pcs, Move(t, pc) PROVE ts' \in [{Poll, Stopper} -> Pcs]
  BY <1>0 DEF TlsTypes, Move
<1>a. Poll \in {Poll, Stopper} /\ Stopper \in {Poll, Stopper} /\ Poll # Stopper
  BY TlsAssumption
<1>1. CASE StartHandshake
  BY <1>1 DEF StartHandshake, TlsTypes
<1>2. CASE Start
  BY <1>0, <1>a, <1>2, MoveIs DEF Start, TlsTypes
<1>3. CASE IncomingPush
  <2>1. iq' \in Seq(Chunks)
    BY <1>3 DEF IncomingPush, TlsTypes
  <2> QED
    BY <1>0, <1>a, <1>3, <2>1, MoveIs DEF IncomingPush, TlsTypes
<1>4. CASE Stop \/ StopQueue
  BY <1>0, <1>a, <1>4, MoveIs DEF Stop, StopQueue, TlsTypes
<1>5. CASE EnqueueRecv
  <2> PICK t \in {Poll, Stopper} : EnqueueTest(t) \/ EnqueueTask(t)
    BY <1>5 DEF EnqueueRecv
  <2>1. PICK pc \in {"idle", "task", "startTask"} : Move(t, pc)
    BY DEF EnqueueTest, EnqueueTask
  <2>2. ts' \in [{Poll, Stopper} -> Pcs]
    BY <1>0, <2>1
  <2>3. ts'[Poll] = "push" => ts[Poll] = "push"
    BY <1>a, <2>1, MoveIs
  <2>4. count' \in Int /\ tasks' \in Nat
    BY DEF EnqueueTest, EnqueueTask, TlsTypes
  <2> QED
    BY <2>2, <2>3, <2>4 DEF EnqueueTest, EnqueueTask, TlsTypes
<1>6. CASE \E c \in Chunks : Incoming(c)
  <2> PICK c \in Chunks : Incoming(c)
    BY <1>6
  <2>1. brought' \in Nat /\ c \in Chunks
    BY ChannelAssumption DEF Incoming, Chunks, TlsTypes
  <2> QED
    BY <1>0, <1>a, <2>1, IncomingIs DEF Incoming, TlsTypes
<1> QED
  BY <1>1, <1>2, <1>3, <1>4, <1>5, <1>6 DEF PollStep

\* What a step of a worker that takes something finds.
LEMMA HeadIs ==
  ASSUME TlsTypes, iq # <<>>
  PROVE  Head(iq) \in Chunks /\ Tail(iq) \in Seq(Chunks) /\ Head(iq) = iq[1]
BY DEF TlsTypes

LEMMA WorkerTypes ==
  ASSUME TypeOK, WorkerStep
  PROVE  TypeOK'
<1> DEFINE Pcs == {"idle", "lock"} \cup Inside
<1> PICK k \in Carriers : Take(k) \/ DoRecv(k)
  BY DEF WorkerStep
<1>0. ASSUME NEW pc \in Pcs, Step(k, pc) PROVE tw' \in [Carriers -> Pcs]
  BY <1>0 DEF TypeOK, TlsTypes, Step
<1>1. Returns(k) => tw' \in [Carriers -> Pcs]
  BY DEF TypeOK, TlsTypes, Returns
<1>2. Again(k) => tw' \in [Carriers -> Pcs]
  BY <1>0 DEF Again, Inside
<1>3. CASE Take(k)
  BY <1>3, <1>0 DEF Take, TypeOK, TlsTypes, ChannelTypes, chVars
<1>4. CASE Begin(k)
  <2>1. count' \in Int /\ lock' \in Carriers \cup {Nobody}
    BY <1>4 DEF Begin, TypeOK, TlsTypes, Returns
  <2>2. tw' \in [Carriers -> Pcs]
    BY <1>4, <1>0, <1>1 DEF Begin, Inside
  <2> QED
    BY <1>4, <2>1, <2>2 DEF Begin, TypeOK, TlsTypes, ChannelTypes, chVars
<1>5. CASE Test(k) \/ PopNone(k)
  <2>1. lock' \in Carriers \cup {Nobody}
    BY <1>5 DEF Test, PopNone, TypeOK, TlsTypes, Returns
  <2>2. tw' \in [Carriers -> Pcs]
    BY <1>5, <1>0, <1>1 DEF Test, PopNone, Inside
  <2> QED
    BY <1>5, <2>1, <2>2 DEF Test, PopNone, TypeOK, TlsTypes, ChannelTypes, chVars
<1>6. CASE PopPart(k) \/ PopFinished(k)
  BY <1>6, <1>2, HeadIs, ZenonT(40) DEF PopPart, PopFinished, TypeOK, TlsTypes, ChannelTypes, chVars
<1>7. CASE PopIdle(k) \/ PopSpent(k) \/ PopClose(k)
  <2>1. tw' \in [Carriers -> Pcs]
    BY <1>7, <1>0 DEF PopIdle, PopSpent, PopClose, Inside
  <2> QED
    BY <1>7, <2>1, HeadIs, ZenonT(40) DEF PopIdle, PopSpent, PopClose, TypeOK, TlsTypes, ChannelTypes, chVars
<1>8. CASE PopUp(k)
  <2>1. tw' \in [Carriers -> Pcs] /\ iq' \in Seq(Chunks)
    BY <1>8, <1>0, HeadIs DEF PopUp, Inside, TypeOK
  <2>2. ct' \in [Threads -> {"idle", "push", "available", "open", "flush", "loop", "take", "call", "discard"}]
    BY <1>8, ThreadsAre DEF PopUp, Goto, TypeOK, ChannelTypes
  <2>3. Head(iq).id \in Nat
    BY <1>8, HeadIs, ChannelAssumption DEF PopUp, TypeOK, Chunks
  <2>4. <<[id |-> Head(iq).id, size |-> 1]>> \in Seq(Message)
    BY <2>3 DEF Message
  <2>5. held' \in [Threads -> Seq(Message)]
    BY <1>8, <2>4 DEF PopUp, TypeOK, ChannelTypes
  <2> QED
    BY <1>8, <2>1, <2>2, <2>5 DEF PopUp, TypeOK, TlsTypes, ChannelTypes
<1>9. CASE UpReturns(k)
  BY <1>9, <1>2 DEF UpReturns, TypeOK, TlsTypes, ChannelTypes, chVars
<1>10. CASE End(k)
  <2>1. reports' \in Nat /\ st' \in {"Disconnected", "Connecting", "Connected", "Failed"}
    BY <1>10 DEF End, TypeOK, TlsTypes
  <2> QED
    BY <1>10, <2>1, <1>1 DEF End, Returns, TypeOK, TlsTypes, ChannelTypes, chVars
<1> QED
  BY <1>3, <1>4, <1>5, <1>6, <1>7, <1>8, <1>9, <1>10 DEF DoRecv

-----------------------------------------------------------------------------
(* What the operations of the channel do to its queue                      *)

LEMMA FrontIs ==
  ASSUME ChannelTypes, rq # <<>>
  PROVE  /\ Head(rq) \in Message /\ Head(rq) = rq[1] /\ Len(rq) \in Nat \ {0} /\ 1 \in DOMAIN rq
         /\ Tail(rq) \in Seq(Message) /\ Len(Tail(rq)) = Len(rq) - 1
         /\ \A i \in 1 .. Len(rq) - 1 : Tail(rq)[i] = rq[i + 1]
BY DEF ChannelTypes

LEMMA PopIs ==
  ASSUME ChannelTypes, rq # <<>>, Pop
  PROVE  /\ rq' \in Seq(Message) /\ Len(rq') = Len(rq) - 1
         /\ \A i \in DOMAIN rq' : i + 1 \in DOMAIN rq /\ rq'[i] = rq[i + 1]
         /\ amount' = amount - rq[1].size /\ amount' \in Int
<1>1. rq' \in Seq(Message) /\ Len(rq') = Len(rq) - 1 /\ DOMAIN rq' = 1 .. Len(rq) - 1
  BY FrontIs DEF Pop
<1>2. Len(rq) \in Nat /\ DOMAIN rq = 1 .. Len(rq)
  BY DEF ChannelTypes
<1>3. \A i \in DOMAIN rq' : i + 1 \in DOMAIN rq /\ rq'[i] = rq[i + 1]
  BY <1>1, <1>2, FrontIs DEF Pop
<1>4. rq[1].size \in {0, 1} /\ amount' = amount - rq[1].size
  BY FrontIs DEF Pop, Message
<1> QED
  BY <1>1, <1>3, <1>4 DEF ChannelTypes

LEMMA PeekedIs ==
  ASSUME ChannelTypes, rq # <<>>, rq' = <<Peeked>> \o Tail(rq)
  PROVE  /\ rq' \in Seq(Message) /\ Len(rq') = Len(rq)
         /\ \A i \in DOMAIN rq' : i \in DOMAIN rq /\ rq'[i].id = rq[i].id
         /\ Peeked = Head(rq) => \A i \in DOMAIN rq' : rq'[i] = rq[i]
<1>1. Peeked \in Message /\ Peeked.id = Head(rq).id
  BY FrontIs DEF Peeked, Message
<1>2. <<Peeked>> \in Seq(Message) /\ Len(<<Peeked>>) = 1 /\ <<Peeked>>[1] = Peeked
  BY <1>1
<1> HIDE DEF Peeked
<1>3. rq' \in Seq(Message) /\ Len(rq') = 1 + Len(Tail(rq)) /\ rq'[1] = Peeked
  BY <1>2, FrontIs, ConcatProperties
<1>4. Len(rq') = Len(rq) /\ Len(rq) \in Nat /\ DOMAIN rq' = 1 .. Len(rq) /\ DOMAIN rq = 1 .. Len(rq)
  BY <1>3, FrontIs DEF ChannelTypes
<1>5. ASSUME NEW i \in DOMAIN rq', i # 1 PROVE rq'[i] = rq[i]
  <2>1. i - 1 \in 1 .. Len(rq) - 1 /\ i - Len(<<Peeked>>) = i - 1 /\ i > 1
    BY <1>2, <1>4, <1>5
  <2>2. rq'[i] = Tail(rq)[i - 1]
    BY <1>2, <1>4, <2>1, FrontIs, ConcatProperties
  <2>3. Tail(rq)[i - 1] = rq[(i - 1) + 1] /\ (i - 1) + 1 = i
    BY <1>4, <2>1, FrontIs
  <2> QED
    BY <2>2, <2>3
<1>6. ASSUME NEW i \in DOMAIN rq' PROVE i \in DOMAIN rq /\ rq'[i].id = rq[i].id /\ (Peeked = Head(rq) => rq'[i] = rq[i])
  BY <1>1, <1>3, <1>4, <1>5, FrontIs
<1> QED
  BY <1>3, <1>4, <1>6

LEMMA PushIs ==
  ASSUME ChannelTypes, NEW t \in Threads, Len(held[t]) = 1, rq' = rq \o held[t]
  PROVE  /\ rq' \in Seq(Message) /\ Len(rq') = Len(rq) + 1 /\ rq'[Len(rq) + 1] = held[t][1]
         /\ \A i \in DOMAIN rq : i \in DOMAIN rq' /\ rq'[i] = rq[i]
         /\ \A i \in DOMAIN rq' : i \in DOMAIN rq \/ i = Len(rq) + 1
<1>1. rq \in Seq(Message) /\ held[t] \in Seq(Message) /\ Len(rq) \in Nat
  BY DEF ChannelTypes
<1>2. rq' \in Seq(Message) /\ Len(rq') = Len(rq) + 1
  <2>1. rq \o held[t] \in Seq(Message) /\ Len(rq \o held[t]) = Len(rq) + Len(held[t])
    BY <1>1, ConcatProperties
  <2> QED
    BY <2>1
<1>3. DOMAIN rq = 1 .. Len(rq) /\ DOMAIN rq' = 1 .. Len(rq) + 1
  BY <1>1, <1>2
<1>4. Len(rq) + 1 \in 1 .. Len(rq) + Len(held[t]) /\ Len(rq) + 1 > Len(rq) /\ (Len(rq) + 1) - Len(rq) = 1
  BY <1>1
<1>5. rq'[Len(rq) + 1] = held[t][1]
  BY <1>1, <1>4, ConcatProperties
<1>6. ASSUME NEW i \in DOMAIN rq PROVE i \in DOMAIN rq' /\ rq'[i] = rq[i]
  BY <1>1, <1>3, ConcatProperties
<1>7. ASSUME NEW i \in DOMAIN rq' PROVE i \in DOMAIN rq \/ i = Len(rq) + 1
  BY <1>1, <1>3
<1> QED
  BY <1>2, <1>5, <1>6, <1>7

LEMMA ChannelStepTypes ==
  ASSUME ChannelTypes, ChannelStep
  PROVE  ChannelTypes'
<1> DEFINE Pcs == {"idle", "push", "available", "open", "flush", "loop", "take", "call", "discard"}
<1>0. ASSUME NEW t \in Threads, NEW pc \in Pcs, Goto(t, pc) PROVE ct' \in [Threads -> Pcs]
  BY <1>0 DEF ChannelTypes, Goto
<1>a. ASSUME NEW t \in Threads, held' = [held EXCEPT ![t] = <<>>] PROVE held' \in [Threads -> Seq(Message)]
  BY <1>a DEF ChannelTypes
<1>1. ASSUME NEW t \in Threads, Push(t) PROVE ChannelTypes'
  <2>1. rq \in Seq(Message) /\ held[t] \in Seq(Message)
    BY DEF ChannelTypes
  <2>2. rq' \in Seq(Message)
    BY <1>1, <2>1, ConcatProperties DEF Push
  <2> QED
    BY <1>0, <1>1, <1>a, <2>2 DEF Push, ChannelTypes
<1>2. ASSUME NEW t \in Threads, Available(t) \/ TriggerOpen(t) \/ FlushTest(t) \/ FlushLoop(t) PROVE ChannelTypes'
  BY <1>0, <1>2 DEF Available, TriggerOpen, FlushTest, FlushLoop, ChannelTypes
<1>3. ASSUME NEW t \in Threads, FlushTake(t) PROVE ChannelTypes'
  <2>1. CASE rq = <<>>
    BY <1>0, <1>3, <2>1 DEF FlushTake, ChannelTypes
  <2>2. CASE rq # <<>>
    <3>1. <<Head(rq)>> \in Seq(Message)
      BY <2>2, FrontIs
    <3>2. held' \in [Threads -> Seq(Message)]
      BY <1>3, <2>2, <3>1 DEF FlushTake, ChannelTypes
    <3> QED
      BY <1>0, <1>3, <2>2, <3>2, PopIs DEF FlushTake, ChannelTypes
  <2> QED
    BY <2>1, <2>2
<1>4. ASSUME NEW t \in Threads, FlushCall(t) PROVE ChannelTypes'
  <2>1. got \in Seq(Message) /\ held[t] \in Seq(Message)
    BY DEF ChannelTypes
  <2>2. got' \in Seq(Message)
    BY <1>4, <2>1, ConcatProperties DEF FlushCall
  <2> QED
    BY <1>0, <1>4, <1>a, <2>2 DEF FlushCall, ChannelTypes
<1>5. ASSUME NEW t \in Threads, ReceiveDiscard(t) PROVE ChannelTypes'
  BY <1>0, <1>5, PopIs DEF ReceiveDiscard, ChannelTypes
<1>6. ASSUME NEW t \in Apps, OnAvailable(t) \/ OnMessage(t, TRUE) \/ OnMessage(t, FALSE) PROVE ChannelTypes'
  BY <1>0, <1>6, ThreadsAre DEF OnAvailable, OnMessage, ChannelTypes
<1>7. ASSUME NEW t \in Apps, Receive(t) PROVE ChannelTypes'
  <2>1. CASE rq = <<>>
    BY <1>7, <2>1 DEF Receive, ChannelTypes
  <2>2. CASE rq # <<>>
    <3>1. Pop /\ got' = Append(got, Head(rq)) /\ ct' = ct /\ held' = held
      BY <1>7, <2>2 DEF Receive
    <3>2. got' \in Seq(Message)
      BY <2>2, <3>1, FrontIs, AppendProperties DEF ChannelTypes
    <3> QED
      BY <2>2, <3>1, <3>2, PopIs DEF ChannelTypes
  <2> QED
    BY <2>1, <2>2
<1>8. ASSUME NEW t \in Apps, Peek(t) PROVE ChannelTypes'
  BY <1>8, PeekedIs DEF Peek, ChannelTypes
<1>9. ASSUME NEW t \in Apps, ReceivePeek(t) PROVE ChannelTypes'
  <2>1. got' \in Seq(Message)
    BY <1>9, FrontIs, AppendProperties DEF ReceivePeek, ChannelTypes
  <2>2. ct' \in [Threads -> Pcs]
    BY <1>0, <1>9, ThreadsAre DEF ReceivePeek
  <2> QED
    BY <1>9, <2>1, <2>2, PeekedIs DEF ReceivePeek, ChannelTypes
<1> QED
  BY <1>1, <1>2, <1>3, <1>4, <1>5, <1>6, <1>7, <1>8, <1>9 DEF ChannelStep, Progress, Application

LEMMA FlagsStep ==
  ASSUME FlagsOK, [Next]_vars
  PROVE  FlagsOK'
<1> USE DEF FlagsOK
<1>0. CASE StopQueue
  BY <1>0, Zenon DEF StopQueue, chVars
<1>1. CASE StartHandshake \/ Start \/ Stop \/ EnqueueRecv \/ \E c \in Chunks : Incoming(c)
  BY <1>1 DEF StartHandshake, Start, Stop, EnqueueRecv, EnqueueTest, EnqueueTask, Incoming, chVars
<1>2. CASE IncomingPush
  <2>1. (stopping \/ chunk.kind = "end") \in BOOLEAN
    OBVIOUS
  <2> QED
    BY <1>2, <2>1 DEF IncomingPush, chVars
<1>3. ASSUME NEW k \in Carriers, Take(k) \/ Begin(k) \/ Test(k) \/ PopNone(k) \/ PopPart(k) \/ PopSpent(k)
                                   \/ PopFinished(k) \/ UpReturns(k) \/ End(k)
      PROVE  FlagsOK'
  BY <1>3 DEF Take, Begin, Test, PopNone, PopPart, PopSpent, PopFinished, UpReturns, End, chVars
<1>4. ASSUME NEW k \in Carriers, PopIdle(k) PROVE FlagsOK'
  BY <1>4 DEF PopIdle, chVars
<1>5. ASSUME NEW k \in Carriers, PopUp(k) PROVE FlagsOK'
  BY <1>5 DEF PopUp
<1>6. ASSUME NEW k \in Carriers, PopClose(k) PROVE FlagsOK'
  <2>1. \A x \in {stopping, stopping \/ backend = "openssl"} : x \in BOOLEAN
    BY Zenon
  <2> QED
    BY <1>6, <2>1 DEF PopClose, chVars
<1>a. ASSUME NEW t \in Threads, TriggerOpen(t), UNCHANGED tlsVars PROVE FlagsOK'
  BY <1>a, Zenon DEF TriggerOpen, tlsVars
<1>7. ASSUME NEW t \in Threads, Push(t) \/ FlushTest(t) \/ FlushLoop(t) \/ FlushCall(t) \/ ReceiveDiscard(t),
             UNCHANGED tlsVars
      PROVE  FlagsOK'
  BY <1>7 DEF Push, FlushTest, FlushLoop, FlushCall, ReceiveDiscard, tlsVars
<1>8. ASSUME NEW t \in Threads, Available(t), UNCHANGED tlsVars PROVE FlagsOK'
  BY <1>8, ZenonT(40) DEF Available, tlsVars
<1>9. ASSUME NEW t \in Threads, FlushTake(t), UNCHANGED tlsVars PROVE FlagsOK'
  <2>1. (crossed \/ Others(t)) \in BOOLEAN
    OBVIOUS
  <2> QED
    BY <1>9, <2>1, ZenonT(40) DEF FlushTake, tlsVars
<1>10. ASSUME NEW t \in Apps, OnAvailable(t), UNCHANGED tlsVars PROVE FlagsOK'
  <2>1. (quiet /\ ~stored) \in BOOLEAN
    OBVIOUS
  <2> QED
    BY <1>10, <2>1, Zenon DEF OnAvailable, tlsVars
<1>11. ASSUME NEW t \in Apps, NEW set \in BOOLEAN, OnMessage(t, set), UNCHANGED tlsVars PROVE FlagsOK'
  <2>1. (unset \/ ~set) \in BOOLEAN
    OBVIOUS
  <2> QED
    BY <1>11, <2>1, ZenonT(40) DEF OnMessage, tlsVars
<1>12. ASSUME NEW t \in Apps, Receive(t) \/ Peek(t) \/ ReceivePeek(t), UNCHANGED tlsVars PROVE FlagsOK'
  <2>1. (crossed \/ Others(t)) \in BOOLEAN
    OBVIOUS
  <2>2. CASE Receive(t)
    BY <1>12, <2>1, <2>2, ZenonT(40) DEF Receive, tlsVars
  <2>3. CASE Peek(t)
    BY <1>12, <2>1, <2>3, ZenonT(40) DEF Peek, tlsVars
  <2>4. CASE ReceivePeek(t)
    BY <1>12, <2>1, <2>4, ZenonT(40) DEF ReceivePeek, tlsVars
  <2> QED
    BY <1>12, <2>2, <2>3, <2>4
<1>13. CASE UNCHANGED vars
  BY <1>13, ZenonT(40) DEF vars, tlsVars, chVars
<1>14. TRUE \in BOOLEAN /\ FALSE \in BOOLEAN
  OBVIOUS
<1> QED
  BY <1>0, <1>a, <1>1, <1>2, <1>3, <1>4, <1>5, <1>6, <1>7, <1>8, <1>9, <1>10, <1>11, <1>12, <1>13, <1>14, Steps, Zenon
     DEF PollStep, WorkerStep, DoRecv, ChannelStep, Progress, Application

LEMMA TypeStep ==
  ASSUME TypeOK, [Next]_vars
  PROVE  TypeOK'
<1>1. CASE PollStep
  <2>1. UNCHANGED chVars
    BY <1>1 DEF PollStep, StartHandshake, Start, IncomingPush, Stop, StopQueue, EnqueueRecv, EnqueueTest, EnqueueTask, Incoming
  <2> QED
    BY <1>1, <2>1, PollTypes DEF TypeOK, ChannelTypes, chVars
<1>2. CASE ChannelStep
  BY <1>2, ChannelStepTypes DEF ChannelStep, TypeOK, TlsTypes, tlsVars
<1>3. CASE UNCHANGED vars
  BY <1>3 DEF vars, tlsVars, chVars, TypeOK, TlsTypes, ChannelTypes
<1> QED
  BY <1>1, <1>2, <1>3, WorkerTypes, Steps

\* Every variable of the transport and of the channel keeps its type, for each
\* backend, any workers, application threads and limits.
THEOREM TypeCorrect == Spec => [](TypeOK /\ FlagsOK)
<1>1. Init => TypeOK /\ FlagsOK
  <2>1. Init => FlagsOK
    BY DEF Init, ChannelInit, FlagsOK
  <2> QED
    BY <2>1, InitTypes
<1>2. TypeOK /\ FlagsOK /\ [Next]_vars => (TypeOK /\ FlagsOK)'
  BY TypeStep, FlagsStep
<1> QED
  BY <1>1, <1>2, PTL DEF Spec

-----------------------------------------------------------------------------
(* The workers                                                             *)

Lockers == {k \in Carriers : tw[k] = "lock"}   \* have a task and not yet mRecvMutex

\* mRecvMutex is with the worker that is in doRecv() past it.
Locking == \A k \in Carriers : lock = k <=> tw[k] \in Inside

\* mPendingRecvCount counts the tasks and the workers that wait for mRecvMutex.
Counting == IsFiniteSet(Lockers) /\ count = tasks + Cardinality(Lockers)

\* Before start() nothing has happened.
Fresh ==
  phase = "none" => /\ st = "Disconnected" /\ iq = <<>> /\ ~stopping /\ tasks = 0 /\ reports = 0
                    /\ ts[Poll] = "idle" /\ ts[Stopper] = "none" /\ \A k \in Carriers : tw[k] = "idle"

\* doRecv() goes on as long as the transport is active; GnuTLS may come to the end
\* again.
Acting ==
  \A k \in Carriers : /\ tw[k] \in Inside \ {"end"} => Active
                      /\ tw[k] = "end" => Active \/ backend = "gnutls"

\* A worker is in the channel while it passes something up; what brings messages is
\* a worker, and what discards them, the application.
Roles ==
  /\ \A k \in Carriers : (ct[k] # "idle" => tw[k] = "up") /\ ct[k] # "discard"
  /\ \A t \in Apps : ct[t] \notin {"push", "available", "open"}

Workers == Locking /\ Counting /\ Fresh /\ Acting /\ Roles

\* What a worker's step does to tasks and mRecvMutex.
LEMMA WorkerMoves ==
  ASSUME TypeOK, NEW k \in Carriers, Take(k) \/ DoRecv(k)
  PROVE  /\ tw' = [tw EXCEPT ![k] = tw'[k]] /\ \A u \in Carriers : u # k => tw'[u] = tw[u]
         /\ UNCHANGED <<setup, ts, chunk, phase, brought>>
         /\ \/ /\ tw[k] = "idle" /\ tw'[k] = "lock" /\ lock' = lock
               /\ tasks > 0 /\ tasks' = tasks - 1 /\ count' = count
            \/ /\ tw[k] = "lock" /\ tasks' = tasks /\ count' = count - 1 /\ lock = Nobody
               /\ (tw'[k] \in Inside /\ lock' = k) \/ (tw'[k] = "idle" /\ lock' = Nobody)
            \/ /\ tw[k] \in Inside /\ tasks' = tasks /\ count' = count
               /\ (tw'[k] \in Inside /\ lock' = lock) \/ (tw'[k] = "idle" /\ lock' = Nobody)
<1>1. PICK pc : tw' = [tw EXCEPT ![k] = pc]
  BY DEF Take, DoRecv, Begin, Test, PopNone, PopPart, PopIdle, PopSpent, PopFinished, PopUp, UpReturns,
     PopClose, End, Step, Returns, Again
<1>2. tw'[k] = pc /\ \A u \in Carriers : u # k => tw'[u] = tw[u]
  BY <1>1, StepIs DEF TypeOK
<1>a. tw' = [tw EXCEPT ![k] = tw'[k]]
  BY <1>1, <1>2
<1>0. \A x : tw' = [tw EXCEPT ![k] = x] => tw'[k] = x
  BY StepIs DEF TypeOK
<1>b. UNCHANGED <<setup, ts, chunk, phase, brought>>
  BY DEF Take, DoRecv, Begin, Test, PopNone, PopPart, PopIdle, PopSpent, PopFinished, PopUp, UpReturns,
     PopClose, End
<1>3. CASE Take(k)
  BY <1>0, <1>2, <1>3, <1>a, <1>b DEF Take, Step
<1>4. CASE Begin(k)
  BY <1>0, <1>2, <1>4, <1>a, <1>b DEF Begin, Step, Returns, Inside
<1>5. CASE Test(k) \/ PopNone(k) \/ End(k)
  BY <1>0, <1>2, <1>5, <1>a, <1>b DEF Test, PopNone, End, Step, Returns, Inside
<1>6. CASE PopPart(k) \/ PopIdle(k) \/ PopSpent(k) \/ PopFinished(k) \/ PopUp(k) \/ UpReturns(k) \/ PopClose(k)
  BY <1>0, <1>2, <1>6, <1>a, <1>b DEF PopPart, PopIdle, PopSpent, PopFinished, PopUp, UpReturns, PopClose, Step, Again, Inside
<1> QED
  BY <1>3, <1>4, <1>5, <1>6 DEF DoRecv

LEMMA LockingStep ==
  ASSUME TypeOK, Locking, NEW k \in Carriers, Take(k) \/ DoRecv(k)
  PROVE  Locking'
BY WorkerMoves, ThreadsAre DEF Locking, Inside

LEMMA CountingStep ==
  ASSUME TypeOK, Counting, NEW k \in Carriers, Take(k) \/ DoRecv(k)
  PROVE  Counting'
<1>0. count \in Int /\ tasks \in Nat /\ Cardinality(Lockers) \in Nat
  BY FS_CardinalityType DEF TypeOK, TlsTypes, Counting
<1>1. CASE tw[k] = "idle" /\ tw'[k] = "lock" /\ tasks' = tasks - 1 /\ count' = count
  <2>1. Lockers' = Lockers \cup {k} /\ k \notin Lockers
    BY <1>1, WorkerMoves DEF Lockers
  <2>2. IsFiniteSet(Lockers') /\ Cardinality(Lockers') = Cardinality(Lockers) + 1
    BY <2>1, FS_AddElement DEF Counting
  <2> QED
    BY <1>0, <1>1, <2>2 DEF Counting
<1>2. CASE tw[k] = "lock" /\ tasks' = tasks /\ count' = count - 1 /\ tw'[k] # "lock"
  <2>1. Lockers' = Lockers \ {k} /\ k \in Lockers
    BY <1>2, WorkerMoves DEF Lockers
  <2>2. IsFiniteSet(Lockers') /\ Cardinality(Lockers') = Cardinality(Lockers) - 1
    BY <2>1, FS_RemoveElement DEF Counting
  <2> QED
    BY <1>0, <1>2, <2>2 DEF Counting
<1>3. CASE tw[k] # "lock" /\ tasks' = tasks /\ count' = count /\ tw'[k] # "lock"
  <2>1. Lockers' = Lockers
    BY <1>3, WorkerMoves DEF Lockers
  <2> QED
    BY <1>3, <2>1 DEF Counting
<1> QED
  BY <1>1, <1>2, <1>3, WorkerMoves DEF Inside

LEMMA WorkersInit ==
  ASSUME Init
  PROVE  Workers
<1>1. \A k \in Carriers : tw[k] = "idle"
  BY DEF Init
<1>2. \A t \in Threads : ct[t] = "idle"
  BY DEF Init, ChannelInit
<1>3. Lockers = {}
  BY <1>1 DEF Lockers
<1>4. Counting
  BY <1>3, FS_EmptySet DEF Counting, Init
<1>5. Locking /\ Acting
  BY <1>1, ThreadsAre DEF Init, Locking, Acting, Inside
<1>6. Fresh
  BY <1>1, InitTypes DEF Init, Fresh
<1>7. Roles
  BY <1>2, ThreadsAre DEF Roles
<1> QED
  BY <1>4, <1>5, <1>6, <1>7 DEF Workers

\* What a step of the poll thread or the stopper leaves alone.
LEMMA PollKeeps ==
  ASSUME PollStep
  PROVE  /\ UNCHANGED <<setup, lock, tw, closed, idled, reports, chVars>>
         /\ ~(Start \/ StartHandshake) => st' = st
BY DEF PollStep, StartHandshake, Start, IncomingPush, Stop, StopQueue, EnqueueRecv, EnqueueTest, EnqueueTask, Incoming

LEMMA WorkersPoll ==
  ASSUME TypeOK, Workers, PollStep
  PROVE  Workers'
<1>0. count \in Int /\ tasks \in Nat /\ Cardinality(Lockers) \in Nat
  BY FS_CardinalityType DEF TypeOK, TlsTypes, Workers, Counting
<1>1. Locking' /\ Roles'
  BY PollKeeps DEF Workers, Locking, Roles, chVars
<1>2. Counting'
  <2>1. Lockers' = Lockers
    BY PollKeeps DEF Lockers
  <2>2. (count' = count /\ tasks' = tasks) \/ (count' = count + 1 /\ tasks' = tasks + 1)
    BY DEF PollStep, StartHandshake, Start, IncomingPush, Stop, StopQueue, EnqueueRecv, EnqueueTest, EnqueueTask, Incoming
  <2> QED
    BY <1>0, <2>1, <2>2 DEF Workers, Counting
<1>3. Fresh'
  <2>1. CASE phase = "none"
    <3>1. ts[Poll] = "idle" /\ ts[Stopper] = "none"
      BY <2>1 DEF Workers, Fresh
    <3>2. phase' # "none"
      BY <2>1, <3>1, IncomingIs
         DEF TypeOK, PollStep, StartHandshake, Start, IncomingPush, Stop, StopQueue, EnqueueRecv, EnqueueTest, EnqueueTask
    <3> QED
      BY <3>2 DEF Fresh
  <2>2. CASE phase # "none"
    <3>1. phase' # "none"
      BY <2>2, IncomingIs
         DEF TypeOK, PollStep, StartHandshake, Start, IncomingPush, Stop, StopQueue, EnqueueRecv, EnqueueTest, EnqueueTask
    <3> QED
      BY <3>1 DEF Fresh
  <2> QED
    BY <2>1, <2>2
<1>4. Acting'
  <2>1. CASE Start \/ StartHandshake
    BY <2>1, PollKeeps DEF Start, StartHandshake, Acting, Active, Workers
  <2>2. CASE ~(Start \/ StartHandshake)
    BY <2>2, PollKeeps DEF Acting, Active, backend, Workers
  <2> QED
    BY <2>1, <2>2
<1> QED
  BY <1>1, <1>2, <1>3, <1>4 DEF Workers

LEMMA WorkersWork ==
  ASSUME TypeOK, Workers, NEW k \in Carriers, Take(k) \/ DoRecv(k)
  PROVE  Workers'
<1>1. Locking' /\ Counting'
  BY LockingStep, CountingStep DEF Workers
<1>2. Fresh'
  <2>1. phase = "none" => tasks = 0 /\ tw[k] = "idle"
    BY DEF Workers, Fresh
  <2>2. phase # "none"
    BY <2>1, WorkerMoves DEF Inside
  <2> QED
    BY <2>2, WorkerMoves DEF Fresh
<1>0. \A x : tw' = [tw EXCEPT ![k] = x] => tw'[k] = x
  BY StepIs DEF TypeOK
<1>3. Acting'
  <2>1. CASE Take(k) \/ Begin(k)
    BY <2>1, <1>0, WorkerMoves DEF Workers, Acting, Take, Begin, Step, Returns, Active, backend, Inside
  <2>2. CASE End(k)
    <3>1. \A u \in Carriers : u # k => tw[u] \notin Inside
      BY <2>2 DEF Workers, Locking, End, Inside
    <3>2. \A u \in Carriers : tw'[u] \notin Inside
      BY <2>2, <1>0, <3>1, WorkerMoves DEF End, Returns, Inside
    <3> QED
      BY <3>2 DEF Acting, Inside
  <2>3. CASE Test(k) \/ PopNone(k) \/ PopPart(k) \/ PopIdle(k) \/ PopSpent(k) \/ PopFinished(k)
               \/ PopUp(k) \/ UpReturns(k) \/ PopClose(k)
    <3>1. tw[k] \in Inside \ {"end"} /\ Active
      BY <2>3 DEF Test, PopNone, PopPart, PopIdle, PopSpent, PopFinished, PopUp, UpReturns, PopClose, Inside,
         Workers, Acting
    <3>2. st' = st \/ st' = "Connected"
      BY <2>3 DEF Test, PopNone, PopPart, PopIdle, PopSpent, PopFinished, PopUp, UpReturns, PopClose
    <3>3. Active'
      BY <3>1, <3>2 DEF Active
    <3> QED
      BY <3>3 DEF Acting, Active
  <2> QED
    BY <2>1, <2>2, <2>3 DEF DoRecv
<1>4. Roles'
  <2>1. CASE PopUp(k)
    <3>1. tw'[k] = "up"
      BY <2>1, <1>0 DEF PopUp, Step
    <3>2. \E pc \in {"open", "push"} : Goto(k, pc)
      BY <2>1 DEF PopUp
    <3>3. ct'[k] \in {"open", "push"} /\ \A u \in Threads : u # k => ct'[u] = ct[u]
      BY <3>2, GotoIs, ThreadsAre DEF TypeOK
    <3> QED
      BY <3>1, <3>3, WorkerMoves, ThreadsAre DEF Workers, Roles
  <2>2. CASE ~PopUp(k)
    <3>1. ct' = ct
      BY <2>2 DEF DoRecv, Take, Begin, Test, PopNone, PopPart, PopIdle, PopSpent, PopFinished, UpReturns, PopClose, End, chVars
    <3>2. tw[k] = "up" => UpReturns(k)
      BY <2>2 DEF DoRecv, Take, Begin, Test, PopNone, PopPart, PopIdle, PopSpent, PopFinished, UpReturns, PopClose, End
    <3>3. ct[k] = "idle"
      BY <3>2 DEF UpReturns, Workers, Roles
    <3> QED
      BY <3>1, <3>3, WorkerMoves DEF Workers, Roles
  <2> QED
    BY <2>1, <2>2
<1> QED
  BY <1>1, <1>2, <1>3, <1>4 DEF Workers

\* Where a thread of the channel goes to.
LEMMA ChannelMoves ==
  ASSUME TypeOK, Roles, ChannelStep
  PROVE  Roles'
<1>t. UNCHANGED tlsVars
  BY DEF ChannelStep
<1>1. ASSUME NEW t \in Threads, NEW pc, Goto(t, pc), ct[t] # "idle", pc \notin {"push", "open", "discard"},
             pc = "available" => ct[t] = "push"
      PROVE  Roles'
  BY <1>t, <1>1, GotoIs, ThreadsAre DEF TypeOK, Roles, tlsVars
<1>2. ASSUME NEW t \in Apps, NEW pc, Goto(t, pc), pc \notin {"push", "open", "available"} PROVE Roles'
  BY <1>t, <1>2, GotoIs, ThreadsAre DEF TypeOK, Roles, tlsVars
<1>3. ct' = ct => Roles'
  BY <1>t DEF Roles, tlsVars
<1>4. ASSUME NEW t \in Threads, Progress(t) PROVE Roles'
  <2>1. CASE Push(t) \/ Available(t) \/ TriggerOpen(t) \/ FlushTest(t) \/ FlushLoop(t)
    BY <2>1, <1>1 DEF Push, Available, TriggerOpen, FlushTest, FlushLoop
  <2>2. CASE FlushTake(t) \/ FlushCall(t) \/ ReceiveDiscard(t)
    BY <2>2, <1>1 DEF FlushTake, FlushCall, ReceiveDiscard
  <2> QED
    BY <1>4, <2>1, <2>2 DEF Progress
<1>5. ASSUME NEW t \in Apps, Application(t, setup.calls) PROVE Roles'
  <2>1. CASE OnAvailable(t) \/ Receive(t) \/ Peek(t)
    BY <2>1, <1>3 DEF OnAvailable, Receive, Peek
  <2>2. CASE OnMessage(t, TRUE) \/ OnMessage(t, FALSE) \/ ReceivePeek(t)
    BY <2>2, <1>2 DEF OnMessage, ReceivePeek
  <2> QED
    BY <1>5, <2>1, <2>2 DEF Application
<1> QED
  BY <1>4, <1>5 DEF ChannelStep

LEMMA WorkersStep ==
  ASSUME TypeOK, Workers, [Next]_vars
  PROVE  Workers'
<1>1. CASE ChannelStep
  <2>1. Locking' /\ Fresh' /\ Acting'
    BY <1>1 DEF ChannelStep, tlsVars, Workers, Locking, Fresh, Acting, Active, backend
  <2>2. Lockers' = Lockers /\ count' = count /\ tasks' = tasks
    BY <1>1 DEF ChannelStep, tlsVars, Lockers
  <2>3. Counting'
    BY <2>2 DEF Workers, Counting
  <2> QED
    BY <1>1, <2>1, <2>3, ChannelMoves DEF Workers
<1>2. CASE UNCHANGED vars
  <2>1. Locking' /\ Fresh' /\ Acting' /\ Roles'
    BY <1>2 DEF vars, tlsVars, chVars, Workers, Locking, Fresh, Acting, Active, backend, Roles
  <2>2. Lockers' = Lockers /\ count' = count /\ tasks' = tasks
    BY <1>2 DEF vars, tlsVars, Lockers
  <2> QED
    BY <2>1, <2>2 DEF Workers, Counting
<1> QED
  BY <1>1, <1>2, Steps, WorkersPoll, WorkersWork DEF WorkerStep

LEMMA WorkersInductive == Spec => [](TypeOK /\ FlagsOK /\ Workers)
<1>1. Init => Workers
  BY WorkersInit
<1>2. TypeOK /\ Workers /\ [Next]_vars => Workers'
  BY WorkersStep
<1> QED
  BY <1>1, <1>2, TypeCorrect, PTL DEF Spec

-----------------------------------------------------------------------------
(* NoChunkIsStuck                                                          *)

\* A worker that will look at the queue before it returns, or has seen its end.
Looking(k) ==
  \/ tw[k] \in {"up", "end", "self", "spent"}
  \/ tw[k] = "pop" /\ (backend # "openssl" \/ iq # <<>>)
  \/ tw[k] = "test" /\ (backend = "openssl" \/ (iq = <<>> /\ stopping))

Enqueuing == {"stop", "test", "task", "startTest", "startTask"}   \* where enqueueRecv() is yet to come

Someone ==
  \/ tasks > 0
  \/ \E k \in Carriers : tw[k] = "lock" \/ Looking(k)
  \/ \E t \in {Poll, Stopper} : ts[t] \in Enqueuing

SomeoneLooks == (Active /\ (iq # <<>> \/ stopping)) => Someone

LEMMA SomeoneLooksPoll ==
  ASSUME TypeOK, Workers, SomeoneLooks, PollStep
  PROVE  SomeoneLooks'
<1>0. Poll \in {Poll, Stopper} /\ Stopper \in {Poll, Stopper} /\ Poll # Stopper
  BY TlsAssumption
<1>1. CASE StartHandshake
  BY <1>1 DEF StartHandshake, Workers, Fresh, SomeoneLooks
<1>2. CASE Start \/ IncomingPush \/ StopQueue
  <2>1. \E t \in {Poll, Stopper} : ts'[t] \in Enqueuing
    BY <1>0, <1>2, MoveIs DEF TypeOK, Start, IncomingPush, StopQueue, Enqueuing
  <2> QED
    BY <2>1 DEF SomeoneLooks, Someone
<1>3. CASE Stop \/ \E c \in Chunks : Incoming(c)
  <2>1. st' = st /\ iq' = iq /\ stopping' = stopping /\ tasks' = tasks /\ tw' = tw /\ setup' = setup
    BY <1>3 DEF Stop, Incoming
  <2>2. \A t \in {Poll, Stopper} : ts[t] \in Enqueuing => ts'[t] \in Enqueuing
    BY <1>0, <1>3, MoveIs DEF TypeOK, Stop, Incoming, Enqueuing
  <2> QED
    BY <2>1, <2>2 DEF SomeoneLooks, Someone, Looking, Active, backend
<1>4. CASE EnqueueRecv
  <2> PICK t \in {Poll, Stopper} : EnqueueTest(t) \/ EnqueueTask(t)
    BY <1>4 DEF EnqueueRecv
  <2>1. CASE EnqueueTask(t)
    BY <2>1 DEF EnqueueTask, SomeoneLooks, Someone, TypeOK, TlsTypes
  <2>2. CASE EnqueueTest(t) /\ ~(count > 0)
    <3>1. ts'[t] \in Enqueuing
      BY <2>2, MoveIs DEF EnqueueTest, TypeOK, Enqueuing
    <3> QED
      BY <3>1 DEF SomeoneLooks, Someone
  <2>3. CASE EnqueueTest(t) /\ count > 0
    <3>1. tasks > 0 \/ Lockers # {}
      <4>1. count = tasks + Cardinality(Lockers) /\ tasks \in Nat
        BY DEF Workers, Counting, TypeOK, TlsTypes
      <4> QED
        BY <2>3, <4>1, FS_EmptySet
    <3>2. tasks' = tasks /\ tw' = tw
      BY <2>3 DEF EnqueueTest
    <3>3. tasks' > 0 \/ \E k \in Carriers : tw'[k] = "lock"
      BY <3>1, <3>2 DEF Lockers
    <3> QED
      BY <3>3 DEF SomeoneLooks, Someone
  <2> QED
    BY <2>1, <2>2, <2>3
<1> QED
  BY <1>1, <1>2, <1>3, <1>4 DEF PollStep

LEMMA SomeoneLooksWork ==
  ASSUME TypeOK, Workers, SomeoneLooks, NEW k \in Carriers, Take(k) \/ DoRecv(k)
  PROVE  SomeoneLooks'
<1>0. \A x : tw' = [tw EXCEPT ![k] = x] => tw'[k] = x
  BY StepIs DEF TypeOK
<1>1. CASE tw'[k] = "lock" \/ Looking(k)'
  BY <1>1 DEF SomeoneLooks, Someone
<1>2. CASE End(k)
  BY <1>2 DEF End, SomeoneLooks, Active
<1>3. ASSUME iq' = iq, stopping' = stopping, st' = st, tasks' = tasks, tw[k] # "lock", ~Looking(k)
      PROVE  SomeoneLooks'
  <2> SUFFICES ASSUME Active, iq # <<>> \/ stopping PROVE Someone'
    BY <1>3 DEF SomeoneLooks, Active
  <2>1. \A u \in Carriers : u # k => (Looking(u) => Looking(u)') /\ (tw[u] = "lock" => tw'[u] = "lock")
    BY <1>3, WorkerMoves DEF Looking, backend
  <2> QED
    BY <1>3, <2>1, WorkerMoves DEF SomeoneLooks, Someone
<1>4. CASE Take(k)
  BY <1>4, <1>0, <1>1 DEF Take, Step
<1>5. CASE Begin(k)
  <2>1. CASE Active
    BY <1>5, <2>1, <1>0, <1>1 DEF Begin, Step, Looking, backend
  <2>2. CASE ~Active
    BY <1>5, <2>2 DEF Begin, SomeoneLooks, Active
  <2> QED
    BY <2>1, <2>2
<1>6. CASE Test(k)
  <2>1. iq' = iq /\ stopping' = stopping /\ st' = st /\ tasks' = tasks /\ tw[k] = "test" /\ setup' = setup
    BY <1>6 DEF Test
  <2>2. CASE iq = <<>> /\ ~stopping
    BY <2>1, <2>2 DEF SomeoneLooks
  <2>3. CASE iq = <<>> /\ stopping
    BY <1>6, <2>3, <1>0, <1>1 DEF Test, Step, Looking
  <2>4. CASE iq # <<>> /\ backend = "openssl"
    BY <1>6, <2>1, <2>4, <1>0, <1>1 DEF Test, Step, Looking
  <2>5. CASE iq # <<>> /\ backend # "openssl"
    BY <2>1, <2>5, <1>3 DEF Looking
  <2> QED
    BY <2>2, <2>3, <2>4, <2>5
<1>7. CASE PopNone(k)
  <2>1. iq' = iq /\ stopping' = stopping /\ st' = st /\ tasks' = tasks /\ tw[k] = "pop" /\ setup' = setup /\ iq = <<>>
    BY <1>7 DEF PopNone
  <2>2. CASE backend = "openssl"
    BY <2>1, <2>2, <1>3 DEF Looking
  <2>3. CASE backend # "openssl" /\ stopping
    <3>1. tw'[k] = "test"
      BY <1>7, <2>3, <1>0 DEF PopNone, Step
    <3>2. iq' = <<>> /\ stopping'
      BY <2>1, <2>3
    <3> QED
      BY <3>1, <3>2, <1>1 DEF Looking
  <2>4. CASE ~stopping
    BY <2>1, <2>4 DEF SomeoneLooks
  <2> QED
    BY <2>2, <2>3, <2>4
<1>8. CASE PopPart(k) \/ PopFinished(k) \/ UpReturns(k)
  BY <1>8, <1>0, <1>1 DEF PopPart, PopFinished, UpReturns, Again, Step, Looking, backend
<1>9. CASE PopIdle(k) \/ PopUp(k) \/ PopClose(k)
  BY <1>9, <1>0, <1>1 DEF PopIdle, PopUp, PopClose, Step, Looking, backend
<1>10. CASE PopSpent(k)
  BY <1>10, <1>0, <1>1 DEF PopSpent, Step, Looking, backend
<1> QED
  BY <1>2, <1>4, <1>5, <1>6, <1>7, <1>8, <1>9, <1>10 DEF DoRecv

\* Whatever order enqueueRecv()'s test and count, doRecv()'s countdown and look, and
\* the pushes come in: for a chunk in mIncomingQueue, or the end, that an active
\* transport has not taken there is a task, a worker that looks, or a thread about to
\* enqueue a task; as long as no worker of Mbed TLS has locked itself out.
THEOREM NoChunkStuck == Spec => []NoChunkIsStuck
<1>1. Init => SomeoneLooks
  BY DEF Init, SomeoneLooks, Active
<1>2. TypeOK /\ Workers /\ SomeoneLooks /\ [Next]_vars => SomeoneLooks'
  <2> SUFFICES ASSUME TypeOK, Workers, SomeoneLooks, [Next]_vars PROVE SomeoneLooks'
    OBVIOUS
  <2>1. CASE ChannelStep \/ UNCHANGED vars
    <3>1. UNCHANGED tlsVars
      BY <2>1 DEF ChannelStep, vars
    <3> QED
      BY <3>1 DEF tlsVars, SomeoneLooks, Someone, Looking, Active, backend
  <2> QED
    BY <2>1, Steps, SomeoneLooksPoll, SomeoneLooksWork DEF WorkerStep
<1>3. SomeoneLooks => NoChunkIsStuck
  <2> SUFFICES ASSUME Someone PROVE \/ tasks > 0
                                    \/ \E k \in Carriers : tw[k] # "idle"
                                    \/ \E t \in {Poll, Stopper} : ts[t] \notin {"none", "idle"}
    BY DEF SomeoneLooks, NoChunkIsStuck
  <2> QED
    BY DEF Someone, Looking, Enqueuing
<1> QED
  BY <1>1, <1>2, <1>3, WorkersInductive, PTL DEF Spec

-----------------------------------------------------------------------------
(* DrainedBeforeEnd                                                        *)

\* doRecv() may come to its end: the peer closed, an idle chunk made GnuTLS or Mbed
\* TLS think so, or the queue was stopped and is drained, and stays so.
MayEnd == closed \/ (idled /\ backend # "openssl") \/ (stopping /\ iq = <<>>)

Drained ==
  /\ \A k \in Carriers : tw[k] = "end" => MayEnd
  /\ \A k \in Carriers : tw[k] = "spent" => idled /\ backend # "openssl"
  /\ Ended => MayEnd

\* An end is reported by the step that leaves the active states.
Reporting ==
  /\ Active => reports = 0
  /\ reports <= 1 \/ (backend = "gnutls" /\ st = "Failed")

LEMMA MayEndStep ==
  ASSUME TypeOK, Workers, MayEnd, PollStep \/ WorkerStep
  PROVE  MayEnd'
<1>0. setup' = setup
  BY PollKeeps, WorkerMoves DEF WorkerStep
<1>1. closed => closed'
  BY PollKeeps, ZenonT(40) DEF WorkerStep, DoRecv, Take, Begin, Test, PopNone, PopPart, PopIdle, PopSpent, PopFinished, PopUp,
     UpReturns, PopClose, End
<1>2. idled => idled'
  BY PollKeeps, ZenonT(40) DEF WorkerStep, DoRecv, Take, Begin, Test, PopNone, PopPart, PopIdle, PopSpent, PopFinished, PopUp,
     UpReturns, PopClose, End
<1>3. CASE stopping /\ iq = <<>>
  <2>1. CASE PollStep
    <3>1. stopping'
      BY <1>3, <2>1 DEF PollStep, StartHandshake, Start, IncomingPush, Stop, StopQueue, EnqueueRecv, EnqueueTest,
         EnqueueTask, Incoming
    <3>2. iq' = <<>>
      BY <1>3, <2>1 DEF PollStep, StartHandshake, Start, IncomingPush, Stop, StopQueue, EnqueueRecv, EnqueueTest,
         EnqueueTask, Incoming
    <3> QED
      BY <3>1, <3>2 DEF MayEnd
  <2>2. CASE WorkerStep
    <3>1. iq' = iq
      BY <1>3, <2>2, ZenonT(40) DEF WorkerStep, DoRecv, Take, Begin, Test, PopNone, PopPart, PopIdle, PopSpent, PopFinished, PopUp,
         UpReturns, PopClose, End
    <3>2. stopping'
      BY <1>3, <2>2, ZenonT(40) DEF WorkerStep, DoRecv, Take, Begin, Test, PopNone, PopPart, PopIdle, PopSpent, PopFinished, PopUp,
         UpReturns, PopClose, End
    <3> QED
      BY <1>3, <3>1, <3>2 DEF MayEnd
  <2> QED
    BY <2>1, <2>2
<1>4. backend' = backend
  BY <1>0 DEF backend
<1> QED
  BY <1>1, <1>2, <1>3, <1>4 DEF MayEnd

LEMMA DrainedPoll ==
  ASSUME TypeOK, Workers, Drained, PollStep
  PROVE  Drained'
<1>0. setup' = setup /\ tw' = tw /\ idled' = idled
  BY PollKeeps
<1>1. \A k \in Carriers : tw'[k] = "end" => MayEnd'
  BY <1>0, MayEndStep DEF Drained
<1>2. \A k \in Carriers : tw'[k] = "spent" => idled' /\ backend' # "openssl"
  BY <1>0 DEF Drained, backend
<1>3. Ended' => MayEnd'
  <2>1. CASE Start \/ StartHandshake
    BY <2>1 DEF Start, StartHandshake, Ended, Active
  <2>2. CASE ~(Start \/ StartHandshake)
    <3>1. phase = "none" => ~PollStep
      BY <2>2, IncomingIs DEF PollStep, Workers, Fresh, Start, StartHandshake, IncomingPush, Stop, StopQueue,
         EnqueueRecv, EnqueueTest, EnqueueTask, TypeOK
    <3>2. Ended' => Ended
      BY <3>1, <2>2, PollKeeps DEF Ended, Active
    <3> QED
      BY <3>2, MayEndStep DEF Drained
  <2> QED
    BY <2>1, <2>2
<1> QED
  BY <1>1, <1>2, <1>3 DEF Drained

LEMMA DrainedWork ==
  ASSUME TypeOK, Workers, Drained, NEW k \in Carriers, Take(k) \/ DoRecv(k)
  PROVE  Drained'
<1>0. \A x : tw' = [tw EXCEPT ![k] = x] => tw'[k] = x
  BY StepIs DEF TypeOK
<1>a. MayEnd => MayEnd'
  BY MayEndStep DEF WorkerStep
<1>b. backend' = backend /\ phase' = phase
  BY WorkerMoves DEF backend
<1>c. idled => idled'
  BY DEF DoRecv, Take, Begin, Test, PopNone, PopPart, PopIdle, PopSpent, PopFinished, PopUp, UpReturns, PopClose, End
<1>1. tw'[k] = "end" => MayEnd'
  <2>1. CASE Begin(k)
    <3>1. tw'[k] = "end" => ~Active
      BY <2>1, <1>0 DEF Begin, Step, Returns
    <3>2. phase # "none"
      BY <2>1 DEF Begin, Workers, Fresh
    <3> QED
      BY <3>1, <3>2, <1>a DEF Drained, Ended
  <2>2. CASE Test(k)
    <3>1. tw'[k] = "end" => iq = <<>> /\ stopping
      BY <2>2, <1>0 DEF Test, Step, Returns
    <3> QED
      BY <3>1, <1>a DEF MayEnd
  <2>3. CASE PopSpent(k)
    BY <2>3, <1>a DEF PopSpent, Drained, MayEnd
  <2>4. CASE PopClose(k)
    BY <2>4 DEF PopClose, MayEnd
  <2>5. CASE Take(k) \/ PopNone(k) \/ PopPart(k) \/ PopIdle(k) \/ PopFinished(k) \/ PopUp(k) \/ UpReturns(k) \/ End(k)
    <3>1. tw'[k] # "end"
      BY <2>5, <1>0 DEF Take, PopNone, PopPart, PopIdle, PopFinished, PopUp, UpReturns, End, Step, Again, Returns
    <3> QED
      BY <3>1
  <2> QED
    BY <2>1, <2>2, <2>3, <2>4, <2>5 DEF DoRecv
<1>2. tw'[k] = "spent" => idled' /\ backend # "openssl"
  <2>1. CASE PopIdle(k)
    BY <2>1, <1>0 DEF PopIdle, Step
  <2>2. CASE ~PopIdle(k)
    <3>1. tw'[k] # "spent"
      BY <2>2, <1>0 DEF DoRecv, Take, Begin, Test, PopNone, PopPart, PopSpent, PopFinished, PopUp, UpReturns, PopClose, End,
         Step, Again, Returns
    <3> QED
      BY <3>1
  <2> QED
    BY <2>1, <2>2
<1>3. Ended' => MayEnd'
  <2>1. CASE End(k)
    BY <2>1, <1>a DEF End, Drained
  <2>2. CASE ~End(k)
    <3>1. Active => Active'
      BY <2>2 DEF DoRecv, Take, Begin, Test, PopNone, PopPart, PopIdle, PopSpent, PopFinished, PopUp, UpReturns, PopClose, Active
    <3> QED
      BY <3>1, <1>a, <1>b DEF Ended, Drained
  <2> QED
    BY <2>1, <2>2
<1>4. ASSUME NEW u \in Carriers, u # k
      PROVE  (tw'[u] = "end" => MayEnd') /\ (tw'[u] = "spent" => idled' /\ backend' # "openssl")
  BY <1>4, <1>a, <1>b, <1>c, WorkerMoves DEF Drained
<1> QED
  BY <1>1, <1>2, <1>3, <1>4, <1>b DEF Drained

LEMMA ReportingStep ==
  ASSUME TypeOK, Workers, Reporting, PollStep \/ WorkerStep
  PROVE  Reporting'
<1>1. CASE Start \/ StartHandshake
  <2>1. reports' = 0
    BY <1>1 DEF Start, StartHandshake, Workers, Fresh
  <2> QED
    BY <2>1 DEF Reporting
<1>2. CASE PollStep /\ ~(Start \/ StartHandshake)
  <2>1. reports' = reports /\ st' = st /\ backend' = backend
    BY <1>2, PollKeeps DEF backend
  <2> QED
    BY <2>1 DEF Reporting, Active
<1>3. CASE WorkerStep
  <2> PICK k \in Carriers : Take(k) \/ DoRecv(k)
    BY <1>3 DEF WorkerStep
  <2>0. backend' = backend
    BY WorkerMoves DEF backend
  <2>1. CASE End(k)
    <3>1. Active \/ backend = "gnutls"
      BY <2>1 DEF End, Workers, Acting
    <3>2. Active => reports = 0
      BY DEF Reporting
    <3>3. ~Active' /\ (st # "Connected" => st' = "Failed")
      BY <2>1 DEF End, Active
    <3>4. CASE Active
      <4>1. reports' = 1
        BY <2>1, <3>2, <3>4 DEF End, Active
      <4> QED
        BY <4>1, <3>3 DEF Reporting
    <3>5. CASE ~Active
      BY <3>1, <3>3, <3>5, <2>0 DEF Reporting, Active
    <3> QED
      BY <3>4, <3>5
  <2>2. CASE ~End(k)
    <3>1. reports' = reports /\ (st' = st \/ (PopFinished(k) /\ st' = "Connected"))
      BY <2>2 DEF DoRecv, Take, Begin, Test, PopNone, PopPart, PopIdle, PopSpent, PopFinished, PopUp, UpReturns, PopClose
    <3>2. PopFinished(k) => Active
      BY DEF PopFinished, Workers, Acting, Inside
    <3> QED
      BY <3>1, <3>2, <2>0 DEF Reporting, Active
  <2> QED
    BY <2>1, <2>2
<1> QED
  BY <1>1, <1>2, <1>3

\* With any number of workers and tasks, the end of a connection is reported once,
\* GnuTLS' repeated failure apart, and, unless the peer closed or an idle chunk was
\* taken for the end, when the stopped queue had been drained.
THEOREM DrainedFirst == Spec => []DrainedBeforeEnd
<1>1. Init => Drained /\ Reporting
  <2> SUFFICES ASSUME Init PROVE Drained /\ Reporting
    OBVIOUS
  <2>1. \A k \in Carriers : tw[k] = "idle"
    BY DEF Init
  <2>2. ~Ended
    BY DEF Init, Ended
  <2> QED
    BY <2>1, <2>2 DEF Init, Drained, Reporting
<1>2. TypeOK /\ Workers /\ Drained /\ Reporting /\ [Next]_vars => Drained' /\ Reporting'
  <2> SUFFICES ASSUME TypeOK, Workers, Drained, Reporting, [Next]_vars PROVE Drained' /\ Reporting'
    OBVIOUS
  <2>1. CASE ChannelStep \/ UNCHANGED vars
    <3>1. UNCHANGED tlsVars
      BY <2>1 DEF ChannelStep, vars
    <3> QED
      BY <3>1 DEF tlsVars, Drained, Reporting, MayEnd, Ended, Active, backend
  <2>2. CASE PollStep \/ WorkerStep
    BY <2>2, DrainedPoll, DrainedWork, ReportingStep DEF WorkerStep
  <2> QED
    BY <2>1, <2>2, Steps
<1>3. Drained /\ Reporting => DrainedBeforeEnd
  BY DEF Drained, Reporting, DrainedBeforeEnd, MayEnd
<1> QED
  BY <1>1, <1>2, <1>3, WorkersInductive, PTL DEF Spec

-----------------------------------------------------------------------------
(* Who comes up into the channel, and what is in a thread's hand           *)

\* Of the transport's steps only recv() reaches the channel, by a worker that is
\* not in it.
LEMMA OnlyUp ==
  ASSUME TypeOK, Workers, PollStep \/ WorkerStep
  PROVE  \/ UNCHANGED chVars
         \/ \E k \in Carriers : PopUp(k) /\ ct[k] = "idle" /\ ct'[k] \in {"open", "push"}
<1>1. CASE PollStep
  BY <1>1, PollKeeps
<1>2. CASE WorkerStep
  <2> PICK k \in Carriers : Take(k) \/ DoRecv(k)
    BY <1>2 DEF WorkerStep
  <2>1. CASE PopUp(k)
    <3>1. ct[k] = "idle"
      BY <2>1 DEF PopUp, Workers, Roles
    <3>2. \E pc \in {"open", "push"} : Goto(k, pc)
      BY <2>1 DEF PopUp
    <3>3. ct'[k] \in {"open", "push"}
      BY <3>2, GotoIs, ThreadsAre DEF TypeOK
    <3> QED
      BY <2>1, <3>1, <3>3
  <2>2. CASE ~PopUp(k)
    BY <2>2 DEF DoRecv, Take, Begin, Test, PopNone, PopPart, PopIdle, PopSpent, PopFinished, UpReturns, PopClose, End
  <2> QED
    BY <2>1, <2>2
<1> QED
  BY <1>1, <1>2

\* recv() finds the worker elsewhere, and the other threads stay.
LEMMA UpIs ==
  ASSUME TypeOK, NEW k \in Carriers, PopUp(k)
  PROVE  /\ \A u \in Threads : u # k => ct'[u] = ct[u] /\ held'[u] = held[u]
         /\ UNCHANGED <<rq, amount, opened, msgCb, availCb, stored, got, quiet, crossed, unset>>
<1>1. \E pc \in {"open", "push"} : Goto(k, pc)
  BY DEF PopUp
<1>2. \A u \in Threads : u # k => ct'[u] = ct[u]
  BY <1>1, GotoIs, ThreadsAre DEF TypeOK
<1>3. \A u \in Threads : u # k => held'[u] = held[u]
  BY DEF PopUp, TypeOK, ChannelTypes
<1> QED
  BY <1>2, <1>3 DEF PopUp

\* At most one worker is in the channel.
LEMMA OneCarrier ==
  ASSUME Workers, NEW k \in Carriers, NEW u \in Carriers, ct[k] # "idle", ct[u] # "idle"
  PROVE  k = u
<1>1. lock = k /\ lock = u
  BY DEF Workers, Roles, Locking, Inside
<1> QED
  BY <1>1

\* Where a thread has a message in hand, it is one, with its content if it is new.
Holding ==
  \A t \in Threads : /\ ct[t] \in {"push", "call"} => Len(held[t]) = 1
                     /\ ct[t] = "push" => held[t][1].size = 1

LEMMA HoldingUp ==
  ASSUME TypeOK, Holding, NEW k \in Carriers, PopUp(k)
  PROVE  Holding'
<1>0. k \in Threads
  BY ThreadsAre
<1>1. CASE Head(iq).kind = "open"
  <2>1. ct'[k] = "open"
    BY <1>0, <1>1, GotoIs DEF PopUp, TypeOK
  <2> QED
    BY <2>1, UpIs DEF Holding
<1>2. CASE Head(iq).kind # "open"
  <2>1. held'[k] = <<[id |-> Head(iq).id, size |-> 1]>>
    BY <1>0, <1>2 DEF PopUp, TypeOK, ChannelTypes
  <2>2. Len(held'[k]) = 1 /\ held'[k][1].size = 1
    BY <2>1
  <2> QED
    BY <2>2, UpIs DEF Holding
<1> QED
  BY <1>1, <1>2

LEMMA HoldingStep ==
  ASSUME TypeOK, Workers, Holding, ChannelStep
  PROVE  Holding'
<1>0. \A t \in Threads : \A pc : Goto(t, pc) => ct'[t] = pc /\ \A u \in Threads : u # t => ct'[u] = ct[u]
  BY GotoIs DEF TypeOK
<1>1. ASSUME NEW t \in Threads, NEW pc, Goto(t, pc), pc \notin {"push", "call"},
             \A u \in Threads : u # t => held'[u] = held[u]
      PROVE  Holding'
  BY <1>0, <1>1 DEF Holding
<1>2. \A t \in Threads : \A h : held' = [held EXCEPT ![t] = h] =>
        held'[t] = h /\ \A u \in Threads : u # t => held'[u] = held[u]
  BY DEF TypeOK, ChannelTypes
<1>3. ASSUME NEW t \in Threads, Progress(t) PROVE Holding'
  <2>1. CASE Push(t) \/ FlushCall(t)
    BY <2>1, <1>1, <1>2 DEF Push, FlushCall
  <2>2. CASE Available(t) \/ TriggerOpen(t) \/ FlushTest(t) \/ FlushLoop(t) \/ ReceiveDiscard(t)
    BY <2>2, <1>1 DEF Available, TriggerOpen, FlushTest, FlushLoop, ReceiveDiscard
  <2>3. CASE FlushTake(t)
    <3>1. CASE rq = <<>>
      BY <2>3, <3>1, <1>1 DEF FlushTake
    <3>2. CASE rq # <<>>
      <4>1. Goto(t, "call") /\ held' = [held EXCEPT ![t] = <<Head(rq)>>]
        BY <2>3, <3>2 DEF FlushTake
      <4>2. ct'[t] = "call" /\ held'[t] = <<Head(rq)>>
        BY <4>1, <1>0, <1>2
      <4>3. Len(held'[t]) = 1
        BY <4>2
      <4> QED
        BY <4>1, <4>2, <4>3, <1>0, <1>2 DEF Holding
    <3> QED
      BY <3>1, <3>2
  <2> QED
    BY <1>3, <2>1, <2>2, <2>3 DEF Progress
<1>4. ASSUME NEW t \in Apps, Application(t, setup.calls) PROVE Holding'
  <2>1. CASE OnMessage(t, TRUE) \/ OnMessage(t, FALSE) \/ ReceivePeek(t)
    <3>1. held' = held /\ \E pc \in {"flush", "discard"} : Goto(t, pc)
      BY <2>1 DEF OnMessage, ReceivePeek
    <3> QED
      BY <3>1, <1>1, ThreadsAre
  <2>2. CASE OnAvailable(t) \/ Receive(t) \/ Peek(t)
    BY <2>2 DEF OnAvailable, Receive, Peek, Holding
  <2> QED
    BY <1>4, <2>1, <2>2 DEF Application
<1> QED
  BY <1>3, <1>4 DEF ChannelStep

LEMMA HoldingInductive == Spec => [](TypeOK /\ FlagsOK /\ Workers /\ Holding)
<1>1. Init => Holding
  <2> SUFFICES ASSUME Init PROVE Holding
    OBVIOUS
  <2>1. \A t \in Threads : ct[t] = "idle"
    BY DEF Init, ChannelInit
  <2> QED
    BY <2>1 DEF Holding
<1>2. TypeOK /\ Workers /\ Holding /\ [Next]_vars => Holding'
  <2> SUFFICES ASSUME TypeOK, Workers, Holding, [Next]_vars PROVE Holding'
    OBVIOUS
  <2>1. CASE UNCHANGED chVars
    BY <2>1 DEF chVars, Holding
  <2> QED
    BY <2>1, OnlyUp, HoldingUp, HoldingStep, Steps DEF vars
<1> QED
  BY <1>1, <1>2, WorkersInductive, PTL DEF Spec

-----------------------------------------------------------------------------
(* NothingIsStuck                                                          *)

\* With the callback and an open WebSocket, a thread will look at the queue again.
Flushing == (opened /\ msgCb /\ rq # <<>>) => \E t \in Threads : ct[t] \in {"available", "flush", "loop", "take", "call"}

\* An application that slept is about to be called for the one message, or a call
\* is kept for it.
Calling == (quiet /\ rq # <<>>) => stored \/ (Len(rq) = 1 /\ \E t \in Threads : ct[t] = "available")

LEMMA FlushingStep ==
  ASSUME TypeOK, Workers, Flushing, ChannelStep
  PROVE  Flushing'
<1>0. \A t \in Threads : \A pc : Goto(t, pc) => ct'[t] = pc
  BY GotoIs DEF TypeOK
<1>1. ASSUME NEW t \in Threads, ct'[t] \in {"available", "flush", "loop", "take", "call"} PROVE Flushing'
  BY <1>1 DEF Flushing
<1>2. ASSUME NEW t \in Threads, Progress(t) PROVE Flushing'
  <2>1. CASE Push(t) \/ Available(t) \/ TriggerOpen(t) \/ FlushCall(t)
    BY <2>1, <1>0, <1>1 DEF Push, Available, TriggerOpen, FlushCall
  <2>2. CASE FlushTest(t)
    BY <2>2, <1>0, <1>1 DEF FlushTest, Flushing
  <2>3. CASE FlushLoop(t)
    BY <2>3, <1>0, <1>1 DEF FlushLoop, Flushing
  <2>4. CASE FlushTake(t)
    BY <2>4, <1>0, <1>1 DEF FlushTake, Flushing
  <2>5. CASE ReceiveDiscard(t)
    <3>1. \A u \in Threads : u # t => ct'[u] = ct[u]
      BY <2>5, GotoIs DEF ReceiveDiscard, TypeOK
    <3>2. rq' # <<>> => rq # <<>>
      BY <2>5 DEF ReceiveDiscard
    <3> QED
      BY <2>5, <3>1, <3>2 DEF ReceiveDiscard, Flushing
  <2> QED
    BY <1>2, <2>1, <2>2, <2>3, <2>4, <2>5 DEF Progress
<1>3. ASSUME NEW t \in Apps, Application(t, setup.calls) PROVE Flushing'
  <2>0. t \in Threads
    BY ThreadsAre
  <2>1. CASE OnMessage(t, TRUE) \/ OnMessage(t, FALSE)
    BY <2>0, <2>1, <1>0, <1>1 DEF OnMessage
  <2>2. CASE OnAvailable(t)
    BY <2>2 DEF OnAvailable, Flushing
  <2>3. CASE Receive(t) \/ Peek(t) \/ ReceivePeek(t)
    BY <2>3 DEF Receive, Peek, ReceivePeek, Flushing
  <2> QED
    BY <1>3, <2>1, <2>2, <2>3 DEF Application
<1> QED
  BY <1>2, <1>3 DEF ChannelStep

\* A message taken leaves others behind only if a call is kept.
LEMMA CallingPop ==
  ASSUME TypeOK, Calling, rq # <<>>, Pop, quiet' => quiet, stored => stored'
  PROVE  Calling'
<1>1. Len(rq') = Len(rq) - 1 /\ Len(rq) \in Nat /\ rq' \in Seq(Message)
  BY PopIs, FrontIs DEF TypeOK
<1>2. rq' # <<>> => Len(rq) # 1
  BY <1>1, SMTT(40)
<1> QED
  BY <1>2 DEF Calling

LEMMA CallingStep ==
  ASSUME TypeOK, Workers, Holding, Calling, ChannelStep
  PROVE  Calling'
<1>0. \A t \in Threads : \A pc : Goto(t, pc) => ct'[t] = pc /\ \A u \in Threads : u # t => ct'[u] = ct[u]
  BY GotoIs DEF TypeOK
<1>1. ASSUME NEW t \in Threads, NEW pc, Goto(t, pc), ct[t] # "available",
             Len(rq') = Len(rq), rq' # <<>> => rq # <<>>, quiet' => quiet, stored => stored'
      PROVE  Calling'
  BY <1>0, <1>1 DEF Calling
<1>2. ASSUME NEW t \in Threads, Progress(t) PROVE Calling'
  <2>1. CASE Push(t)
    <3>1. t \in Carriers /\ ct'[t] = "available"
      BY <2>1, <1>0, ThreadsAre DEF Push, Workers, Roles
    <3>2. \A u \in Threads : ct[u] # "available"
      BY <2>1, <3>1, ThreadsAre, OneCarrier DEF Push, Workers, Roles
    <3>3. CASE rq = <<>>
      <4>1. Len(rq') = 1
        BY <2>1, <3>3, PushIs DEF Push, Holding, TypeOK
      <4> QED
        BY <4>1, <3>1 DEF Calling
    <3>4. CASE rq # <<>>
      BY <2>1, <3>2, <3>4 DEF Push, Calling
    <3> QED
      BY <3>3, <3>4
  <2>2. CASE Available(t)
    <3>0. rq' = rq
      BY <2>2 DEF Available
    <3>1. CASE Len(rq) = 1
      BY <2>2, <3>1 DEF Available, Calling
    <3>2. CASE Len(rq) # 1
      BY <2>2, <3>0, <3>2 DEF Available, Calling
    <3> QED
      BY <3>1, <3>2
  <2>3. CASE TriggerOpen(t) \/ FlushTest(t) \/ FlushLoop(t) \/ FlushCall(t)
    BY <2>3, <1>1 DEF TriggerOpen, FlushTest, FlushLoop, FlushCall
  <2>4. CASE FlushTake(t) \/ ReceiveDiscard(t)
    <3>1. CASE rq = <<>>
      BY <2>4, <3>1 DEF FlushTake, ReceiveDiscard, Calling
    <3>2. CASE rq # <<>>
      BY <2>4, <3>2, CallingPop DEF FlushTake, ReceiveDiscard
    <3> QED
      BY <3>1, <3>2
  <2> QED
    BY <1>2, <2>1, <2>2, <2>3, <2>4 DEF Progress
<1>3. ASSUME NEW t \in Apps, Application(t, setup.calls) PROVE Calling'
  <2>0. t \in Threads
    BY ThreadsAre
  <2>1. CASE OnMessage(t, TRUE) \/ OnMessage(t, FALSE)
    <3>1. Goto(t, "flush") /\ ct[t] = "idle" /\ UNCHANGED <<rq, quiet, stored>>
      BY <2>1 DEF OnMessage
    <3> QED
      BY <2>0, <3>1, <1>1
  <2>2. CASE OnAvailable(t)
    <3>1. quiet' = (quiet /\ ~stored) /\ rq' = rq /\ ct' = ct
      BY <2>2 DEF OnAvailable
    <3>2. quiet' => quiet /\ ~stored
      BY <3>1
    <3> QED
      BY <3>1, <3>2 DEF Calling
  <2>3. CASE Receive(t)
    <3>1. CASE rq = <<>>
      BY <2>3, <3>1 DEF Receive, Calling
    <3>2. CASE rq # <<>>
      BY <2>3, <3>2, CallingPop DEF Receive
    <3> QED
      BY <3>1, <3>2
  <2>4. CASE Peek(t)
    <3>1. Len(rq') = Len(rq)
      BY <2>4, PeekedIs DEF Peek, TypeOK
    <3> QED
      BY <2>4, <3>1 DEF Peek, Calling
  <2>5. CASE ReceivePeek(t)
    <3>1. Len(rq') = Len(rq)
      BY <2>5, PeekedIs DEF ReceivePeek, TypeOK
    <3> QED
      BY <2>0, <2>5, <3>1, <1>1 DEF ReceivePeek
  <2> QED
    BY <1>3, <2>1, <2>2, <2>3, <2>4, <2>5 DEF Application
<1> QED
  BY <1>2, <1>3 DEF ChannelStep

\* For any workers and any threads of the application, whatever callbacks are set
\* and taken away: a message in mRecvQueue always has a thread that will look at it,
\* or a call of availableCallback, made or kept, for an application that sleeps.
THEOREM NothingStuck == Spec => []NothingIsStuck
<1>1. Init => Flushing /\ Calling
  BY DEF Init, ChannelInit, Flushing, Calling
<1>2. TypeOK /\ Workers /\ Holding /\ Flushing /\ Calling /\ [Next]_vars => Flushing' /\ Calling'
  <2> SUFFICES ASSUME TypeOK, Workers, Holding, Flushing, Calling, [Next]_vars PROVE Flushing' /\ Calling'
    OBVIOUS
  <2>1. CASE UNCHANGED chVars
    BY <2>1 DEF chVars, Flushing, Calling
  <2>2. ASSUME NEW k \in Carriers, PopUp(k), ct[k] = "idle" PROVE Flushing' /\ Calling'
    BY <2>2, UpIs, ThreadsAre DEF Flushing, Calling
  <2> QED
    BY <2>1, <2>2, OnlyUp, FlushingStep, CallingStep, Steps DEF vars
<1>3. Flushing /\ Calling => NothingIsStuck
  BY DEF Flushing, Calling, NothingIsStuck
<1> QED
  BY <1>1, <1>2, <1>3, HoldingInductive, PTL DEF Spec

-----------------------------------------------------------------------------
(* GivenInOrder: the channel                                               *)

\* Messages up to f have left mRecvQueue, which holds those after f; p more is with
\* a worker, and a have left mIncomingQueue.  A thread that has a message in hand is
\* alone with it.
InChannel(a, f, p) ==
  /\ \A t, u \in Threads : ct[t] \in {"call", "discard"} /\ ct[u] \in {"call", "discard"} => t = u
  /\ \A t \in Threads : ct[t] \in {"take", "call"} => msgCb
  /\ \A i \in DOMAIN got : got[i].id = i
  /\ (\A t \in Threads : ct[t] \notin {"call", "discard"}) => f = Len(got)
  /\ \A t \in Threads : ct[t] = "call" => f = Len(got) + 1 /\ held[t][1].id = Len(got) + 1
  /\ \A t \in Threads : ct[t] = "discard" => f = Len(got) - 1 /\ Len(rq) # 0
  /\ \A i \in DOMAIN rq : rq[i].id = f + i
  /\ a = f + Len(rq) + p
  /\ \A t \in Threads : ct[t] = "push" => p = 1 /\ held[t][1].id = a
  /\ (\A t \in Threads : ct[t] # "push") => p = 0

\* A thread moves where it has no message in hand, and the queue keeps its order.
LEMMA ChannelStays ==
  ASSUME TypeOK, NEW a \in Nat, NEW f \in Int, NEW p \in {0, 1}, InChannel(a, f, p),
         NEW t \in Threads, ct[t] \notin {"call", "discard", "push"}, ct'[t] \notin {"call", "discard", "push"},
         \A u \in Threads : u # t => ct'[u] = ct[u] /\ held'[u] = held[u],
         ct'[t] = "take" => msgCb', msgCb => msgCb', got' = got,
         DOMAIN rq' = DOMAIN rq, Len(rq') = Len(rq), \A i \in DOMAIN rq : rq'[i].id = rq[i].id
  PROVE  InChannel(a, f, p)'
BY ZenonT(40) DEF InChannel

\* A message brought is the next of the queue.
LEMMA ChannelPush ==
  ASSUME TypeOK, Workers, Holding, NEW a \in Nat, NEW f \in Int, NEW p \in {0, 1}, InChannel(a, f, p),
         NEW t \in Threads, Push(t)
  PROVE  InChannel(a, f, 0)'
<1>0. t \in Carriers /\ \A u \in Threads : u # t => ct[u] # "push"
  BY ThreadsAre, OneCarrier DEF Push, Workers, Roles
<1>1. ct'[t] = "available" /\ \A u \in Threads : u # t => ct'[u] = ct[u]
  BY GotoIs DEF Push, TypeOK
<1>2. \A u \in Threads : u # t => held'[u] = held[u]
  BY DEF Push, TypeOK, ChannelTypes
<1>3. p = 1 /\ held[t][1].id = a /\ a = f + Len(rq) + 1 /\ ct[t] = "push"
  BY DEF Push, InChannel
<1>4. Len(held[t]) = 1 /\ rq' = rq \o held[t]
  BY DEF Push, Holding
<1>5. /\ Len(rq') = Len(rq) + 1 /\ rq'[Len(rq) + 1] = held[t][1] /\ \A i \in DOMAIN rq : rq'[i] = rq[i]
      /\ \A i \in DOMAIN rq' : i \in DOMAIN rq \/ i = Len(rq) + 1
  BY <1>4, PushIs DEF TypeOK
<1>6. Len(rq) \in Nat
  BY DEF TypeOK, ChannelTypes
<1>7. rq'[Len(rq) + 1].id = f + (Len(rq) + 1)
  BY <1>3, <1>5, <1>6
<1>8. \A i \in DOMAIN rq' : rq'[i].id = f + i
  BY <1>5, <1>7 DEF InChannel
<1>9. a = f + Len(rq') + 0 /\ Len(rq') # 0
  BY <1>3, <1>5, <1>6
<1>10. got' = got /\ msgCb' = msgCb
  BY DEF Push
<1> QED
  BY <1>0, <1>1, <1>2, <1>3, <1>8, <1>9, <1>10 DEF InChannel

\* A message is taken while nobody else has one in hand.
LEMMA ChannelTake ==
  ASSUME TypeOK, NEW a \in Nat, NEW f \in Int, NEW p \in {0, 1}, InChannel(a, f, p),
         NEW t \in Threads, FlushTake(t), rq # <<>>, ~crossed'
  PROVE  InChannel(a, f + 1, p)'
<1>1. Pop /\ held' = [held EXCEPT ![t] = <<Head(rq)>>] /\ Goto(t, "call") /\ ct[t] = "take"
  BY DEF FlushTake
<1>2. crossed' = (crossed \/ Others(t)) /\ got' = got /\ msgCb' = msgCb
  BY DEF FlushTake
<1>3. ~Others(t)
  BY <1>2
<1>4. \A u \in Threads : ct[u] \notin {"call", "discard"}
  BY <1>1, <1>3 DEF Others
<1>5. f = Len(got) /\ msgCb
  BY <1>1, <1>4 DEF InChannel
<1>6. ct'[t] = "call" /\ \A u \in Threads : u # t => ct'[u] = ct[u]
  BY <1>1, GotoIs DEF TypeOK
<1>7. held'[t] = <<rq[1]>> /\ \A u \in Threads : u # t => held'[u] = held[u]
  BY <1>1, FrontIs DEF TypeOK, ChannelTypes
<1>8. held'[t][1].id = f + 1
  BY <1>7, FrontIs DEF TypeOK, InChannel
<1>9. /\ Len(rq') = Len(rq) - 1
      /\ \A i \in DOMAIN rq' : i + 1 \in DOMAIN rq /\ rq'[i] = rq[i + 1]
  BY <1>1, PopIs DEF TypeOK
<1>10. Len(rq) \in Nat /\ Len(rq') \in Nat /\ DOMAIN rq' \subseteq Nat
  BY <1>1, PopIs DEF TypeOK, ChannelTypes
<1>11. \A i \in DOMAIN rq' : rq'[i].id = (f + 1) + i
  <2> TAKE i \in DOMAIN rq'
  <2>1. rq'[i].id = f + (i + 1) /\ i \in Nat
    BY <1>9, <1>10 DEF InChannel
  <2> QED
    BY <2>1
<1>12. a = (f + 1) + Len(rq') + p
  BY <1>9, <1>10 DEF InChannel
<1>13. (\A u \in Threads : ct'[u] # "push") => p = 0
  BY <1>1, <1>6 DEF InChannel
<1> QED
  BY <1>2, <1>4, <1>5, <1>6, <1>7, <1>8, <1>11, <1>12, <1>13 DEF InChannel

\* The message in hand is the next one the application is given.
LEMMA ChannelCall ==
  ASSUME TypeOK, Holding, NEW a \in Nat, NEW f \in Int, NEW p \in {0, 1}, InChannel(a, f, p),
         NEW t \in Threads, FlushCall(t)
  PROVE  InChannel(a, f, p)'
<1>1. ct[t] = "call" /\ msgCb /\ msgCb' = msgCb /\ rq' = rq
  BY DEF FlushCall, InChannel
<1>2. got' = got \o held[t]
  BY <1>1 DEF FlushCall
<1>3. f = Len(got) + 1 /\ held[t][1].id = Len(got) + 1 /\ Len(held[t]) = 1
  BY <1>1 DEF InChannel, Holding
<1>4. got \in Seq(Message) /\ held[t] \in Seq(Message) /\ Len(got) \in Nat
  BY DEF TypeOK, ChannelTypes
<1>5. got' \in Seq(Message) /\ Len(got') = Len(got) + 1
  <2>1. got \o held[t] \in Seq(Message) /\ Len(got \o held[t]) = Len(got) + Len(held[t])
    BY <1>4, ConcatProperties
  <2> QED
    BY <1>2, <1>3, <2>1
<1>6. \A i \in DOMAIN got' : got'[i].id = i
  <2> TAKE i \in DOMAIN got'
  <2>1. i \in 1 .. Len(got) + 1
    BY <1>5
  <2>2. CASE i \in 1 .. Len(got)
    BY <1>2, <1>4, <2>2, ConcatProperties DEF InChannel
  <2>3. CASE i = Len(got) + 1
    <3>1. i \in 1 .. Len(got) + Len(held[t]) /\ i > Len(got) /\ i - Len(got) = 1
      BY <1>3, <1>4, <2>3
    <3>2. got'[i] = held[t][1]
      BY <1>2, <1>4, <3>1, ConcatProperties
    <3> QED
      BY <1>3, <2>3, <3>2
  <2> QED
    BY <1>4, <2>1, <2>2, <2>3
<1>7. ct'[t] = "loop" /\ \A u \in Threads : u # t => ct'[u] = ct[u]
  BY GotoIs DEF FlushCall, TypeOK
<1>8. \A u \in Threads : u # t => held'[u] = held[u]
  BY DEF FlushCall, TypeOK, ChannelTypes
<1>9. \A u \in Threads : ct'[u] \notin {"call", "discard"}
  BY <1>1, <1>7 DEF InChannel
<1>10. f = Len(got')
  BY <1>3, <1>5
<1> QED
  BY <1>1, <1>6, <1>7, <1>8, <1>9, <1>10 DEF InChannel

\* The message given and discarded is the first one.
LEMMA ChannelDiscard ==
  ASSUME TypeOK, NEW a \in Nat, NEW f \in Int, NEW p \in {0, 1}, InChannel(a, f, p),
         NEW t \in Threads, ReceiveDiscard(t)
  PROVE  InChannel(a, f + 1, p)'
<1>1. ct[t] = "discard" /\ f = Len(got) - 1 /\ Len(rq) # 0
  BY DEF ReceiveDiscard, InChannel
<1>2. rq # <<>> /\ Len(got) \in Nat
  BY <1>1 DEF TypeOK, ChannelTypes
<1>3. Pop /\ msgCb' = msgCb /\ got' = got /\ held' = held
  BY <1>2 DEF ReceiveDiscard
<1>4. ct'[t] = "idle" /\ \A u \in Threads : u # t => ct'[u] = ct[u]
  BY GotoIs DEF ReceiveDiscard, TypeOK
<1>5. \A u \in Threads : ct'[u] \notin {"call", "discard"}
  BY <1>1, <1>4 DEF InChannel
<1>6. /\ Len(rq') = Len(rq) - 1
      /\ \A i \in DOMAIN rq' : i + 1 \in DOMAIN rq /\ rq'[i] = rq[i + 1]
  BY <1>2, <1>3, PopIs DEF TypeOK
<1>7. Len(rq) \in Nat /\ Len(rq') \in Nat /\ DOMAIN rq' \subseteq Nat
  BY <1>2, <1>3, PopIs DEF TypeOK, ChannelTypes
<1>8. \A i \in DOMAIN rq' : rq'[i].id = (f + 1) + i
  <2> TAKE i \in DOMAIN rq'
  <2>1. rq'[i].id = f + (i + 1) /\ i \in Nat
    BY <1>6, <1>7 DEF InChannel
  <2> QED
    BY <2>1
<1>9. a = (f + 1) + Len(rq') + p /\ f + 1 = Len(got)
  BY <1>1, <1>2, <1>6, <1>7 DEF InChannel
<1> QED
  BY <1>1, <1>3, <1>4, <1>5, <1>8, <1>9 DEF InChannel

\* Without a callback nobody has a message in hand but who discards.
LEMMA NobodyTakes ==
  ASSUME NEW a \in Nat, NEW f \in Int, NEW p \in {0, 1}, InChannel(a, f, p),
         NEW t \in Threads, ct[t] = "idle", ~msgCb, ~Others(t)
  PROVE  f = Len(got) /\ \A u \in Threads : ct[u] \notin {"take", "call", "discard"}
<1>1. \A u \in Threads : ct[u] \notin {"take", "call", "discard"}
  BY DEF InChannel, Others
<1> QED
  BY <1>1 DEF InChannel

LEMMA GotFront ==
  ASSUME TypeOK, NEW a \in Nat, NEW f \in Int, NEW p \in {0, 1}, InChannel(a, f, p),
         rq # <<>>, f = Len(got), got' = Append(got, Head(rq))
  PROVE  Len(got') = Len(got) + 1 /\ Len(got) \in Nat /\ \A i \in DOMAIN got' : got'[i].id = i
<1>1. got \in Seq(Message) /\ Len(got) \in Nat /\ Head(rq) \in Message
  BY FrontIs DEF TypeOK, ChannelTypes
<1>2. Len(got') = Len(got) + 1 /\ got' \in Seq(Message) /\ got'[Len(got) + 1] = Head(rq)
  BY <1>1, AppendProperties
<1>3. Head(rq).id = Len(got) + 1
  BY FrontIs DEF InChannel, TypeOK
<1>4. \A i \in DOMAIN got' : i = Len(got) + 1 \/ (i \in DOMAIN got /\ got'[i] = got[i])
  BY <1>1, <1>2, AppendProperties
<1> QED
  BY <1>1, <1>2, <1>3, <1>4 DEF InChannel

LEMMA ChannelReceive ==
  ASSUME TypeOK, NEW a \in Nat, NEW f \in Int, NEW p \in {0, 1}, InChannel(a, f, p),
         NEW t \in Threads, Receive(t), rq # <<>>, ~crossed'
  PROVE  InChannel(a, f + 1, p)'
<1>1. Pop /\ got' = Append(got, Head(rq)) /\ msgCb' = msgCb /\ ct' = ct /\ held' = held /\ ct[t] = "idle" /\ ~msgCb
  BY DEF Receive
<1>2. crossed' = (crossed \/ Others(t))
  BY DEF Receive
<1>3. ~Others(t)
  BY <1>2
<1>4. f = Len(got) /\ \A u \in Threads : ct[u] \notin {"take", "call", "discard"}
  BY <1>1, <1>3, NobodyTakes
<1>5. Len(got') = Len(got) + 1 /\ Len(got) \in Nat /\ \A i \in DOMAIN got' : got'[i].id = i
  BY <1>1, <1>4, GotFront
<1>6. /\ Len(rq') = Len(rq) - 1
      /\ \A i \in DOMAIN rq' : i + 1 \in DOMAIN rq /\ rq'[i] = rq[i + 1]
  BY <1>1, PopIs DEF TypeOK
<1>7. Len(rq) \in Nat /\ Len(rq') \in Nat /\ DOMAIN rq' \subseteq Nat
  BY <1>1, PopIs, SMTT(40) DEF TypeOK, ChannelTypes
<1>8. \A i \in DOMAIN rq' : rq'[i].id = (f + 1) + i
  <2> TAKE i \in DOMAIN rq'
  <2>1. rq'[i].id = f + (i + 1) /\ i \in Nat
    BY <1>6, <1>7 DEF InChannel
  <2> QED
    BY <2>1
<1>9. a = (f + 1) + Len(rq') + p /\ f + 1 = Len(got')
  BY <1>4, <1>5, <1>6, <1>7 DEF InChannel
<1> QED
  BY <1>1, <1>4, <1>5, <1>8, <1>9 DEF InChannel

LEMMA ChannelReceivePeek ==
  ASSUME TypeOK, NEW a \in Nat, NEW f \in Int, NEW p \in {0, 1}, InChannel(a, f, p),
         NEW t \in Threads, ReceivePeek(t), ~crossed'
  PROVE  InChannel(a, f, p)'
<1>1. /\ rq # <<>> /\ rq' = <<Peeked>> \o Tail(rq) /\ got' = Append(got, Head(rq)) /\ msgCb' = msgCb
      /\ held' = held /\ ct[t] = "idle" /\ ~msgCb
  BY DEF ReceivePeek
<1>2. crossed' = (crossed \/ Others(t))
  BY DEF ReceivePeek
<1>3. ~Others(t)
  BY <1>2
<1>4. f = Len(got) /\ \A u \in Threads : ct[u] \notin {"take", "call", "discard"}
  BY <1>1, <1>3, NobodyTakes
<1>5. Len(got') = Len(got) + 1 /\ Len(got) \in Nat /\ \A i \in DOMAIN got' : got'[i].id = i
  BY <1>1, <1>4, GotFront
<1>6. Len(rq') = Len(rq) /\ (\A i \in DOMAIN rq' : i \in DOMAIN rq /\ rq'[i].id = rq[i].id) /\ Len(rq) # 0
  BY <1>1, PeekedIs, FrontIs DEF TypeOK
<1>7. ct'[t] = "discard" /\ \A u \in Threads : u # t => ct'[u] = ct[u]
  BY GotoIs DEF ReceivePeek, TypeOK
<1>8. \A i \in DOMAIN rq' : rq'[i].id = f + i
  BY <1>6 DEF InChannel
<1>9. f = Len(got') - 1
  BY <1>4, <1>5
<1> QED
  BY <1>1, <1>4, <1>5, <1>6, <1>7, <1>8, <1>9, ZenonT(40) DEF InChannel

LEMMA InChannelStep ==
  ASSUME TypeOK, Workers, Holding, NEW a \in Nat, NEW f \in Int, NEW p \in {0, 1}, InChannel(a, f, p),
         ChannelStep, ~crossed', ~unset'
  PROVE  \E g \in Int, q \in {0, 1} : InChannel(a, g, q)'
<1>0. f + 1 \in Int /\ 0 \in {0, 1}
  OBVIOUS
<1>1. \A t \in Threads : \A pc : Goto(t, pc) => ct'[t] = pc /\ \A u \in Threads : u # t => ct'[u] = ct[u]
  BY GotoIs DEF TypeOK
<1>2. ASSUME NEW t \in Threads, NEW pc \in {"flush", "loop", "take", "idle"}, Goto(t, pc),
             ct[t] \notin {"call", "discard", "push"}, pc = "take" => msgCb', msgCb => msgCb',
             UNCHANGED <<got, held, rq>>
      PROVE  InChannel(a, f, p)'
  BY <1>1, <1>2, ChannelStays
<1>3. ASSUME NEW t \in Threads, Progress(t) PROVE \E g \in Int, q \in {0, 1} : InChannel(a, g, q)'
  <2>1. CASE Push(t)
    BY <1>0, <2>1, ChannelPush
  <2>2. CASE Available(t) \/ TriggerOpen(t)
    <3>1. Goto(t, "flush") /\ ct[t] \in {"available", "open"} /\ UNCHANGED <<got, held, rq>> /\ msgCb' = msgCb
      BY <2>2 DEF Available, TriggerOpen
    <3> QED
      BY <3>1, <1>2
  <2>3. CASE FlushTest(t)
    <3>1. (Goto(t, "loop") \/ Goto(t, "idle")) /\ ct[t] = "flush" /\ UNCHANGED <<got, held, rq>> /\ msgCb' = msgCb
      BY <2>3 DEF FlushTest
    <3> QED
      BY <3>1, <1>2
  <2>4. CASE FlushLoop(t)
    <3>1. ((Goto(t, "take") /\ msgCb) \/ Goto(t, "idle")) /\ ct[t] = "loop" /\ UNCHANGED <<got, held, rq>> /\ msgCb' = msgCb
      BY <2>4 DEF FlushLoop
    <3> QED
      BY <3>1, <1>2
  <2>5. CASE FlushTake(t)
    <3>1. CASE rq = <<>>
      <4>1. Goto(t, "idle") /\ ct[t] = "take" /\ UNCHANGED <<got, held, rq>> /\ msgCb' = msgCb
        BY <2>5, <3>1 DEF FlushTake
      <4> QED
        BY <4>1, <1>2
    <3>2. CASE rq # <<>>
      BY <1>0, <2>5, <3>2, ChannelTake
    <3> QED
      BY <3>1, <3>2
  <2>6. CASE FlushCall(t)
    BY <2>6, ChannelCall
  <2>7. CASE ReceiveDiscard(t)
    BY <1>0, <2>7, ChannelDiscard
  <2> QED
    BY <1>3, <2>1, <2>2, <2>3, <2>4, <2>5, <2>6, <2>7 DEF Progress
<1>4. ASSUME NEW t \in Apps, Application(t, setup.calls) PROVE \E g \in Int, q \in {0, 1} : InChannel(a, g, q)'
  <2>0. t \in Threads
    BY ThreadsAre
  <2>1. CASE OnMessage(t, TRUE)
    <3>1. Goto(t, "flush") /\ ct[t] = "idle" /\ UNCHANGED <<got, held, rq>> /\ msgCb'
      BY <2>1 DEF OnMessage
    <3> QED
      BY <2>0, <3>1, <1>2
  <2>2. CASE OnMessage(t, FALSE)
    <3>1. unset' = (unset \/ ~FALSE)
      BY <2>2 DEF OnMessage
    <3> QED
      BY <3>1
  <2>3. CASE OnAvailable(t)
    BY <2>3, ZenonT(40) DEF OnAvailable, InChannel
  <2>4. CASE Receive(t)
    <3>1. CASE rq = <<>>
      BY <2>4, <3>1 DEF Receive, InChannel
    <3>2. CASE rq # <<>>
      BY <1>0, <2>0, <2>4, <3>2, ChannelReceive
    <3> QED
      BY <3>1, <3>2
  <2>5. CASE Peek(t)
    <3>1. Len(rq') = Len(rq) /\ (\A i \in DOMAIN rq' : i \in DOMAIN rq /\ rq'[i].id = rq[i].id)
      BY <2>5, PeekedIs DEF Peek, TypeOK
    <3>2. UNCHANGED <<got, held, ct, msgCb>>
      BY <2>5 DEF Peek
    <3>3. InChannel(a, f, p)'
      BY <3>1, <3>2 DEF InChannel
    <3> QED
      BY <3>3
  <2>6. CASE ReceivePeek(t)
    BY <2>0, <2>6, ChannelReceivePeek
  <2> QED
    BY <1>4, <2>1, <2>2, <2>3, <2>4, <2>5, <2>6 DEF Application
<1> QED
  BY <1>3, <1>4 DEF ChannelStep

\* recv() with a message: the worker has the one after the a that came before.
LEMMA ChannelUp ==
  ASSUME TypeOK, Workers, NEW a \in Nat, NEW f \in Int, NEW p \in {0, 1}, InChannel(a, f, p),
         NEW k \in Carriers, PopUp(k)
  PROVE  /\ Head(iq).kind = "open" => InChannel(a, f, p)'
         /\ Head(iq).kind = "data" /\ Head(iq).id = a + 1 => InChannel(a + 1, f, 1)'
<1>0. k \in Threads /\ ct[k] = "idle" /\ tw[k] = "pop"
  BY ThreadsAre DEF PopUp, Workers, Roles
<1>1. \A u \in Threads : u # k => ct'[u] = ct[u] /\ held'[u] = held[u]
  BY UpIs
<1>2. UNCHANGED <<rq, got, msgCb>>
  BY UpIs
<1>3. CASE Head(iq).kind = "open"
  <2>1. ct'[k] = "open"
    BY <1>0, <1>3, GotoIs DEF PopUp, TypeOK
  <2> QED
    BY <1>0, <1>1, <1>2, <1>3, <2>1, ChannelStays
<1>4. CASE Head(iq).kind = "data" /\ Head(iq).id = a + 1
  <2>1. ct'[k] = "push"
    BY <1>0, <1>4, GotoIs DEF PopUp, TypeOK
  <2>2. held'[k] = <<[id |-> Head(iq).id, size |-> 1]>>
    BY <1>0, <1>4 DEF PopUp, TypeOK, ChannelTypes
  <2>3. held'[k][1].id = a + 1
    BY <1>4, <2>2
  <2>4. lock = k
    BY <1>0 DEF Workers, Locking, Inside
  <2>5. \A u \in Threads : ct[u] # "push"
    BY <2>4, <1>0, ThreadsAre DEF Workers, Locking, Roles, Inside
  <2>6. p = 0 /\ a = f + Len(rq) + p /\ Len(rq) \in Nat
    BY <2>5 DEF InChannel, TypeOK, ChannelTypes
  <2>7. a + 1 = f + Len(rq) + 1
    BY <2>6
  <2> QED
    BY <1>0, <1>1, <1>2, <1>4, <2>1, <2>3, <2>5, <2>7 DEF InChannel
<1> QED
  BY <1>3, <1>4

-----------------------------------------------------------------------------
(* GivenInOrder: mIncomingQueue                                            *)

Data(c) == c.kind = "data"

\* mIncomingQueue has the messages after a up to b, each once and in order, among
\* other chunks; as long as it takes any, the next one is the one the peer sends.
InQueue(a, b) ==
  /\ a <= b
  /\ \A i \in DOMAIN iq : Data(iq[i]) => a < iq[i].id /\ iq[i].id <= b
  /\ \A n \in a + 1 .. b : \E i \in DOMAIN iq : Data(iq[i]) /\ iq[i].id = n
  /\ \A i, j \in DOMAIN iq : i < j /\ Data(iq[i]) /\ Data(iq[j]) => iq[i].id < iq[j].id
  /\ ~stopping /\ ts[Poll] = "push" /\ Data(chunk) => brought = b + 1
  /\ ~stopping /\ ~(ts[Poll] = "push" /\ Data(chunk)) => brought = b
  /\ ts[Poll] = "push" /\ Data(chunk) => chunk.id = brought

InOrder == ~crossed /\ ~unset =>
  \E a, b \in Nat, f \in Int, p \in {0, 1} : InChannel(a, f, p) /\ InQueue(a, b)

LEMMA TailIs ==
  ASSUME TlsTypes, iq # <<>>, iq' = Tail(iq)
  PROVE  /\ \A i \in DOMAIN iq' : i \in Nat /\ i + 1 \in DOMAIN iq /\ iq'[i] = iq[i + 1]
         /\ \A i \in DOMAIN iq : i \in Nat /\ (i # 1 => i - 1 \in DOMAIN iq' /\ iq'[i - 1] = iq[i])
         /\ 1 \in DOMAIN iq
<1>1. iq' \in Seq(Chunks) /\ Len(iq') = Len(iq) - 1 /\ DOMAIN iq' = 1 .. Len(iq) - 1
  BY DEF TlsTypes
<1>2. Len(iq) \in Nat \ {0} /\ DOMAIN iq = 1 .. Len(iq)
  BY DEF TlsTypes
<1>3. \A i \in 1 .. Len(iq) - 1 : iq'[i] = iq[i + 1]
  BY <1>2 DEF TlsTypes
<1>4. ASSUME NEW i \in DOMAIN iq, i # 1 PROVE i - 1 \in DOMAIN iq' /\ iq'[i - 1] = iq[i]
  <2>1. i - 1 \in 1 .. Len(iq) - 1 /\ (i - 1) + 1 = i
    BY <1>2, <1>4
  <2> QED
    BY <1>1, <1>3, <2>1
<1>5. \A i \in DOMAIN iq' : i \in Nat /\ i + 1 \in DOMAIN iq /\ iq'[i] = iq[i + 1]
  BY <1>1, <1>2, <1>3
<1> QED
  BY <1>2, <1>4, <1>5

\* Chunks other than messages may be taken ...
LEMMA QueueOther ==
  ASSUME TlsTypes, NEW a \in Nat, NEW b \in Nat, InQueue(a, b), iq # <<>>, ~Data(Head(iq)), iq' = Tail(iq),
         stopping => stopping', UNCHANGED <<ts, chunk, brought>>
  PROVE  InQueue(a, b)'
<1>0. Head(iq) = iq[1]
  BY HeadIs
<1>1. \A i \in DOMAIN iq' : Data(iq'[i]) => a < iq'[i].id /\ iq'[i].id <= b
  BY TailIs DEF InQueue
<1>2. \A n \in a + 1 .. b : \E i \in DOMAIN iq' : Data(iq'[i]) /\ iq'[i].id = n
  <2> TAKE n \in a + 1 .. b
  <2>1. PICK i \in DOMAIN iq : Data(iq[i]) /\ iq[i].id = n
    BY DEF InQueue
  <2>2. i # 1
    BY <1>0, <2>1
  <2> QED
    BY <2>1, <2>2, TailIs
<1>3. \A i, j \in DOMAIN iq' : i < j /\ Data(iq'[i]) /\ Data(iq'[j]) => iq'[i].id < iq'[j].id
  <2> SUFFICES ASSUME NEW i \in DOMAIN iq', NEW j \in DOMAIN iq', i < j, Data(iq'[i]), Data(iq'[j])
               PROVE  iq'[i].id < iq'[j].id
    OBVIOUS
  <2>1. i + 1 \in DOMAIN iq /\ j + 1 \in DOMAIN iq /\ i + 1 < j + 1
    BY TailIs
  <2> QED
    BY <2>1, TailIs DEF InQueue
<1> QED
  BY <1>1, <1>2, <1>3 DEF InQueue

\* ... and a message that is taken is the next.
LEMMA QueueNext ==
  ASSUME TlsTypes, NEW a \in Nat, NEW b \in Nat, InQueue(a, b), iq # <<>>, Data(Head(iq)), iq' = Tail(iq),
         stopping => stopping', UNCHANGED <<ts, chunk, brought>>
  PROVE  Head(iq).id = a + 1 /\ InQueue(a + 1, b)'
<1>0. Head(iq) = iq[1] /\ 1 \in DOMAIN iq /\ \A i \in DOMAIN iq : i \in Nat
  BY HeadIs, TailIs
<1>t. \A i \in DOMAIN iq : iq[i].id \in Nat
  <2>1. \A c \in Chunks : c.id \in Nat
    BY ChannelAssumption DEF Chunks
  <2>2. \A i \in DOMAIN iq : iq[i] \in Chunks
    BY DEF TlsTypes
  <2> QED
    BY <2>1, <2>2
<1>d. DOMAIN iq = 1 .. Len(iq) /\ Len(iq) \in Nat
  BY DEF TlsTypes
<1>1. a < iq[1].id /\ iq[1].id <= b
  BY <1>0 DEF InQueue
<1>2. a + 1 \in a + 1 .. b
  BY <1>0, <1>1, <1>t
<1>3. PICK i \in DOMAIN iq : Data(iq[i]) /\ iq[i].id = a + 1
  BY <1>2 DEF InQueue
<1>4. i = 1
  <2> SUFFICES ASSUME i # 1 PROVE FALSE
    OBVIOUS
  <2>1. 1 < i
    BY <1>d
  <2>2. iq[1].id < iq[i].id
    BY <1>0, <1>3, <2>1 DEF InQueue
  <2> QED
    BY <1>0, <1>1, <1>3, <1>t, <2>2
<1>5. iq[1].id = a + 1
  BY <1>3, <1>4
<1>6. \A j \in DOMAIN iq' : Data(iq'[j]) => a + 1 < iq'[j].id /\ iq'[j].id <= b
  <2> SUFFICES ASSUME NEW j \in DOMAIN iq', Data(iq'[j]) PROVE a + 1 < iq'[j].id /\ iq'[j].id <= b
    OBVIOUS
  <2>1. j + 1 \in DOMAIN iq /\ iq'[j] = iq[j + 1] /\ 1 < j + 1
    BY <1>d, TailIs
  <2>2. iq[1].id < iq[j + 1].id /\ iq[j + 1].id <= b
    BY <1>0, <2>1 DEF InQueue
  <2> QED
    BY <1>5, <2>1, <2>2
<1>7. \A n \in (a + 1) + 1 .. b : \E j \in DOMAIN iq' : Data(iq'[j]) /\ iq'[j].id = n
  <2> TAKE n \in (a + 1) + 1 .. b
  <2>1. n \in a + 1 .. b /\ n # a + 1
    OBVIOUS
  <2>2. PICK j \in DOMAIN iq : Data(iq[j]) /\ iq[j].id = n
    BY <2>1 DEF InQueue
  <2>3. j # 1
    BY <1>5, <2>1, <2>2
  <2> QED
    BY <2>2, <2>3, TailIs
<1>8. \A i_1, j \in DOMAIN iq' : i_1 < j /\ Data(iq'[i_1]) /\ Data(iq'[j]) => iq'[i_1].id < iq'[j].id
  <2> SUFFICES ASSUME NEW m \in DOMAIN iq', NEW j \in DOMAIN iq', m < j, Data(iq'[m]), Data(iq'[j])
               PROVE  iq'[m].id < iq'[j].id
    OBVIOUS
  <2>1. m + 1 \in DOMAIN iq /\ j + 1 \in DOMAIN iq /\ m + 1 < j + 1
    BY TailIs
  <2> QED
    BY <2>1, TailIs DEF InQueue
<1>9. a + 1 <= b
  BY <1>1, <1>5
<1> QED
  BY <1>0, <1>5, <1>6, <1>7, <1>8, <1>9 DEF InQueue

\* A message that comes in is put behind those that wait, or dropped with all that
\* follow.
LEMMA QueuePush ==
  ASSUME TlsTypes, NEW a \in Nat, NEW b \in Nat, InQueue(a, b), IncomingPush
  PROVE  InQueue(a, b)' \/ InQueue(a, b + 1)'
<1>0. ts'[Poll] = "test"
  BY MoveIs DEF IncomingPush
<1>1. ts[Poll] = "push" /\ chunk \in Chunks /\ brought' = brought
  BY DEF IncomingPush, TlsTypes
<1>a. a <= b /\ a <= b + 1
  BY DEF InQueue
<1>2. CASE stopping \/ chunk.kind = "end"
  <2>1. iq' = iq
    BY <1>2 DEF IncomingPush
  <2>2. stopping' = (stopping \/ chunk.kind = "end")
    BY DEF IncomingPush
  <2>3. stopping'
    BY <1>2, <2>2
  <2> QED
    BY <1>0, <2>1, <2>3 DEF InQueue
<1>3. CASE ~(stopping \/ chunk.kind = "end")
  <2>1. iq' = Append(iq, chunk)
    BY <1>3 DEF IncomingPush
  <2>2. DOMAIN iq = 1 .. Len(iq) /\ Len(iq) \in Nat /\ iq \in Seq(Chunks)
    BY DEF TlsTypes
  <2>3. Len(iq') = Len(iq) + 1 /\ iq' \in Seq(Chunks) /\ iq'[Len(iq) + 1] = chunk
    BY <1>1, <2>1, <2>2, AppendProperties
  <2>4. \A i \in DOMAIN iq : i \in DOMAIN iq' /\ iq'[i] = iq[i]
    BY <1>1, <2>1, <2>2, <2>3, AppendProperties
  <2>5. \A i \in DOMAIN iq' : i \in DOMAIN iq \/ i = Len(iq) + 1
    BY <2>2, <2>3
  <2>a. Len(iq) + 1 \in DOMAIN iq'
    BY <2>2, <2>3
  <2>6. CASE ~Data(chunk)
    <3>0. brought = b
      BY <1>3, <2>6 DEF InQueue
    <3>1. \A i \in DOMAIN iq' : Data(iq'[i]) => a < iq'[i].id /\ iq'[i].id <= b
      BY <2>3, <2>4, <2>5, <2>6 DEF InQueue
    <3>2. \A n \in a + 1 .. b : \E i \in DOMAIN iq' : Data(iq'[i]) /\ iq'[i].id = n
      BY <2>4 DEF InQueue
    <3>3. \A i, j \in DOMAIN iq' : i < j /\ Data(iq'[i]) /\ Data(iq'[j]) => iq'[i].id < iq'[j].id
      BY <2>3, <2>4, <2>5, <2>6 DEF InQueue
    <3> QED
      BY <1>0, <1>1, <1>a, <3>0, <3>1, <3>2, <3>3 DEF InQueue
  <2>7. CASE Data(chunk)
    <3>0. brought = b + 1 /\ chunk.id = b + 1
      BY <1>1, <1>3, <2>7 DEF InQueue
    <3>t. \A i \in DOMAIN iq : iq[i].id \in Nat
      <4>1. \A c \in Chunks : c.id \in Nat
        BY ChannelAssumption DEF Chunks
      <4>2. \A i \in DOMAIN iq : iq[i] \in Chunks
        BY <2>2
      <4> QED
        BY <4>1, <4>2
    <3>1. \A i \in DOMAIN iq' : Data(iq'[i]) => a < iq'[i].id /\ iq'[i].id <= b + 1
      <4> SUFFICES ASSUME NEW i \in DOMAIN iq', Data(iq'[i]) PROVE a < iq'[i].id /\ iq'[i].id <= b + 1
        OBVIOUS
      <4>1. CASE i \in DOMAIN iq
        <5>1. iq'[i] = iq[i] /\ a < iq[i].id /\ iq[i].id <= b /\ iq[i].id \in Nat
          BY <2>4, <4>1, <3>t DEF InQueue
        <5> QED
          BY <5>1
      <4>2. CASE i = Len(iq) + 1
        BY <1>a, <2>3, <3>0, <4>2
      <4> QED
        BY <2>5, <4>1, <4>2
    <3>2. \A n \in a + 1 .. b + 1 : \E i \in DOMAIN iq' : Data(iq'[i]) /\ iq'[i].id = n
      <4> TAKE n \in a + 1 .. b + 1
      <4>1. CASE n \in a + 1 .. b
        BY <2>4, <4>1 DEF InQueue
      <4>2. CASE n = b + 1
        BY <2>3, <2>7, <2>a, <3>0, <4>2
      <4> QED
        BY <4>1, <4>2
    <3>3. \A i, j \in DOMAIN iq' : i < j /\ Data(iq'[i]) /\ Data(iq'[j]) => iq'[i].id < iq'[j].id
      <4> SUFFICES ASSUME NEW i \in DOMAIN iq', NEW j \in DOMAIN iq', i < j, Data(iq'[i]), Data(iq'[j])
                   PROVE  iq'[i].id < iq'[j].id
        OBVIOUS
      <4>1. i \in DOMAIN iq
        BY <2>2, <2>5
      <4>2. CASE j \in DOMAIN iq
        BY <2>4, <4>1, <4>2 DEF InQueue
      <4>3. CASE j = Len(iq) + 1
        <5>1. iq'[i] = iq[i] /\ iq[i].id <= b /\ iq[i].id \in Nat /\ iq'[j].id = b + 1
          BY <2>3, <2>4, <3>0, <3>t, <4>1, <4>3 DEF InQueue
        <5> QED
          BY <5>1
      <4> QED
        BY <2>5, <4>2, <4>3
    <3> QED
      BY <1>0, <1>1, <1>a, <3>0, <3>1, <3>2, <3>3 DEF InQueue
  <2> QED
    BY <2>6, <2>7
<1> QED
  BY <1>2, <1>3

LEMMA QueuePoll ==
  ASSUME TlsTypes, NEW a \in Nat, NEW b \in Nat, InQueue(a, b), PollStep
  PROVE  InQueue(a, b)' \/ InQueue(a, b + 1)'
<1>0. Poll \in {Poll, Stopper} /\ Stopper \in {Poll, Stopper} /\ Poll # Stopper
  BY TlsAssumption
<1>1. ASSUME NEW c \in Chunks, Incoming(c) PROVE InQueue(a, b)'
  <2>1. ts[Poll] = "idle" /\ ts'[Poll] = "push" /\ chunk' = c /\ iq' = iq /\ stopping' = stopping
    BY <1>0, <1>1, MoveIs DEF Incoming
  <2>2. ~stopping => brought = b
    BY <2>1 DEF InQueue
  <2>3. Data(c) => c.id = brought + 1 /\ brought' = c.id
    BY <1>1, IncomingIs DEF Data
  <2>4. ~Data(c) => brought' = brought
    BY <1>1, IncomingIs DEF Data
  <2> QED
    BY <2>1, <2>2, <2>3, <2>4 DEF InQueue
<1>2. CASE StartHandshake \/ Start \/ Stop \/ StopQueue \/ EnqueueRecv
  <2>1. iq' = iq /\ brought' = brought /\ chunk' = chunk
    BY <1>2 DEF StartHandshake, Start, Stop, StopQueue, EnqueueRecv, EnqueueTest, EnqueueTask
  <2>2. stopping => stopping'
    BY <1>2 DEF StartHandshake, Start, Stop, StopQueue, EnqueueRecv, EnqueueTest, EnqueueTask
  <2>3. ts'[Poll] = "push" <=> ts[Poll] = "push"
    <3>1. CASE StartHandshake
      BY <3>1 DEF StartHandshake
    <3>2. CASE Start
      BY <1>0, <3>2, MoveIs DEF Start
    <3>3. CASE Stop \/ StopQueue
      BY <1>0, <3>3, MoveIs DEF Stop, StopQueue
    <3>4. CASE EnqueueRecv
      <4> PICK t \in {Poll, Stopper} : EnqueueTest(t) \/ EnqueueTask(t)
        BY <3>4 DEF EnqueueRecv
      <4>1. PICK pc \in {"idle", "task", "startTask"} : Move(t, pc)
        BY DEF EnqueueTest, EnqueueTask
      <4>2. ts[t] # "push"
        BY DEF EnqueueTest, EnqueueTask
      <4> QED
        BY <1>0, <4>1, <4>2, MoveIs
    <3> QED
      BY <1>2, <3>1, <3>2, <3>3, <3>4
  <2> QED
    BY <2>1, <2>2, <2>3 DEF InQueue
<1> QED
  BY <1>1, <1>2, QueuePush DEF PollStep

\* Of a worker's steps, those that take something take it from the front.
LEMMA QueueWork ==
  ASSUME TypeOK, NEW k \in Carriers, Take(k) \/ DoRecv(k), NEW a \in Nat, NEW b \in Nat, InQueue(a, b)
  PROVE  /\ PopUp(k) /\ Data(Head(iq)) => Head(iq).id = a + 1 /\ InQueue(a + 1, b)'
         /\ ~(PopUp(k) /\ Data(Head(iq))) => InQueue(a, b)'
<1>0. UNCHANGED <<ts, chunk, brought>> /\ TlsTypes
  BY WorkerMoves DEF TypeOK
<1>1. stopping => stopping'
  BY DEF DoRecv, Take, Begin, Test, PopNone, PopPart, PopIdle, PopSpent, PopFinished, PopUp, UpReturns, PopClose, End
<1>2. CASE PopUp(k) /\ Data(Head(iq))
  BY <1>0, <1>1, <1>2, QueueNext DEF PopUp
<1>3. CASE ~(PopUp(k) /\ Data(Head(iq)))
  <2>1. iq' = iq \/ (iq # <<>> /\ iq' = Tail(iq) /\ ~Data(Head(iq)))
    BY <1>3 DEF DoRecv, Take, Begin, Test, PopNone, PopPart, PopIdle, PopSpent, PopFinished, PopUp, UpReturns, PopClose, End, Data
  <2>2. ASSUME iq' = iq PROVE InQueue(a, b)'
    BY <1>0, <1>1, <2>2 DEF InQueue
  <2>3. ASSUME iq # <<>>, iq' = Tail(iq), ~Data(Head(iq)) PROVE InQueue(a, b)'
    BY <1>0, <1>1, <2>3, QueueOther
  <2> QED
    BY <1>3, <2>1, <2>2, <2>3
<1> QED
  BY <1>2, <1>3

\* What was lost stays lost.
LEMMA LostBefore ==
  ASSUME [Next]_vars, ~crossed', ~unset'
  PROVE  ~crossed /\ ~unset
<1>1. CASE UNCHANGED <<crossed, unset>>
  BY <1>1
<1>2. ASSUME NEW t \in Threads, crossed' = (crossed \/ Others(t)), unset' = unset PROVE ~crossed /\ ~unset
  BY <1>2
<1>3. ASSUME NEW set \in BOOLEAN, unset' = (unset \/ ~set), crossed' = crossed PROVE ~crossed /\ ~unset
  BY <1>3
<1>4. CASE PollStep
  BY <1>1, <1>4, PollKeeps DEF chVars
<1>5. CASE WorkerStep
  BY <1>1, <1>5 DEF WorkerStep, DoRecv, Take, Begin, Test, PopNone, PopPart, PopIdle, PopSpent, PopFinished, PopUp,
     UpReturns, PopClose, End, chVars
<1>6. ASSUME NEW t \in Threads, Progress(t) PROVE ~crossed /\ ~unset
  <2>1. CASE FlushTake(t)
    BY <1>1, <1>2, <2>1 DEF FlushTake
  <2>2. CASE ~FlushTake(t)
    BY <1>1, <1>6, <2>2 DEF Progress, Push, Available, TriggerOpen, FlushTest, FlushLoop, FlushCall, ReceiveDiscard
  <2> QED
    BY <2>1, <2>2
<1>7. ASSUME NEW t \in Apps, Application(t, setup.calls) PROVE ~crossed /\ ~unset
  <2>0. t \in Threads
    BY ThreadsAre
  <2>1. CASE OnMessage(t, TRUE) \/ OnMessage(t, FALSE)
    <3>1. \E set \in BOOLEAN : unset' = (unset \/ ~set) /\ crossed' = crossed
      BY <2>1 DEF OnMessage
    <3> QED
      BY <3>1, <1>3
  <2>2. CASE OnAvailable(t) \/ Peek(t)
    BY <1>1, <2>2 DEF OnAvailable, Peek
  <2>3. CASE Receive(t) \/ ReceivePeek(t)
    BY <1>1, <1>2, <2>0, <2>3 DEF Receive, ReceivePeek
  <2> QED
    BY <1>7, <2>1, <2>2, <2>3 DEF Application
<1>8. CASE UNCHANGED vars
  BY <1>1, <1>8 DEF vars, chVars
<1> QED
  BY <1>4, <1>5, <1>6, <1>7, <1>8, Steps DEF ChannelStep

LEMMA InOrderStep ==
  ASSUME TypeOK, Workers, Holding, InOrder, [Next]_vars
  PROVE  InOrder'
<1> SUFFICES ASSUME ~crossed', ~unset'
             PROVE  \E a, b \in Nat, f \in Int, p \in {0, 1} : InChannel(a, f, p)' /\ InQueue(a, b)'
  BY DEF InOrder
<1>0. PICK a \in Nat, b \in Nat, f \in Int, p \in {0, 1} : InChannel(a, f, p) /\ InQueue(a, b)
  BY LostBefore DEF InOrder
<1>1. CASE PollStep
  <2>1. InChannel(a, f, p)'
    BY <1>0, <1>1, PollKeeps DEF InChannel, chVars
  <2>2. InQueue(a, b)' \/ InQueue(a, b + 1)'
    BY <1>0, <1>1, QueuePoll DEF TypeOK
  <2>3. b + 1 \in Nat
    OBVIOUS
  <2> QED
    BY <2>1, <2>2, <2>3
<1>2. CASE WorkerStep
  <2> PICK k \in Carriers : Take(k) \/ DoRecv(k)
    BY <1>2 DEF WorkerStep
  <2>1. CASE PopUp(k) /\ Data(Head(iq))
    <3>1. Head(iq).id = a + 1 /\ InQueue(a + 1, b)'
      BY <1>0, <2>1, QueueWork
    <3>2. InChannel(a + 1, f, 1)'
      BY <1>0, <2>1, <3>1, ChannelUp DEF Data
    <3>3. a + 1 \in Nat /\ 1 \in {0, 1}
      OBVIOUS
    <3> QED
      BY <3>1, <3>2, <3>3
  <2>2. CASE PopUp(k) /\ ~Data(Head(iq))
    <3>1. InQueue(a, b)'
      BY <1>0, <2>2, QueueWork
    <3>2. InChannel(a, f, p)'
      BY <1>0, <2>2, ChannelUp DEF Data, PopUp
    <3> QED
      BY <3>1, <3>2
  <2>3. CASE ~PopUp(k)
    <3>1. InQueue(a, b)'
      BY <1>0, <2>3, QueueWork
    <3>2. UNCHANGED chVars
      BY <2>3 DEF DoRecv, Take, Begin, Test, PopNone, PopPart, PopIdle, PopSpent, PopFinished, UpReturns, PopClose, End
    <3>3. InChannel(a, f, p)'
      BY <1>0, <3>2 DEF InChannel, chVars
    <3> QED
      BY <3>1, <3>3
  <2> QED
    BY <2>1, <2>2, <2>3
<1>3. CASE ChannelStep
  <2>1. InQueue(a, b)'
    BY <1>0, <1>3 DEF ChannelStep, tlsVars, InQueue
  <2>2. \E g \in Int, q \in {0, 1} : InChannel(a, g, q)'
    BY <1>0, <1>3, InChannelStep
  <2> QED
    BY <2>1, <2>2
<1>4. CASE UNCHANGED vars
  <2>1. InQueue(a, b)'
    BY <1>0, <1>4 DEF vars, tlsVars, InQueue
  <2>2. InChannel(a, f, p)'
    BY <1>0, <1>4 DEF vars, chVars, InChannel
  <2> QED
    BY <2>1, <2>2
<1> QED
  BY <1>1, <1>2, <1>3, <1>4, Steps

\* From the peer to the application: through mIncomingQueue, the workers of doRecv(),
\* mRecvQueue and the threads that flush, receive or discard, for any number of them
\* and any limits of the queues, messages are given in the order of their arrival,
\* each once and none left out; unless the callback was taken away or two threads
\* had a message in hand at once.
THEOREM GivenOrder == Spec => []GivenInOrder
<1>1. Init => InOrder
  <2> SUFFICES ASSUME Init PROVE InOrder
    OBVIOUS
  <2>1. \A t \in Threads : ct[t] = "idle"
    BY DEF Init, ChannelInit
  <2>2. DOMAIN rq = {} /\ DOMAIN got = {} /\ Len(rq) = 0 /\ Len(got) = 0
    BY DEF Init, ChannelInit
  <2>3. InChannel(0, 0, 0)
    BY <2>1, <2>2 DEF InChannel
  <2>4. DOMAIN iq = {} /\ brought = 0 /\ ts[Poll] # "push"
    BY InitTypes DEF Init
  <2>5. InQueue(0, 0)
    BY <2>4 DEF InQueue
  <2>6. 0 \in Nat /\ 0 \in Int /\ 0 \in {0, 1}
    OBVIOUS
  <2> QED
    BY <2>3, <2>5, <2>6 DEF InOrder
<1>2. TypeOK /\ Workers /\ Holding /\ InOrder /\ [Next]_vars => InOrder'
  BY InOrderStep
<1>3. InOrder => GivenInOrder
  BY DEF InOrder, InChannel, GivenInOrder
<1> QED
  BY <1>1, <1>2, <1>3, HoldingInductive, PTL DEF Spec

=============================================================================
