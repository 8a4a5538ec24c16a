------------------------------- MODULE Channel -------------------------------
(***************************************************************************)
(* The receiving end of a channel: Queue (src/impl/queue.hpp), Channel     *)
(* (src/impl/channel.cpp, src/channel.cpp), the part of impl::WebSocket    *)
(* that fills and empties mRecvQueue, and wscReceiveMessage() of the C API. *)
(*                                                                         *)
(* A thread of the transports brings messages, an application thread takes *)
(* them: by receive() and peek() as long as there is no message callback,  *)
(* as include/channel.hpp asks for, or by the callback.  Messages are      *)
(* numbered in the order of their arrival; a message has its content, of   *)
(* size 1, or was emptied by peek(), which moves binary content out.       *)
(***************************************************************************)
EXTENDS Naturals, Sequences, FiniteSets

CONSTANTS
  Carriers,   \* threads that bring messages: workers of the ThreadPool
  Apps,       \* threads of the application
  Limit,      \* RECV_QUEUE_LIMIT of mRecvQueue
  MaxMsgs,    \* bound: messages
  Binary      \* which of them are binary; the others are strings

ASSUME ChannelAssumption ==
  Limit \in Nat \ {0} /\ MaxMsgs \in Nat /\ Carriers \cap Apps = {}

Threads == Carriers \cup Apps
Ids     == 1..MaxMsgs

VARIABLES
  rq,       \* mRecvQueue
  amount,   \* its mAmount
  opened,   \* mOpenTriggered
  msgCb,    \* is there a messageCallback
  availCb,  \* is there an availableCallback
  stored,   \* has it a missed call to replay
  ct,       \* per thread: where it is in incoming(), flushPendingMessages(), ...
  held,     \* per thread: the message it has taken, as a sequence of at most one
  got,      \* what the application was given
  quiet,    \* has the application found the queue empty, and not been called since
  crossed,  \* did a thread take a message while another one had one
  unset     \* was the message callback taken away

chVars == <<rq, amount, opened, msgCb, availCb, stored, ct, held, got, quiet, crossed, unset>>

Goto(t, pc) == ct' = [ct EXCEPT ![t] = pc]

-----------------------------------------------------------------------------
(* incoming(), triggerAvailable(), triggerOpen()                           *)

\* push() waits while the queue is full; nothing stops mRecvQueue.
Push(t) ==
  /\ ct[t] = "push" /\ Len(rq) < Limit
  /\ rq' = rq \o held[t] /\ amount' = amount + 1
  /\ held' = [held EXCEPT ![t] = <<>>] /\ Goto(t, "available")
  /\ UNCHANGED <<opened, msgCb, availCb, stored, got, quiet, crossed, unset>>

\* The callback is called when size() is 1, or stored if there is none.
Available(t) ==
  /\ ct[t] = "available" /\ Goto(t, "flush")
  /\ IF Len(rq) = 1
     THEN IF availCb THEN quiet' = FALSE /\ UNCHANGED stored ELSE stored' = TRUE /\ UNCHANGED quiet
     ELSE UNCHANGED <<stored, quiet>>
  /\ UNCHANGED <<rq, amount, opened, msgCb, availCb, held, got, crossed, unset>>

TriggerOpen(t) ==
  /\ ct[t] = "open" /\ opened' = TRUE /\ Goto(t, "flush")
  /\ UNCHANGED <<rq, amount, msgCb, availCb, stored, held, got, quiet, crossed, unset>>

-----------------------------------------------------------------------------
(* flushPendingMessages()                                                  *)

FlushTest(t) ==   \* if (!mOpenTriggered) return
  /\ ct[t] = "flush" /\ Goto(t, IF opened THEN "loop" ELSE "idle")
  /\ UNCHANGED <<rq, amount, opened, msgCb, availCb, stored, held, got, quiet, crossed, unset>>

FlushLoop(t) ==   \* while (messageCallback)
  /\ ct[t] = "loop" /\ Goto(t, IF msgCb THEN "take" ELSE "idle")
  /\ UNCHANGED <<rq, amount, opened, msgCb, availCb, stored, held, got, quiet, crossed, unset>>

\* Queue::pop(): the amount goes down by what the message has now.
Pop == rq' = Tail(rq) /\ amount' = amount - Head(rq).size

Others(t) == \E u \in Threads \ {t} : ct[u] \in {"call", "discard"}

FlushTake(t) ==   \* receive()
  /\ ct[t] = "take"
  /\ IF rq = <<>> THEN Goto(t, "idle") /\ UNCHANGED <<rq, amount, held, crossed>>
     ELSE /\ Pop /\ held' = [held EXCEPT ![t] = <<Head(rq)>>] /\ Goto(t, "call")
          /\ crossed' = (crossed \/ Others(t))
  /\ UNCHANGED <<opened, msgCb, availCb, stored, got, quiet, unset>>

\* messageCallback(*next), and the loop again; without a callback the message
\* goes nowhere.
FlushCall(t) ==
  /\ ct[t] = "call" /\ Goto(t, "loop")
  /\ got' = IF msgCb THEN got \o held[t] ELSE got
  /\ held' = [held EXCEPT ![t] = <<>>]
  /\ UNCHANGED <<rq, amount, opened, msgCb, availCb, stored, quiet, crossed, unset>>

-----------------------------------------------------------------------------
(* The application                                                         *)

\* Mutant: what waits is not flushed.
OnMessage_NoFlush(t, set) ==
  /\ ct[t] = "idle" /\ msgCb # set /\ msgCb' = set
  /\ unset' = (unset \/ ~set) /\ UNCHANGED ct
  /\ UNCHANGED <<rq, amount, opened, availCb, stored, held, got, quiet, crossed>>

\* onMessage(callback), which flushes; or onMessage(nullptr).
OnMessage(t, set) ==
  /\ ct[t] = "idle" /\ msgCb # set /\ msgCb' = set
  /\ unset' = (unset \/ ~set) /\ Goto(t, "flush")
  /\ UNCHANGED <<rq, amount, opened, availCb, stored, held, got, quiet, crossed>>

\* onAvailable(): a call that came too early is replayed.
OnAvailable(t) ==
  /\ ct[t] = "idle" /\ ~availCb /\ availCb' = TRUE
  /\ stored' = FALSE /\ quiet' = (quiet /\ ~stored)
  /\ UNCHANGED <<rq, amount, opened, msgCb, ct, held, got, crossed, unset>>

\* receive(), "only if onMessage unset".
Receive(t) ==
  /\ ct[t] = "idle" /\ ~msgCb
  /\ IF rq = <<>> THEN quiet' = TRUE /\ UNCHANGED <<rq, amount, got, crossed>>
     ELSE Pop /\ got' = Append(got, Head(rq)) /\ crossed' = (crossed \/ Others(t)) /\ UNCHANGED quiet
  /\ UNCHANGED <<opened, msgCb, availCb, stored, ct, held, unset>>

\* What peek() leaves of the front: to_variant() of an rvalue moves binary content.
Peeked == IF Head(rq).id \in Binary THEN [Head(rq) EXCEPT !.size = 0] ELSE Head(rq)

\* peek(); also wscReceiveMessage() without a buffer, or with one that is too small.
Peek(t) ==
  /\ ct[t] = "idle" /\ ~msgCb /\ rq # <<>>
  /\ rq' = <<Peeked>> \o Tail(rq)
  /\ UNCHANGED <<amount, opened, msgCb, availCb, stored, ct, held, got, quiet, crossed, unset>>

\* wscReceiveMessage() with a buffer: peek(), copy ...
ReceivePeek(t) ==
  /\ ct[t] = "idle" /\ ~msgCb /\ rq # <<>>
  /\ rq' = <<Peeked>> \o Tail(rq)
  /\ got' = Append(got, Head(rq)) /\ crossed' = (crossed \/ Others(t)) /\ Goto(t, "discard")
  /\ UNCHANGED <<amount, opened, msgCb, availCb, stored, held, quiet, unset>>

\* ... and receive(), to discard it.
ReceiveDiscard(t) ==
  /\ ct[t] = "discard" /\ Goto(t, "idle")
  /\ IF rq = <<>> THEN UNCHANGED <<rq, amount>> ELSE Pop
  /\ UNCHANGED <<opened, msgCb, availCb, stored, held, got, quiet, crossed, unset>>

ChannelInit ==
  /\ rq = <<>> /\ amount = 0 /\ opened = FALSE /\ msgCb = FALSE /\ availCb = FALSE
  /\ stored = FALSE /\ ct = [t \in Threads |-> "idle"] /\ held = [t \in Threads |-> <<>>]
  /\ got = <<>> /\ quiet = TRUE /\ crossed = FALSE /\ unset = FALSE

\* A thread that is in the channel goes on.
Progress(t) ==
  \/ Push(t) \/ Available(t) \/ TriggerOpen(t)
  \/ FlushTest(t) \/ FlushLoop(t) \/ FlushTake(t) \/ FlushCall(t) \/ ReceiveDiscard(t)

\* What the application does of its own, of the calls it makes at all.
Application(t, calls) ==
  \/ "onAvailable" \in calls /\ OnAvailable(t)
  \/ "receive" \in calls /\ Receive(t)
  \/ "peek" \in calls /\ (Peek(t) \/ ReceivePeek(t))
  \/ "onMessage" \in calls /\ OnMessage(t, TRUE)
  \/ "unset" \in calls /\ OnMessage(t, FALSE)

-----------------------------------------------------------------------------
(* Properties                                                              *)

\* The application is given the messages in the order of their arrival, each
\* once and none left out; unless the callback was taken away meanwhile, or a
\* second thread took a message while another one had not yet passed on its own.
GivenInOrder ==
  ~crossed /\ ~unset => \A i \in DOMAIN got : got[i].id = i

\* "The channel does not enforce message ordering" is an option that is off unless
\* set.  The order is lost though, when onMessage() flushes in a thread of the
\* application while a worker does, and each takes a message before it calls.
MessagesInOrder == \A i, j \in DOMAIN got : i < j => got[i].id <= got[j].id

\* A message that waits is not slept over: with a message callback and an open
\* WebSocket, a thread has yet to look at the queue; without one, an application
\* that found the queue empty is called, or will be when it asks for it.
NothingIsStuck ==
  /\ (opened /\ msgCb /\ rq # <<>>) => \E t \in Threads : ct[t] # "idle"
  /\ (~msgCb /\ quiet /\ rq # <<>> /\ \A t \in Threads : ct[t] = "idle") => stored

\* availableAmount() is the "total size available to receive".  Not after peek(),
\* which moves binary content out of the queued message and leaves the amount, nor
\* after that message is popped with the size it then has.
AmountIsReceivable == amount = Cardinality({i \in DOMAIN rq : rq[i].size = 1})

=============================================================================
