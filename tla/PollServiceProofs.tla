------------------------- MODULE PollServiceProofs -------------------------
(***************************************************************************)
(* The poll service for any number of sockets: its thread never sleeps on  *)
(* outdated registrations, and remove() silences a socket.                 *)
(***************************************************************************)
EXTENDS PollService, SequenceTheorems, TLAPS

\* NoLostWakeup before and after the registrations are copied: once join() has
\* interrupted a thread that tested mStopped before, the byte is in the pipe.
JoinIsHeard ==
  (pc \in {"prepare", "poll"} /\ ~pipe /\ stopped) => joiner = "interrupt"

\* A socket that remove() took out is not registered.
GoneIsUnregistered == \A s \in gone : socks[s].dir = "none"

IInv == TypeOK /\ NoLostWakeup /\ RemovedIsSilent /\ JoinIsHeard /\ GoneIsUnregistered

-----------------------------------------------------------------------------

\* add() makes well-formed entries.
LEMMA EntryType ==
  ASSUME NEW dir \in Directions, NEW timed \in BOOLEAN
  PROVE  Entry(dir, timed) \in Entries
BY DEF Entry, Entries, Untils

\* What Entry() and NoEntry hold, for steps that need not expand the records.
LEMMA EntryFields ==
  /\ NoEntry.dir = "none" /\ NoEntry.until = "none"
  /\ \A dir, timed : Entry(dir, timed).dir = dir
  /\ \A e \in Entries : e.dir \in Directions /\ e.dir # "none" /\ e.timed \in BOOLEAN /\ e.until \in Untils
BY DEF Entry, Entries, NoEntry, Directions

\* The invariant holds before start().
LEMMA InitIInv == Init => IInv
<1> SUFFICES ASSUME Init PROVE IInv
  OBVIOUS
<1>1. <<>> \in Seq(Events)
  BY EmptySeq
<1>2. TypeOK
  BY <1>1 DEF Init, TypeOK, Nothing
<1>3. NoLostWakeup /\ RemovedIsSilent /\ JoinIsHeard /\ GoneIsUnregistered
  BY DEF Init, NoLostWakeup, RemovedIsSilent, JoinIsHeard, GoneIsUnregistered
<1> QED BY <1>2, <1>3 DEF IInv

\* add() and remove(), by another thread or by the running callback: they change
\* a registration and write to the pipe.
LEMMA InsertIInv ==
  ASSUME IInv, NEW s \in Socks, NEW e \in Entries \cup {NoEntry}, Insert(s, e),
         UNCHANGED <<stopped, pollVars, ready, joiner>>,
         \/ gone' = gone \ {s}
         \/ gone' = gone \cup {s} /\ e = NoEntry /\ LockFree
         \/ gone' = gone /\ s \notin gone
         \/ gone' = gone /\ e = NoEntry
  PROVE  IInv'
<1>1. TypeOK'
  BY DEF IInv, TypeOK, Insert, pollVars
<1>2. NoLostWakeup' /\ JoinIsHeard'
  BY DEF Insert, NoLostWakeup, JoinIsHeard
<1>3. RemovedIsSilent'
  BY NoSockAssumption DEF IInv, TypeOK, RemovedIsSilent, pollVars, LockFree
<1>4. GoneIsUnregistered'
  BY EntryFields DEF IInv, TypeOK, GoneIsUnregistered, Insert
<1> QED BY <1>1, <1>2, <1>3, <1>4 DEF IInv

\* start(), join(), the clock and the sockets.
LEMMA ThreadsIInv ==
  ASSUME IInv,
         \/ Start \/ JoinStop \/ JoinInterrupt \/ JoinThread
         \/ \E s \in Socks : Expire(s) \/ \E ks \in SUBSET Kinds : SetReady(s, ks)
  PROVE  IInv'
<1>1. CASE Start
  BY <1>1, EntryFields DEF Start, IInv, TypeOK, NoLostWakeup, RemovedIsSilent, JoinIsHeard, GoneIsUnregistered
<1>2. CASE JoinStop
  BY <1>2 DEF JoinStop, IInv, TypeOK, NoLostWakeup, RemovedIsSilent, JoinIsHeard, GoneIsUnregistered, pollVars
<1>3. CASE JoinInterrupt
  BY <1>3 DEF JoinInterrupt, IInv, TypeOK, NoLostWakeup, RemovedIsSilent, JoinIsHeard, GoneIsUnregistered, pollVars
<1>4. CASE JoinThread
  BY <1>4, EntryFields DEF JoinThread, IInv, TypeOK, NoLostWakeup, RemovedIsSilent, JoinIsHeard, GoneIsUnregistered
<1>5. ASSUME NEW s \in Socks, Expire(s) PROVE IInv'
  <2>1. /\ socks[s] \in Entries
        /\ socks' = [socks EXCEPT ![s] = [socks[s] EXCEPT !.until = "past"]]
    BY <1>5 DEF Expire, IInv, TypeOK, NoEntry
  <2>2. [socks[s] EXCEPT !.until = "past"] \in Entries
    BY <2>1 DEF Entries, Untils
  <2>3. /\ socks' \in [Socks -> Entries \cup {NoEntry}]
        /\ \A t \in Socks : socks'[t].dir = socks[t].dir
        /\ \A t \in Socks : socks'[t].until # "none" <=> socks[t].until # "none"
    BY <1>5, <2>1, <2>2 DEF IInv, TypeOK, Expire, Entries
  <2> QED
    BY <1>5, <2>3 DEF Expire, IInv, TypeOK, NoLostWakeup, RemovedIsSilent, JoinIsHeard, GoneIsUnregistered, pollVars
<1>6. ASSUME NEW s \in Socks, NEW ks \in SUBSET Kinds, SetReady(s, ks) PROVE IInv'
  BY <1>6 DEF SetReady, IInv, TypeOK, NoLostWakeup, RemovedIsSilent, JoinIsHeard, GoneIsUnregistered, pollVars
<1> QED BY <1>1, <1>2, <1>3, <1>4, <1>5, <1>6

\* The steps of runLoop() outside the callbacks.
LEMMA LoopIInv ==
  ASSUME IInv, LoopTest \/ Prepare \/ PollReturn \/ PollFail \/ ProcessBegin \/ ProcessEnd
  PROVE  IInv'
<1>1. CASE LoopTest
  BY <1>1 DEF LoopTest, IInv, TypeOK, NoLostWakeup, RemovedIsSilent, JoinIsHeard, GoneIsUnregistered
<1>2. CASE Prepare
  <2>1. \A s \in Socks : socks[s].dir \in Directions \cup {"none"}
    BY EntryFields DEF IInv, TypeOK
  <2> QED
    BY <1>2, <2>1 DEF Prepare, IInv, TypeOK, NoLostWakeup, RemovedIsSilent, JoinIsHeard, GoneIsUnregistered
<1>3. CASE PollReturn
  BY <1>3 DEF PollReturn, IInv, TypeOK, NoLostWakeup, RemovedIsSilent, JoinIsHeard, GoneIsUnregistered
<1>4. CASE PollFail
  BY <1>4 DEF PollFail, IInv, TypeOK, NoLostWakeup, RemovedIsSilent, JoinIsHeard, GoneIsUnregistered
<1>5. CASE ProcessBegin
  BY <1>5 DEF ProcessBegin, IInv, TypeOK, NoLostWakeup, RemovedIsSilent, JoinIsHeard, GoneIsUnregistered
<1>6. CASE ProcessEnd
  BY <1>6 DEF ProcessEnd, IInv, TypeOK, NoLostWakeup, RemovedIsSilent, JoinIsHeard, GoneIsUnregistered, Nothing
<1> QED BY <1>1, <1>2, <1>3, <1>4, <1>5, <1>6

\* process() finds a socket of pfds and calls its callback.
LEMMA ProcessSockIInv ==
  ASSUME IInv, NEW s \in Socks, ProcessSock(s)
  PROVE  IInv'
<1> DEFINE r == revents[s]
           evs == (IF r \cap {"in", "hup"} # {} THEN <<"In">> ELSE <<>>)
                  \o (IF "out" \in r THEN <<"Out">> ELSE <<>>)
           e == socks[s]
<1>1. pc' = "process" /\ pc = "process" /\ pfds' \in [Socks -> Directions \cup {"none"}]
  BY DEF ProcessSock, IInv, TypeOK
<1>2. NoLostWakeup' /\ JoinIsHeard'
  BY <1>1 DEF NoLostWakeup, JoinIsHeard
<1>3. CASE UNCHANGED <<socks, running, calls>>
  BY <1>1, <1>2, <1>3 DEF ProcessSock, IInv, TypeOK, RemovedIsSilent, GoneIsUnregistered
<1>4. ASSUME NEW x \in Entries \cup {NoEntry}, NEW c \in Seq(Events), c # <<>>,
             e.dir # "none", socks' = [socks EXCEPT ![s] = x], running' = s, calls' = c
      PROVE  IInv'
  <2>1. s \notin gone
    BY <1>4 DEF IInv, GoneIsUnregistered
  <2>2. TypeOK'
    BY <1>1, <1>4 DEF ProcessSock, IInv, TypeOK
  <2>3. RemovedIsSilent' /\ GoneIsUnregistered'
    BY <1>4, <2>1 DEF ProcessSock, IInv, TypeOK, RemovedIsSilent, GoneIsUnregistered
  <2> QED BY <1>2, <2>2, <2>3 DEF IInv
<1>5. CASE e.dir # "none" /\ socks' = [socks EXCEPT ![s] = NoEntry] /\ running' = s
           /\ (calls' = <<"Error">> \/ calls' = <<"Timeout">>)
  <2>1. <<"Error">> \in Seq(Events) /\ <<"Timeout">> \in Seq(Events)
        /\ <<"Error">> # <<>> /\ <<"Timeout">> # <<>>
    BY DEF Events
  <2> QED BY <1>4, <1>5, <2>1
<1>6. CASE e.dir # "none" /\ "err" \notin r /\ r # {} /\ running' = s
           /\ socks' = [socks EXCEPT ![s] = Entry(e.dir, e.timed)] /\ calls' = evs
  <2>1. Entry(e.dir, e.timed) \in Entries
    BY <1>6, EntryType, EntryFields DEF IInv, TypeOK
  <2>2. r \cap {"in", "hup"} # {} \/ "out" \in r
    BY <1>6 DEF IInv, TypeOK, Kinds
  <2>3. evs \in Seq(Events) /\ evs # <<>>
    <3> DEFINE A == IF r \cap {"in", "hup"} # {} THEN <<"In">> ELSE <<>>
               B == IF "out" \in r THEN <<"Out">> ELSE <<>>
    <3>1. A \in Seq(Events) /\ B \in Seq(Events)
      <4>1. <<"In">> \in Seq(Events) /\ <<"Out">> \in Seq(Events)
        BY DEF Events
      <4>2. <<>> \in Seq(Events)
        BY EmptySeq
      <4> QED BY <4>1, <4>2, Zenon
    <3>2. A # <<>> \/ B # <<>>
      <4>1. <<"In">> # <<>> /\ <<"Out">> # <<>>
        OBVIOUS
      <4>2. CASE r \cap {"in", "hup"} # {}
        <5>1. A = <<"In">>
          BY <4>2
        <5> QED BY <4>1, <5>1
      <4>3. CASE "out" \in r
        <5>1. B = <<"Out">>
          BY <4>3
        <5> QED BY <4>1, <5>1
      <4> QED BY <2>2, <4>2, <4>3
    <3>3. A \o B \in Seq(Events) /\ A \o B # <<>>
      <4> HIDE DEF A, B
      <4> QED BY <3>1, <3>2, ConcatProperties, ConcatEqualIffEmpty
    <3> QED BY <3>3
  <2> QED BY <1>4, <1>6, <2>1, <2>3
<1> QED BY <1>3, <1>5, <1>6 DEF ProcessSock

\* A callback returns or throws.
LEMMA CallbackIInv ==
  ASSUME IInv, CallbackEnd \/ CallbackThrow
  PROVE  IInv'
<1>1. pc = "process" /\ running \in Socks /\ calls # <<>> /\ calls \in Seq(Events)
  BY DEF IInv, TypeOK, CallbackEnd, CallbackThrow
<1>2. CASE CallbackEnd
  <2>1. Tail(calls) \in Seq(Events) /\ Len(Tail(calls)) = Len(calls) - 1
    BY <1>1, HeadTailProperties
  <2>2. Len(calls) # 1 => Tail(calls) # <<>>
    <3>1. Len(calls) \in Nat /\ (Len(calls) # 1 => Len(Tail(calls)) # 0)
      BY <1>1, <2>1, LenProperties
    <3>2. \A t : t = <<>> => Len(t) = 0
      BY EmptySeq
    <3> QED BY <3>1, <3>2, Zenon
  <2> QED
    BY <1>1, <1>2, <2>1, <2>2, NoSockAssumption
       DEF CallbackEnd, IInv, TypeOK, NoLostWakeup, RemovedIsSilent, JoinIsHeard, GoneIsUnregistered
<1>3. CASE CallbackThrow
  BY <1>1, <1>3, NoSockAssumption, EntryFields
     DEF CallbackThrow, IInv, TypeOK, NoLostWakeup, RemovedIsSilent, JoinIsHeard, GoneIsUnregistered
<1> QED BY <1>2, <1>3

\* Every step keeps the invariant.
LEMMA NextIInv == IInv /\ [Next]_vars => IInv'
<1> SUFFICES ASSUME IInv, [Next]_vars PROVE IInv'
  OBVIOUS
<1>1. CASE UNCHANGED vars
  BY <1>1 DEF vars, pollVars, IInv, TypeOK, NoLostWakeup, RemovedIsSilent, JoinIsHeard, GoneIsUnregistered
<1>2. ASSUME NEW s \in Socks, NEW dir \in Directions, NEW timed \in BOOLEAN, Add(s, dir, timed)
      PROVE  IInv'
  BY <1>2, InsertIInv, EntryType DEF Add
<1>3. ASSUME NEW s \in Socks, Remove(s) PROVE IInv'
  BY <1>3, InsertIInv DEF Remove
<1>4. ASSUME NEW dir \in Directions, NEW timed \in BOOLEAN, CallbackAdd(dir, timed) PROVE IInv'
  <2>1. running \in Socks /\ running \notin gone
    BY <1>4 DEF CallbackAdd, IInv, TypeOK, RemovedIsSilent
  <2> QED BY <1>4, <2>1, InsertIInv, EntryType DEF CallbackAdd
<1>5. CASE CallbackRemove
  <2>1. running \in Socks /\ running \notin gone
    BY <1>5 DEF CallbackRemove, IInv, TypeOK, RemovedIsSilent
  <2> QED BY <1>5, <2>1, InsertIInv DEF CallbackRemove
<1> QED
  BY <1>1, <1>2, <1>3, <1>4, <1>5, ThreadsIInv, LoopIInv, ProcessSockIInv, CallbackIInv
     DEF Next, PollThread

\* The invariant holds in every state of the poll service.
THEOREM PollInvariant == Spec => []IInv
BY InitIInv, NextIInv, PTL DEF Spec

\* For any number of sockets: while the poll thread sleeps and its pipe is empty,
\* it waits for what is registered now, and join() has not been missed.
THEOREM NoWakeupIsLost == Spec => []NoLostWakeup
<1>1. IInv => NoLostWakeup
  BY DEF IInv
<1> QED BY <1>1, PollInvariant, PTL

\* For any number of sockets: after remove() has returned to another thread, the
\* callback of the socket does not run.
THEOREM RemoveSilences == Spec => []RemovedIsSilent
<1>1. IInv => RemovedIsSilent
  BY DEF IInv
<1> QED BY <1>1, PollInvariant, PTL

=============================================================================
