---------------------------- MODULE RuntimeProofs ----------------------------
(***************************************************************************)
(* Proofs about Runtime, for any WebSockets, workers and numbers of        *)
(* payloads and cleanups: who holds a token finds the library initialised, *)
(* and transports are torn down one at a time, in the order asked for.     *)
(* Both hold as long as cleanup() is not called again before the cleanup   *)
(* of an earlier payload is done.                                          *)
(***************************************************************************)
EXTENDS Runtime, FiniteSetTheorems, SequenceTheorems, TLAPS

Tasks == [kind : {"teardown", "timer"}, of : Sockets, due : BOOLEAN]

TokenTypes ==
  /\ payloads \in Nat /\ payloads <= MaxPayloads /\ global \in 0..payloads /\ weak \in 0..payloads
  /\ tok \in [Owners -> [Sockets -> 0..payloads]]
  /\ cleaner \in [Payloads -> {"none", "pending", "done"} \cup Working]

PoolTypes ==
  /\ tasks \in Seq(Tasks)
  /\ wk \in [Workers -> {"off", "spawned", "run", "wait"} \cup InTask]
  /\ job \in [Workers -> Tasks \cup {NoTask}]

SocketTypes ==
  /\ waiting \in Seq(Sockets) /\ asked \in Seq(Sockets) /\ done \in Seq(Sockets)
  /\ ws \in [Sockets -> {"none", "made", "open", "closed", "gone"}]
  /\ mapped \subseteq Sockets /\ capi \in {"free", "erasing", "erased", "stuck"} /\ cleanups \in 0..MaxCleanups

TypeOK == TokenTypes /\ PoolTypes /\ SocketTypes

-----------------------------------------------------------------------------
(* The steps, as the tokens and the pool see them                          *)

\* token() is called, in a step that leaves the cleanup threads alone.
Takes ==
  /\ \E k \in Owners, w \in Sockets : TakeToken(k, w)
  /\ UNCHANGED <<cleaner, overlap, joining, job>>

\* A token goes.
Drops ==
  /\ \E k \in Owners, w \in Sockets : tok' = [tok EXCEPT ![k][w] = 0]
  /\ PayloadsDie(global, tok') /\ UNCHANGED <<initVars, overlap, joining>>

LEMMA JobIs ==
  ASSUME PoolTypes, NEW k \in Workers, job[k].kind # "none"
  PROVE  job[k] \in Tasks /\ job[k].of \in Sockets
<1>1. job[k] \in Tasks \cup {NoTask}
  BY DEF PoolTypes
<1>2. job[k] # NoTask
  BY DEF NoTask
<1> QED
  BY <1>1, <1>2 DEF Tasks

LEMMA OwnersAre == "socket" \in Owners /\ "transports" \in Owners /\ "task" \in Owners
BY DEF Owners

LEMMA TokenSteps ==
  ASSUME PoolTypes, Next
  PROVE  \/ Takes \/ Preload \/ Cleanup \/ Drops \/ \E p \in Payloads : Cleaner(p)
         \/ UNCHANGED <<initVars, tok, cleaner, overlap, joining>>
<1>1. ASSUME NEW w \in Sockets, Create(w) \/ Open(w) \/ Close(w) PROVE Takes
  BY <1>1, OwnersAre DEF Create, Open, Close, CloseTransports, Takes
<1>2. ASSUME NEW w \in Sockets, Delete(w) PROVE Drops
  BY <1>2, OwnersAre DEF Delete, Destroy, Drops, poolVars
<1>3. ASSUME NEW i \in DOMAIN tasks, TimerDue(i) PROVE UNCHANGED <<initVars, tok, cleaner, overlap, joining>>
  BY <1>3 DEF TimerDue
<1>7. ASSUME NEW w \in Sockets, Emplace(w) PROVE UNCHANGED <<initVars, tok, cleaner, overlap, joining>>
  BY <1>7 DEF Emplace, poolVars
<1>4. CASE EraseAll
  BY <1>4 DEF EraseAll, poolVars
<1>5. CASE Erasing
  <2>1. CASE Erased
    BY <2>1 DEF Erased, poolVars
  <2>2. ASSUME NEW w \in Sockets, EraseOne(w) PROVE Drops
    BY <2>2, OwnersAre DEF EraseOne, Destroy, Drops, poolVars
  <2>3. ASSUME NEW w \in Sockets, EraseLocks(w) PROVE UNCHANGED <<initVars, tok, cleaner, overlap, joining>>
    BY <2>3 DEF EraseLocks, poolVars
  <2>4. ASSUME NEW w \in Sockets, EraseCloses(w) PROVE Takes
    BY <2>4, OwnersAre DEF EraseCloses, CloseTransports, Takes
  <2> QED
    BY <1>5, <2>1, <2>2, <2>3, <2>4 DEF Erasing
<1>6. ASSUME NEW k \in Workers, Worker(k)
      PROVE  Takes \/ Drops \/ UNCHANGED <<initVars, tok, cleaner, overlap, joining>>
  <2>1. CASE WorkerStarts(k) \/ Dequeue(k) \/ Wait(k) \/ WorkerExits(k) \/ TeardownChains(k) \/ TimerFires(k) \/ TimerEnds(k)
    BY <2>1 DEF WorkerStarts, Dequeue, Wait, WorkerExits, TeardownChains, TimerFires, TimerEnds
  <2>2. CASE TeardownRuns(k)
    BY <2>2, OwnersAre, JobIs DEF TeardownRuns, Drops
  <2>3. CASE TeardownEnds(k)
    BY <2>3, OwnersAre, JobIs DEF TeardownEnds, Drops
  <2>4. CASE TimerRuns(k)
    BY <2>4, OwnersAre, JobIs DEF TimerRuns, CloseTransports, Takes
  <2> QED
    BY <1>6, <2>1, <2>2, <2>3, <2>4 DEF Worker
<1> QED
  BY <1>1, <1>2, <1>3, <1>4, <1>5, <1>6, <1>7 DEF Next

\* Once two cleanups have overlapped, they have.
LEMMA OverlapStays ==
  ASSUME PoolTypes, Next, overlap
  PROVE  overlap'
<1>1. ASSUME NEW p \in Payloads, Cleaner(p) PROVE overlap' = overlap
  BY <1>1 DEF Cleaner, CleanerReturns, CleanerBegins, CleanerJoins, CleanerJoined, CleanerClears
<1>2. CASE Preload \/ Cleanup
  BY <1>2 DEF Preload, Cleanup
<1> QED
  BY <1>1, <1>2, TokenSteps DEF Takes, Drops

-----------------------------------------------------------------------------
(* Type correctness                                                        *)

LEMMA NewPayloadIs ==
  ASSUME TokenTypes, NewPayload
  PROVE  /\ payloads' \in Nat /\ payloads' = payloads + 1 /\ payloads' <= MaxPayloads /\ payloads' \in Payloads
         /\ global' = payloads' /\ weak' = payloads' /\ payloads' \in 0..payloads'
         /\ 0..payloads \subseteq 0..payloads'
         /\ initialized' /\ polling'
         /\ initialized => wk' = wk
         /\ ~initialized => wk' = [k \in Workers |-> "spawned"]
<1>1. payloads' \in Nat /\ payloads' = payloads + 1 /\ payloads' <= MaxPayloads
  BY RuntimeAssumption DEF TokenTypes, NewPayload
<1>2. payloads' \in Payloads /\ payloads' \in 0..payloads' /\ 0..payloads \subseteq 0..payloads'
  BY <1>1, RuntimeAssumption DEF Payloads, TokenTypes
<1> QED
  BY <1>1, <1>2 DEF NewPayload, DoInit

\* What token() changes: one entry, to a payload that is alive.
LEMMA TakeIs ==
  ASSUME TokenTypes, NEW k \in Owners, NEW w \in Sockets, TakeToken(k, w)
  PROVE  \E p \in Payloads :
           /\ tok' = [tok EXCEPT ![k][w] = p] /\ p \in 0..payloads' /\ p # 0
           /\ \/ Alive(p) /\ UNCHANGED <<initVars, wk>>
              \/ NewPayload /\ p = payloads' /\ ~Alive(weak)
<1>1. CASE Alive(weak)
  <2>1. tok' = [tok EXCEPT ![k][w] = weak] /\ UNCHANGED <<initVars, wk>>
    BY <1>1 DEF TakeToken
  <2>2. weak \in Payloads /\ weak # 0 /\ weak \in 0..payloads
    BY <1>1, RuntimeAssumption DEF Alive, TokenTypes, Payloads
  <2> QED
    BY <1>1, <2>1, <2>2 DEF initVars
<1>2. CASE ~Alive(weak)
  <2>1. NewPayload /\ tok' = [tok EXCEPT ![k][w] = payloads']
    BY <1>2 DEF TakeToken
  <2>2. payloads' # 0
    BY <2>1, NewPayloadIs DEF TokenTypes
  <2> QED
    BY <1>2, <2>1, <2>2, NewPayloadIs
<1> QED
  BY <1>1, <1>2

LEMMA TokenTypesStep ==
  ASSUME TokenTypes, PoolTypes, Next
  PROVE  TokenTypes'
<1>1. CASE Takes
  <2> PICK k \in Owners, w \in Sockets : TakeToken(k, w)
    BY <1>1 DEF Takes
  <2>1. PICK p \in Payloads : /\ tok' = [tok EXCEPT ![k][w] = p] /\ p \in 0..payloads' /\ p # 0
                              /\ \/ Alive(p) /\ UNCHANGED <<initVars, wk>>
                                 \/ NewPayload /\ p = payloads' /\ ~Alive(weak)
    BY TakeIs
  <2>2. cleaner' = cleaner
    BY <1>1 DEF Takes
  <2>3. CASE UNCHANGED initVars
    BY <2>1, <2>2, <2>3 DEF initVars, TokenTypes
  <2>4. CASE NewPayload
    <3>1. tok' \in [Owners -> [Sockets -> 0..payloads']]
      BY <2>1, <2>4, NewPayloadIs DEF TokenTypes
    <3> QED
      BY <2>2, <2>4, <3>1, NewPayloadIs DEF TokenTypes
  <2> QED
    BY <2>1, <2>3, <2>4
<1>2. CASE Preload
  <2>1. NewPayload /\ tok' = tok /\ cleaner' = cleaner
    BY <1>2 DEF Preload
  <2>2. tok' \in [Owners -> [Sockets -> 0..payloads']]
    BY <2>1, NewPayloadIs DEF TokenTypes
  <2> QED
    BY <2>1, <2>2, NewPayloadIs DEF TokenTypes
<1>3. CASE Cleanup
  BY <1>3 DEF Cleanup, PayloadsDie, TokenTypes
<1>4. CASE Drops
  <2>1. tok' \in [Owners -> [Sockets -> 0..payloads]]
    BY <1>4 DEF Drops, TokenTypes
  <2> QED
    BY <1>4, <2>1 DEF Drops, PayloadsDie, TokenTypes, initVars
<1>5. ASSUME NEW p \in Payloads, Cleaner(p) PROVE TokenTypes'
  <2>1. CASE CleanerReturns(p) \/ CleanerBegins(p) \/ CleanerJoins(p) \/ CleanerJoined(p)
    BY <2>1 DEF CleanerReturns, CleanerBegins, CleanerJoins, CleanerJoined, TokenTypes, initVars, Working
  <2>2. CASE CleanerClears(p)
    <3>1. tok' \in [Owners -> [Sockets -> 0..payloads]]
      BY <2>2 DEF CleanerClears, TokenTypes
    <3> QED
      BY <2>2, <3>1 DEF CleanerClears, TokenTypes
  <2> QED
    BY <1>5, <2>1, <2>2 DEF Cleaner
<1>6. CASE UNCHANGED <<initVars, tok, cleaner, overlap, joining>>
  BY <1>6 DEF initVars, TokenTypes
<1> QED
  BY <1>1, <1>2, <1>3, <1>4, <1>5, <1>6, TokenSteps

\* A task that is taken out of the pool leaves the others in their order.
LEMMA WithoutIs ==
  ASSUME PoolTypes, NEW i \in DOMAIN tasks
  PROVE  /\ Without(i) \in Seq(Tasks) /\ Len(Without(i)) = Len(tasks) - 1
         /\ \A j \in DOMAIN Without(i) :
              Without(i)[j] = IF j < i THEN tasks[j] ELSE tasks[j + 1]
<1> DEFINE A == SubSeq(tasks, 1, i - 1)
           B == SubSeq(tasks, i + 1, Len(tasks))
<1>1. tasks \in Seq(Tasks) /\ Len(tasks) \in Nat /\ i \in 1 .. Len(tasks) /\ DOMAIN tasks = 1 .. Len(tasks)
  BY DEF PoolTypes
<1>2. A \in Seq(Tasks) /\ Len(A) = i - 1 /\ \A j \in 1 .. i - 1 : A[j] = tasks[j]
  BY <1>1
<1>3. B \in Seq(Tasks) /\ Len(B) = Len(tasks) - i /\ \A j \in 1 .. Len(tasks) - i : B[j] = tasks[i + j]
  <2>1. B \in Seq(Tasks) /\ Len(B) = Len(tasks) - i
    <3>1. i + 1 \in Int /\ Len(tasks) \in Int /\ \A j \in i + 1 .. Len(tasks) : tasks[j] \in Tasks
      BY <1>1
    <3>2. /\ SubSeq(tasks, i + 1, Len(tasks)) \in Seq(Tasks)
          /\ Len(SubSeq(tasks, i + 1, Len(tasks))) = IF i + 1 <= Len(tasks) THEN Len(tasks) - (i + 1) + 1 ELSE 0
      BY <3>1, SubSeqProperties
    <3> QED
      BY <1>1, <3>2
  <2>2. ASSUME NEW j \in 1 .. Len(tasks) - i PROVE B[j] = tasks[i + j]
    <3>1. B[j] = tasks[(i + 1) + j - 1]
      BY <1>1
    <3>2. (i + 1) + j - 1 = i + j
      BY <1>1
    <3> QED
      BY <3>1, <3>2
  <2> QED
    BY <2>1, <2>2
<1>4. Without(i) = A \o B
  BY DEF Without
<1> HIDE DEF A, B
<1>5. Without(i) \in Seq(Tasks) /\ Len(Without(i)) = Len(A) + Len(B)
  BY <1>2, <1>3, <1>4, ConcatProperties, ZenonT(40)
<1>6. Len(Without(i)) = Len(tasks) - 1 /\ DOMAIN Without(i) = 1 .. Len(tasks) - 1
  BY <1>1, <1>2, <1>3, <1>5
<1>7. ASSUME NEW j \in DOMAIN Without(i), j < i PROVE Without(i)[j] = tasks[j]
  <2>1. j \in 1 .. i - 1 /\ j \in 1 .. Len(A)
    BY <1>1, <1>2, <1>6, <1>7
  <2>2. Without(i)[j] = A[j]
    BY <1>2, <1>3, <1>4, <2>1, ConcatProperties
  <2> QED
    BY <1>2, <2>1, <2>2
<1>8. ASSUME NEW j \in DOMAIN Without(i), ~(j < i) PROVE Without(i)[j] = tasks[j + 1]
  <2>1. j \in 1 .. Len(A) + Len(B) /\ j > Len(A) /\ j - Len(A) = j - i + 1 /\ j - i + 1 \in 1 .. Len(tasks) - i /\ i + (j - i + 1) = j + 1
    BY <1>1, <1>2, <1>3, <1>6, <1>8, SMTT(40)
  <2>2. Without(i)[j] = B[j - Len(A)]
    <3>1. (A \o B)[j] = IF j <= Len(A) THEN A[j] ELSE B[j - Len(A)]
      BY <1>2, <1>3, <2>1, ConcatProperties
    <3>2. ~(j <= Len(A))
      BY <1>1, <1>2, <1>8, <2>1
    <3> QED
      BY <1>4, <3>1, <3>2
  <2>3. Without(i)[j] = B[j - i + 1]
    BY <2>1, <2>2
  <2>4. B[j - i + 1] = tasks[i + (j - i + 1)]
    BY <1>3, <2>1
  <2> QED
    BY <2>1, <2>3, <2>4
<1> QED
  BY <1>5, <1>6, <1>7, <1>8

LEMMA TasksAre ==
  ASSUME NEW w \in Sockets
  PROVE  /\ Teardown(w) \in Tasks /\ Teardown(w).kind = "teardown" /\ Teardown(w).of = w
         /\ Timer(w) \in Tasks /\ Timer(w).kind = "timer"
BY DEF Teardown, Timer, Tasks

\* What Processor::enqueue() and open() do to the tasks of the pool.
LEMMA AppendedIs ==
  ASSUME PoolTypes, NEW t \in Tasks, tasks' = Append(tasks, t)
  PROVE  /\ tasks' \in Seq(Tasks) /\ Len(tasks') = Len(tasks) + 1 /\ tasks'[Len(tasks) + 1] = t
         /\ Len(tasks) + 1 \in DOMAIN tasks' /\ Len(tasks) + 1 \notin DOMAIN tasks
         /\ \A i \in DOMAIN tasks : i \in DOMAIN tasks' /\ tasks'[i] = tasks[i]
         /\ \A i \in DOMAIN tasks' : i \in DOMAIN tasks \/ i = Len(tasks) + 1
<1>1. tasks \in Seq(Tasks) /\ Len(tasks) \in Nat /\ DOMAIN tasks = 1 .. Len(tasks)
  BY DEF PoolTypes
<1>2. tasks' \in Seq(Tasks) /\ Len(tasks') = Len(tasks) + 1 /\ tasks'[Len(tasks) + 1] = t
  BY <1>1, AppendProperties
<1>3. DOMAIN tasks' = 1 .. Len(tasks) + 1
  BY <1>2
<1>4. \A i \in DOMAIN tasks : tasks'[i] = tasks[i]
  BY <1>1, AppendProperties
<1> QED
  BY <1>1, <1>2, <1>3, <1>4

LEMMA PoolTypesStep ==
  ASSUME TypeOK, Next
  PROVE  PoolTypes'
<1> DEFINE Pcs == {"off", "spawned", "run", "wait"} \cup InTask
<1>0. PoolTypes /\ TokenTypes
  BY DEF TypeOK
<1>1. ASSUME NEW k \in Owners, NEW w \in Sockets, TakeToken(k, w) PROVE wk' \in [Workers -> Pcs]
  <2>1. wk' = wk \/ wk' = [u \in Workers |-> "spawned"]
    BY <1>0, <1>1, TakeIs, NewPayloadIs
  <2> QED
    BY <1>0, <2>1 DEF PoolTypes
<1>2. ASSUME NEW w \in Sockets, Enqueue(w) PROVE tasks' \in Seq(Tasks)
  BY <1>0, <1>2, TasksAre, AppendedIs DEF Enqueue, PoolTypes
<1>3. ASSUME NEW w \in Sockets, CloseTransports(w), job' = job PROVE PoolTypes'
  BY <1>0, <1>1, <1>2, <1>3, OwnersAre DEF CloseTransports, PoolTypes
<1>4. ASSUME NEW k \in Workers, NEW pc \in Pcs, wk' = [wk EXCEPT ![k] = pc] PROVE wk' \in [Workers -> Pcs]
  BY <1>0, <1>4 DEF PoolTypes
<1>5. ASSUME NEW k \in Workers, job' = [job EXCEPT ![k] = NoTask] PROVE job' \in [Workers -> Tasks \cup {NoTask}]
  BY <1>0, <1>5 DEF PoolTypes
<1>6. ASSUME NEW k \in Workers, Worker(k) PROVE PoolTypes'
  <2>1. CASE WorkerStarts(k) \/ Wait(k) \/ WorkerExits(k)
    BY <1>0, <1>4, <2>1 DEF WorkerStarts, Wait, WorkerExits, PoolTypes
  <2>2. CASE Dequeue(k)
    <3>1. PICK i \in Due : tasks' = Without(i) /\ job' = [job EXCEPT ![k] = tasks[i]]
      BY <2>2 DEF Dequeue
    <3>2. i \in DOMAIN tasks /\ tasks[i] \in Tasks
      BY <1>0 DEF Due, PoolTypes
    <3>3. job' \in [Workers -> Tasks \cup {NoTask}]
      BY <1>0, <3>1, <3>2 DEF PoolTypes
    <3>4. tasks' \in Seq(Tasks)
      BY <1>0, <3>1, <3>2, WithoutIs
    <3>5. wk' \in [Workers -> Pcs]
      BY <2>2, <1>4 DEF Dequeue, InTask
    <3> QED
      BY <3>3, <3>4, <3>5 DEF PoolTypes
  <2>3. CASE TeardownRuns(k)
    BY <1>0, <1>4, <2>3 DEF TeardownRuns, PoolTypes, InTask
  <2>4. CASE TeardownChains(k)
    <3>1. wk' \in [Workers -> Pcs] /\ job' = job
      BY <1>4, <2>4 DEF TeardownChains, InTask
    <3>2. tasks' \in Seq(Tasks)
      <4>1. CASE waiting = <<>>
        BY <1>0, <2>4, <4>1 DEF TeardownChains, PoolTypes
      <4>2. CASE waiting # <<>>
        <5>1. Head(waiting) \in Sockets
          BY <4>2 DEF TypeOK, SocketTypes
        <5> QED
          BY <1>0, <2>4, <4>2, <5>1, TasksAre, AppendedIs DEF TeardownChains
      <4> QED
        BY <4>1, <4>2
    <3> QED
      BY <1>0, <3>1, <3>2 DEF PoolTypes
  <2>7. CASE TimerFires(k)
    BY <1>0, <1>4, <2>7 DEF TimerFires, PoolTypes, InTask
  <2>5. CASE TeardownEnds(k) \/ TimerEnds(k)
    BY <1>0, <1>4, <1>5, <2>5 DEF TeardownEnds, TimerEnds, PoolTypes
  <2>6. CASE TimerRuns(k)
    BY <1>0, <1>3, <2>6, JobIs DEF TimerRuns
  <2> QED
    BY <1>6, <2>1, <2>2, <2>3, <2>4, <2>5, <2>6, <2>7 DEF Worker
<1>7. ASSUME NEW w \in Sockets, Create(w) \/ Open(w) \/ Emplace(w) \/ Close(w) \/ Delete(w) PROVE PoolTypes'
  <2>1. CASE Create(w)
    BY <1>0, <1>1, <2>1, OwnersAre DEF Create, PoolTypes
  <2>2. CASE Open(w)
    <3>1. tasks' = tasks \o (IF w \in Timed THEN <<Timer(w)>> ELSE <<>>) /\ job' = job
      BY <2>2 DEF Open
    <3>2. tasks \in Seq(Tasks) /\ (IF w \in Timed THEN <<Timer(w)>> ELSE <<>>) \in Seq(Tasks)
      BY <1>0, TasksAre DEF PoolTypes
    <3>3. tasks' \in Seq(Tasks)
      BY <3>1, <3>2, ConcatProperties
    <3> QED
      BY <1>0, <1>1, <2>2, <3>1, <3>3, OwnersAre DEF Open, PoolTypes
  <2>3. CASE Close(w)
    BY <1>3, <2>3 DEF Close
  <2>4. CASE Emplace(w) \/ Delete(w)
    BY <1>0, <2>4 DEF Emplace, Delete, poolVars, PoolTypes
  <2> QED
    BY <1>7, <2>1, <2>2, <2>3, <2>4
<1>8. ASSUME NEW i \in DOMAIN tasks, TimerDue(i) PROVE PoolTypes'
  <2>1. tasks' = [tasks EXCEPT ![i].due = TRUE] /\ wk' = wk /\ job' = job
    BY <1>8 DEF TimerDue
  <2>2. tasks[i] \in Tasks
    BY <1>0 DEF PoolTypes
  <2>3. [tasks[i] EXCEPT !.due = TRUE] \in Tasks
    BY <2>2 DEF Tasks
  <2>4. tasks' = [tasks EXCEPT ![i] = [tasks[i] EXCEPT !.due = TRUE]]
    BY <2>1
  <2>5. tasks' \in Seq(Tasks)
    BY <1>0, <2>3, <2>4, ExceptSeq DEF PoolTypes
  <2> QED
    BY <1>0, <2>1, <2>5 DEF PoolTypes
<1>9. CASE Preload
  <2>1. wk' = wk \/ wk' = [u \in Workers |-> "spawned"]
    BY <1>0, <1>9, NewPayloadIs DEF Preload
  <2> QED
    BY <1>0, <1>9, <2>1 DEF Preload, PoolTypes
<1>10. CASE Cleanup \/ EraseAll
  BY <1>0, <1>10 DEF Cleanup, EraseAll, poolVars, PoolTypes
<1>11. CASE Erasing
  BY <1>0, <1>3, <1>11 DEF Erasing, Erased, EraseOne, EraseLocks, EraseCloses, poolVars, PoolTypes
<1>12. ASSUME NEW p \in Payloads, Cleaner(p) PROVE PoolTypes'
  <2>1. CASE CleanerClears(p)
    <3>1. tasks' = <<>> /\ wk' = wk /\ job' = job
      BY <2>1 DEF CleanerClears
    <3> QED
      BY <1>0, <3>1 DEF PoolTypes
  <2>2. CASE ~CleanerClears(p)
    BY <1>0, <1>12, <2>2 DEF Cleaner, CleanerReturns, CleanerBegins, CleanerJoins, CleanerJoined, poolVars, PoolTypes
  <2> QED
    BY <2>1, <2>2
<1> QED
  BY <1>6, <1>7, <1>8, <1>9, <1>10, <1>11, <1>12 DEF Next

LEMMA SocketTypesStep ==
  ASSUME TypeOK, Next
  PROVE  SocketTypes'
<1>0. SocketTypes /\ PoolTypes
  BY DEF TypeOK
<1>1. ASSUME NEW w \in Sockets, NEW life \in {"none", "made", "open", "closed", "gone"}, ws' = [ws EXCEPT ![w] = life]
      PROVE  ws' \in [Sockets -> {"none", "made", "open", "closed", "gone"}]
  BY <1>0, <1>1 DEF SocketTypes
<1>2. ASSUME NEW w \in Sockets, Enqueue(w) PROVE asked' \in Seq(Sockets) /\ waiting' \in Seq(Sockets)
  <2>1. asked' = Append(asked, w) /\ (waiting' = waiting \/ waiting' = Append(waiting, w))
    BY <1>2 DEF Enqueue
  <2>2. asked \in Seq(Sockets) /\ waiting \in Seq(Sockets)
    BY <1>0 DEF SocketTypes
  <2> QED
    BY <2>1, <2>2, AppendProperties, SMTT(40)
<1>3. ASSUME NEW w \in Sockets, CloseTransports(w), UNCHANGED <<done, mapped, capi, cleanups>> PROVE SocketTypes'
  BY <1>0, <1>1, <1>2, <1>3 DEF CloseTransports, SocketTypes
<1>4. ASSUME NEW w \in Sockets, Destroy(w), UNCHANGED <<procVars, capi, cleanups>> PROVE SocketTypes'
  BY <1>0, <1>1, <1>4 DEF Destroy, SocketTypes, procVars
<1>5. ASSUME NEW k \in Workers, Worker(k) PROVE SocketTypes'
  <2>1. CASE WorkerStarts(k) \/ Dequeue(k) \/ Wait(k) \/ WorkerExits(k) \/ TeardownEnds(k) \/ TimerFires(k) \/ TimerEnds(k)
    BY <1>0, <2>1 DEF WorkerStarts, Dequeue, Wait, WorkerExits, TeardownEnds, TimerFires, TimerEnds, procVars, apiVars, SocketTypes
  <2>2. CASE TeardownRuns(k)
    <3>1. done' = Append(done, job[k].of) /\ job[k].of \in Sockets
      BY <1>0, <2>2, JobIs DEF TeardownRuns
    <3>2. done' \in Seq(Sockets)
      BY <1>0, <3>1, AppendProperties DEF SocketTypes
    <3> QED
      BY <1>0, <2>2, <3>2 DEF TeardownRuns, apiVars, SocketTypes
  <2>3. CASE TeardownChains(k)
    <3>1. waiting' \in Seq(Sockets)
      BY <1>0, <2>3, HeadTailProperties DEF TeardownChains, SocketTypes
    <3> QED
      BY <1>0, <2>3, <3>1 DEF TeardownChains, apiVars, SocketTypes
  <2>4. CASE TimerRuns(k)
    BY <1>0, <1>3, <2>4, JobIs DEF TimerRuns
  <2> QED
    BY <1>5, <2>1, <2>2, <2>3, <2>4 DEF Worker
<1>6. ASSUME NEW w \in Sockets, Create(w) \/ Open(w) \/ Emplace(w) \/ Close(w) \/ Delete(w) PROVE SocketTypes'
  <2>1. CASE Create(w) \/ Open(w)
    BY <1>0, <1>1, <2>1 DEF Create, Open, procVars, SocketTypes
  <2>2. CASE Close(w) \/ Delete(w)
    BY <1>3, <1>4, <2>2 DEF Close, Delete
  <2>3. CASE Emplace(w)
    BY <1>0, <2>3 DEF Emplace, procVars, SocketTypes
  <2> QED
    BY <1>6, <2>1, <2>2, <2>3
<1>7. ASSUME NEW i \in DOMAIN tasks, TimerDue(i) PROVE SocketTypes'
  BY <1>0, <1>7 DEF TimerDue, procVars, apiVars, SocketTypes
<1>8. CASE Preload \/ EraseAll
  BY <1>0, <1>8 DEF Preload, EraseAll, procVars, apiVars, SocketTypes
<1>9. CASE Cleanup
  <2>1. cleanups' \in 0..MaxCleanups
    BY <1>0, <1>9, RuntimeAssumption DEF Cleanup, SocketTypes
  <2> QED
    BY <1>0, <1>9, <2>1 DEF Cleanup, procVars, SocketTypes
<1>10. CASE Erasing
  BY <1>0, <1>3, <1>4, <1>10 DEF Erasing, Erased, EraseOne, EraseLocks, EraseCloses, procVars, apiVars, SocketTypes
<1>11. ASSUME NEW p \in Payloads, Cleaner(p) PROVE SocketTypes'
  BY <1>0, <1>11 DEF Cleaner, CleanerReturns, CleanerBegins, CleanerJoins, CleanerJoined, CleanerClears, procVars, apiVars,
     SocketTypes
<1> QED
  BY <1>5, <1>6, <1>7, <1>8, <1>9, <1>10, <1>11 DEF Next

\* Every variable keeps its type, for any WebSockets, workers and bounds.
THEOREM TypeCorrect == Spec => []TypeOK
<1>1. Init => TypeOK
  <2>1. Init => TokenTypes
    BY RuntimeAssumption DEF Init, TokenTypes
  <2>2. Init => PoolTypes
    BY DEF Init, PoolTypes
  <2>3. Init => SocketTypes
    BY RuntimeAssumption DEF Init, SocketTypes
  <2> QED
    BY <2>1, <2>2, <2>3 DEF TypeOK
<1>2. TypeOK /\ [Next]_vars => TypeOK'
  <2>1. TypeOK /\ Next => TypeOK'
    BY TokenTypesStep, PoolTypesStep, SocketTypesStep DEF TypeOK
  <2>2. TypeOK /\ UNCHANGED vars => TypeOK'
    BY DEF TypeOK, TokenTypes, PoolTypes, SocketTypes, vars, initVars, poolVars, procVars, apiVars
  <2> QED
    BY <2>1, <2>2
<1> QED
  BY <1>1, <1>2, PTL DEF Spec

-----------------------------------------------------------------------------
(* TokenKeepsInitialized                                                   *)

\* A payload with a token has no cleanup thread; of the payloads made before mGlobal
\* was reset, at most one is unfinished; so a cleanup thread that works finds no
\* token, and the library is initialised as long as a payload lives.
Tokens ==
  /\ \A p \in Payloads : Alive(p) => cleaner[p] = "none"
  /\ \A p \in Payloads : p > payloads => cleaner[p] = "none"
  /\ global = 0 => \A p, q \in 1..payloads : cleaner[p] # "done" /\ cleaner[q] # "done" => p = q
  /\ ~InitLockFree => global = 0 /\ ~initialized /\ \A p \in Payloads : ~Held(p)
  /\ (\E p \in Payloads : Alive(p)) => initialized
  /\ initialized => polling
  /\ joining => \E p \in Payloads : cleaner[p] = "exit"

TokensKept == ~overlap => Tokens

LEMMA PayloadsAre ==
  ASSUME TokenTypes
  PROVE  /\ \A p \in Payloads : p \in Nat /\ p # 0 /\ (p <= payloads <=> p \in 1..payloads)
         /\ \A p \in 1..payloads : p \in Payloads
         /\ \A p : Held(p) => p \in 0..payloads
         /\ \A p \in Payloads : Alive(p) => p \in 1..payloads
BY RuntimeAssumption DEF Payloads, TokenTypes, Held, HeldIn, Alive

LEMMA TokensTake ==
  ASSUME TypeOK, Tokens, Takes
  PROVE  Tokens'
<1>0. TokenTypes
  BY DEF TypeOK
<1> PICK k \in Owners, w \in Sockets : TakeToken(k, w)
  BY DEF Takes
<1>1. PICK n \in Payloads : /\ tok' = [tok EXCEPT ![k][w] = n] /\ n \in 0..payloads' /\ n # 0
                            /\ \/ Alive(n) /\ UNCHANGED <<initVars, wk>>
                               \/ NewPayload /\ n = payloads' /\ ~Alive(weak)
  BY <1>0, TakeIs
<1>2. InitLockFree /\ InitLockFree'
  BY DEF TakeToken, Takes, InitLockFree
<1>3. cleaner' = cleaner /\ joining' = joining
  BY DEF Takes
<1>4. \A p \in Payloads : Held(p)' => Held(p) \/ p = n
  BY <1>0, <1>1 DEF Held, HeldIn, TokenTypes
<1>5. CASE Alive(n) /\ UNCHANGED initVars
  <2>1. \A p \in Payloads : Alive(p)' => Alive(p)
    BY <1>4, <1>5 DEF Alive, initVars
  <2> QED
    BY <1>2, <1>3, <1>5, <2>1 DEF Tokens, initVars
<1>6. CASE NewPayload /\ n = payloads'
  <2>1. \A p \in Payloads : Alive(p)' => Alive(p) \/ p = n
    BY <1>0, <1>4, <1>6, NewPayloadIs DEF Alive
  <2>2. n > payloads /\ global' # 0 /\ \A p \in Payloads : p > payloads' => p > payloads
    BY <1>0, <1>6, NewPayloadIs, PayloadsAre DEF TokenTypes
  <2> QED
    BY <1>0, <1>2, <1>3, <1>6, <2>1, <2>2, NewPayloadIs DEF Tokens
<1> QED
  BY <1>1, <1>5, <1>6

LEMMA TokensPreload ==
  ASSUME TypeOK, Tokens, Preload
  PROVE  Tokens'
<1>0. TokenTypes /\ NewPayload
  BY DEF TypeOK, Preload
<1>1. tok' = tok /\ cleaner' = cleaner /\ joining' = joining
  BY DEF Preload
<1>2. InitLockFree'
  BY <1>1 DEF Preload, InitLockFree
<1>3. \A p \in Payloads : Alive(p)' => Alive(p) \/ p = payloads'
  BY <1>0, <1>1, NewPayloadIs DEF Alive, Held, HeldIn
<1>4. payloads' > payloads /\ global' # 0 /\ \A p \in Payloads : p > payloads' => p > payloads
  BY <1>0, NewPayloadIs, PayloadsAre DEF TokenTypes
<1> QED
  BY <1>0, <1>1, <1>2, <1>3, <1>4, NewPayloadIs DEF Tokens

\* A step that takes tokens away, and lets a thread clean up for each payload that
\* has none left.
LEMMA TokensDrop ==
  ASSUME TypeOK, Tokens, \A p \in Payloads : Held(p)' => Held(p), \A p \in Payloads : global' = p => global = p,
         PayloadsDie(global', tok'), UNCHANGED <<payloads, initialized, polling, joining>>,
         global' = 0 => \A p, q \in 1..payloads : cleaner[p] # "done" /\ cleaner[q] # "done" => p = q,
         ~InitLockFree => global' = 0
  PROVE  Tokens'
<1>0. TokenTypes
  BY DEF TypeOK
<1>1. ASSUME NEW p \in Payloads PROVE cleaner'[p] = cleaner[p] \/ (cleaner[p] = "none" /\ cleaner'[p] = "pending" /\ Alive(p))
  BY DEF PayloadsDie, Orphaned, Tokens
<1>2. ASSUME NEW p \in Payloads, Alive(p)' PROVE Alive(p) /\ cleaner'[p] = "none"
  <2>1. Alive(p)
    BY <1>2 DEF Alive
  <2>2. ~Orphaned(p, global', tok')
    BY <1>2 DEF Orphaned, Alive, Held
  <2> QED
    BY <2>1, <2>2 DEF PayloadsDie, Tokens
<1>3. \A p \in Payloads : p > payloads => cleaner'[p] = "none"
  BY <1>0, <1>1, PayloadsAre DEF Tokens, TokenTypes
<1>4. InitLockFree' <=> InitLockFree
  BY <1>1 DEF InitLockFree, Working
<1>5. \A p \in Payloads : cleaner'[p] # "done" => cleaner[p] # "done"
  BY <1>1
<1>6. joining => \E p \in Payloads : cleaner'[p] = "exit"
  BY <1>1 DEF Tokens
<1>7. ~InitLockFree' => global' = 0 /\ ~initialized' /\ \A p \in Payloads : ~Held(p)'
  BY <1>4 DEF Tokens
<1>8. global' = 0 => \A p, q \in 1..payloads : cleaner'[p] # "done" /\ cleaner'[q] # "done" => p = q
  BY <1>0, <1>5, PayloadsAre
<1>9. (\E p \in Payloads : Alive(p)') => initialized'
  BY <1>2 DEF Tokens
<1> QED
  BY <1>2, <1>3, <1>6, <1>7, <1>8, <1>9 DEF Tokens

LEMMA TokensCleanup ==
  ASSUME TypeOK, Tokens, Cleanup, ~overlap'
  PROVE  Tokens'
<1>0. TokenTypes
  BY DEF TypeOK
<1>1. global' = 0 /\ tok' = tok /\ PayloadsDie(0, tok) /\ UNCHANGED <<payloads, initialized, polling, joining>>
  BY DEF Cleanup, poolVars
<1>2. overlap' = (overlap \/ (global # 0 /\ \E p \in 1..payloads : p # global /\ cleaner[p] # "done"))
  BY DEF Cleanup
<1>3. global # 0 => \A p \in 1..payloads : p # global => cleaner[p] = "done"
  BY <1>2
<1>4. \A p, q \in 1..payloads : cleaner[p] # "done" /\ cleaner[q] # "done" => p = q
  BY <1>3 DEF Tokens
<1>5. PayloadsDie(global', tok')
  BY <1>1
<1>6. \A p \in Payloads : (Held(p)' => Held(p)) /\ (global' = p => global = p)
  BY <1>0, <1>1, PayloadsAre DEF Held, HeldIn
<1> QED
  BY <1>1, <1>4, <1>5, <1>6, TokensDrop

LEMMA TokensDrops ==
  ASSUME TypeOK, Tokens, Drops
  PROVE  Tokens'
<1>0. TokenTypes
  BY DEF TypeOK
<1> PICK k \in Owners, w \in Sockets : tok' = [tok EXCEPT ![k][w] = 0]
  BY DEF Drops
<1>1. \A p \in Payloads : Held(p)' => Held(p)
  BY <1>0, PayloadsAre DEF Held, HeldIn, TokenTypes
<1>2. UNCHANGED <<global, payloads, initialized, polling, joining>>
  BY DEF Drops, initVars
<1>3. PayloadsDie(global', tok')
  BY <1>2 DEF Drops
<1> QED
  BY <1>1, <1>2, <1>3, TokensDrop DEF Tokens

\* A cleanup thread has no token: what it does not find, nobody has.
LEMMA CleanerFinds ==
  ASSUME TypeOK, Tokens, NEW p \in Payloads, cleaner[p] # "none", cleaner[p] # "done", global = 0
  PROVE  /\ \A q \in Payloads : ~Held(q) /\ ~Alive(q)
         /\ \A q \in Payloads : q # p => cleaner[q] \in {"none", "done"}
<1>0. TokenTypes /\ p \in 1..payloads
  BY PayloadsAre DEF TypeOK, Tokens, TokenTypes
<1>1. \A q \in 1..payloads : q # p => cleaner[q] = "done"
  BY <1>0 DEF Tokens
<1>2. \A q \in Payloads : q # p => cleaner[q] \in {"none", "done"}
  BY <1>0, <1>1, PayloadsAre DEF Tokens, TokenTypes
<1>3. \A q \in Payloads : ~Alive(q)
  BY <1>0, <1>1, PayloadsAre DEF Tokens
<1>4. \A q \in Payloads : ~Held(q)
  BY <1>0, <1>3, PayloadsAre DEF Alive
<1> QED
  BY <1>2, <1>3, <1>4

LEMMA TokensCleaner ==
  ASSUME TypeOK, Tokens, NEW p \in Payloads, Cleaner(p)
  PROVE  Tokens'
<1>0. TokenTypes
  BY DEF TypeOK
<1>a. ASSUME NEW pc, cleaner' = [cleaner EXCEPT ![p] = pc]
      PROVE  cleaner'[p] = pc /\ \A q \in Payloads : q # p => cleaner'[q] = cleaner[q]
  BY <1>0, <1>a DEF TokenTypes
<1>1. CASE CleanerReturns(p)
  <2>1. cleaner'[p] = "done" /\ (\A q \in Payloads : q # p => cleaner'[q] = cleaner[q]) /\ cleaner[p] = "pending" /\ InitLockFree
    BY <1>1, <1>a DEF CleanerReturns
  <2>2. UNCHANGED <<global, payloads, tok, initialized, polling, joining>>
    BY <1>1 DEF CleanerReturns, initVars, poolVars
  <2>3. \A q \in Payloads : Alive(q)' <=> Alive(q)
    BY <2>2 DEF Alive, Held, HeldIn
  <2>4. \A q \in Payloads : Alive(q)' => cleaner'[q] = "none"
    BY <2>1, <2>3 DEF Tokens
  <2>5. \A q \in Payloads : q > payloads' => cleaner'[q] = "none"
    BY <2>1, <2>2 DEF Tokens
  <2>6. InitLockFree'
    BY <2>1 DEF InitLockFree, Working
  <2>7. joining' => \E q \in Payloads : cleaner'[q] = "exit"
    BY <2>1, <2>2 DEF Tokens
  <2>8. global' = 0 => \A q, r \in 1..payloads' : cleaner'[q] # "done" /\ cleaner'[r] # "done" => q = r
    BY <1>0, <2>1, <2>2, PayloadsAre DEF Tokens
  <2> QED
    BY <2>2, <2>3, <2>4, <2>5, <2>6, <2>7, <2>8 DEF Tokens
<1>2. CASE CleanerBegins(p) \/ CleanerJoins(p) \/ CleanerJoined(p)
  <2>1. PICK pc \in Working : cleaner' = [cleaner EXCEPT ![p] = pc] /\ cleaner[p] \in {"pending", "join", "exit"}
    BY <1>2 DEF CleanerBegins, CleanerJoins, CleanerJoined, Working
  <2>2. cleaner'[p] = pc /\ \A q \in Payloads : q # p => cleaner'[q] = cleaner[q]
    BY <2>1, <1>a
  <2>3. UNCHANGED <<global, payloads, tok, polling>>
    BY <1>2 DEF CleanerBegins, CleanerJoins, CleanerJoined, initVars
  <2>4. global = 0
    BY <1>2, <2>1 DEF CleanerBegins, CleanerJoins, CleanerJoined, Tokens, InitLockFree, Working
  <2>5. ~initialized'
    <3>1. CASE CleanerBegins(p)
      BY <3>1 DEF CleanerBegins
    <3>2. CASE CleanerJoins(p) \/ CleanerJoined(p)
      <4>1. ~InitLockFree /\ initialized' = initialized
        BY <3>2 DEF CleanerJoins, CleanerJoined, InitLockFree, Working, initVars
      <4> QED
        BY <4>1 DEF Tokens
    <3> QED
      BY <1>2, <3>1, <3>2
  <2>6. /\ \A q \in Payloads : ~Held(q) /\ ~Alive(q)
        /\ \A q \in Payloads : q # p => cleaner[q] \in {"none", "done"}
    BY <2>1, <2>4, CleanerFinds
  <2>7. \A q \in Payloads : ~Held(q)' /\ ~Alive(q)'
    BY <2>3, <2>6 DEF Alive, Held, HeldIn
  <2>8. \A q \in Payloads : q > payloads' => cleaner'[q] = "none"
    BY <2>1, <2>2, <2>3 DEF Tokens
  <2>9. joining' => \E q \in Payloads : cleaner'[q] = "exit"
    <3>1. CASE CleanerBegins(p)
      BY <2>1, <2>2, <3>1 DEF CleanerBegins, poolVars, Tokens
    <3>2. CASE CleanerJoins(p)
      BY <3>2, <1>a DEF CleanerJoins
    <3>3. CASE CleanerJoined(p)
      BY <3>3 DEF CleanerJoined
    <3> QED
      BY <1>2, <3>1, <3>2, <3>3
  <2>10. \A q, r \in 1..payloads' : cleaner'[q] # "done" /\ cleaner'[r] # "done" => q = r
    BY <1>0, <2>1, <2>2, <2>3, <2>4, PayloadsAre DEF Tokens
  <2> QED
    BY <2>3, <2>4, <2>5, <2>7, <2>8, <2>9, <2>10 DEF Tokens
<1>3. CASE CleanerClears(p)
  <2>1. cleaner[p] = "clear" /\ UNCHANGED <<global, payloads, initialized, joining>> /\ ~InitLockFree
    BY <1>3 DEF CleanerClears, InitLockFree, Working
  <2>2. global = 0 /\ ~initialized /\ \A q \in Payloads : ~Held(q)
    BY <2>1 DEF Tokens
  <2>3. \A q \in Payloads : ~Alive(q)
    BY <2>2, <1>0, PayloadsAre DEF Alive
  <2>4. /\ \A q \in Payloads : q # p => cleaner[q] \in {"none", "done"}
    BY <2>1, <2>2, CleanerFinds
  <2>5. cleaner'[p] = "done" /\ \A q \in Payloads : q # p => cleaner'[q] = cleaner[q]
    BY <1>3, <2>3 DEF CleanerClears, Orphaned
  <2>6. \A q \in Payloads : ~Held(q)'
    <3>1. \A k \in Owners, w \in Sockets : tok'[k][w] = 0 \/ tok'[k][w] = tok[k][w]
      BY <1>3 DEF CleanerClears
    <3> QED
      BY <1>0, <2>2, <3>1, PayloadsAre DEF Held, HeldIn
  <2>7. \A q \in Payloads : ~Alive(q)'
    BY <1>0, <2>1, <2>2, <2>6, PayloadsAre DEF Alive
  <2>8. InitLockFree'
    BY <2>4, <2>5 DEF InitLockFree, Working
  <2>9. ~joining
    BY <2>1, <2>4 DEF Tokens
  <2>10. \A q, r \in 1..payloads' : cleaner'[q] # "done" /\ cleaner'[r] # "done" => q = r
    BY <1>0, <2>1, <2>2, <2>5, PayloadsAre DEF Tokens
  <2>11. \A q \in Payloads : q > payloads' => cleaner'[q] = "none"
    BY <2>1, <2>5 DEF Tokens
  <2> QED
    BY <2>1, <2>2, <2>7, <2>8, <2>9, <2>10, <2>11 DEF Tokens
<1> QED
  BY <1>1, <1>2, <1>3 DEF Cleaner

LEMMA TokensStep ==
  ASSUME TypeOK, TokensKept, [Next]_vars
  PROVE  TokensKept'
<1> SUFFICES ASSUME ~overlap' PROVE Tokens'
  BY DEF TokensKept
<1>1. ASSUME UNCHANGED <<initVars, tok, cleaner, overlap, joining>>, Tokens PROVE Tokens'
  BY <1>1 DEF Tokens, initVars, Alive, Held, HeldIn, InitLockFree
<1>2. CASE Next
  <2>1. Tokens /\ PoolTypes
    BY <1>2, OverlapStays DEF TokensKept, TypeOK
  <2> QED
    BY <1>1, <1>2, <2>1, TokenSteps, TokensTake, TokensPreload, TokensCleanup, TokensDrops, TokensCleaner
<1>3. CASE UNCHANGED vars
  BY <1>1, <1>3 DEF vars, TokensKept, poolVars
<1> QED
  BY <1>2, <1>3

LEMMA TokensInductive == Spec => [](TypeOK /\ TokensKept)
<1>1. Init => TokensKept
  <2> SUFFICES ASSUME Init PROVE Tokens
    BY DEF TokensKept
  <2>1. \A p \in Payloads : cleaner[p] = "none" /\ p # 0
    BY RuntimeAssumption DEF Init, Payloads
  <2>2. \A p \in Payloads : ~Held(p) /\ ~Alive(p)
    BY <2>1 DEF Init, Alive, Held, HeldIn
  <2>3. InitLockFree /\ \A p, q \in 1..payloads : p = q
    BY <2>1 DEF Init, InitLockFree, Working
  <2> QED
    BY <2>1, <2>2, <2>3 DEF Init, Tokens
<1>2. TypeOK /\ TokensKept /\ [Next]_vars => TokensKept'
  BY TokensStep
<1> QED
  BY <1>1, <1>2, TypeCorrect, PTL DEF Spec

\* As long as cleanup() is not called again before the cleanup of an earlier payload
\* is done, whoever holds a token, of whatever payload, finds the pool and the
\* PollService running and no cleanup thread at work, whatever preload(), WebSockets,
\* transports, teardowns, timers and cleanup threads do meanwhile.  Without that
\* condition it is false: see PendingIffInPool.
THEOREM InitializedByToken == Spec => []TokenKeepsInitialized
<1>1. TypeOK /\ TokensKept => TokenKeepsInitialized
  <2> SUFFICES ASSUME TypeOK, Tokens, NEW p \in Payloads, Held(p)
               PROVE  initialized /\ polling /\ ~joining /\ InitLockFree
    BY DEF TokensKept, TokenKeepsInitialized
  <2>1. Alive(p)
    BY PayloadsAre DEF Alive, TypeOK
  <2>2. initialized /\ polling
    BY <2>1 DEF Tokens
  <2>3. InitLockFree
    BY DEF Tokens
  <2>4. ~joining
    BY <2>3 DEF Tokens, InitLockFree, Working
  <2> QED
    BY <2>2, <2>3, <2>4
<1> QED
  BY <1>1, TokensInductive, PTL

-----------------------------------------------------------------------------
(* The workers of the pool                                                 *)

\* A worker has a task where run() has one, and only a teardown is chained; there
\* are no workers unless the library is initialised or being cleaned up.
Pool ==
  /\ \A k \in Workers : wk[k] \in InTask <=> job[k] # NoTask
  /\ \A k \in Workers : wk[k] \in {"chain", "end"} => job[k].kind = "teardown"
  /\ (~initialized /\ InitLockFree) => \A k \in Workers : wk[k] = "off"
  /\ \A p \in Payloads : cleaner[p] = "clear" => \A k \in Workers : wk[k] = "off"

PoolKept == ~overlap => Pool

\* doInit() finds the workers as they are, or gone.
LEMMA Spawns ==
  ASSUME TypeOK, Pool, Takes \/ Preload
  PROVE  /\ InitLockFree /\ cleaner' = cleaner /\ job' = job
         /\ \/ wk' = wk /\ initialized' = initialized
            \/ wk' = wk /\ initialized'
            \/ /\ \A k \in Workers : wk[k] = "off" /\ wk'[k] = "spawned"
               /\ initialized'
<1>0. TokenTypes
  BY DEF TypeOK
<1>1. InitLockFree /\ cleaner' = cleaner /\ job' = job
  BY DEF Takes, TakeToken, Preload
<1>2. NewPayload \/ UNCHANGED <<initVars, wk>>
  BY <1>0, TakeIs DEF Takes, Preload
<1>3. CASE UNCHANGED <<initVars, wk>>
  BY <1>1, <1>3 DEF initVars
<1>4. CASE NewPayload
  <2>1. CASE initialized
    BY <1>0, <1>1, <1>4, <2>1, NewPayloadIs
  <2>2. CASE ~initialized
    <3>1. \A k \in Workers : wk[k] = "off"
      BY <1>1, <2>2 DEF Pool
    <3>2. \A k \in Workers : wk'[k] = "spawned"
      BY <1>0, <1>4, <2>2, NewPayloadIs
    <3> QED
      BY <1>0, <1>1, <1>4, <3>1, <3>2, NewPayloadIs
  <2> QED
    BY <2>1, <2>2
<1> QED
  BY <1>2, <1>3, <1>4

LEMMA PoolSpawns ==
  ASSUME TypeOK, Pool, Takes \/ Preload
  PROVE  Pool'
<1>1. CASE wk' = wk
  <2>1. (~initialized' /\ InitLockFree') => ~initialized /\ InitLockFree
    BY Spawns DEF InitLockFree
  <2> QED
    BY <1>1, <2>1, Spawns DEF Pool
<1>2. CASE (\A k \in Workers : wk[k] = "off" /\ wk'[k] = "spawned") /\ initialized'
  <2>1. \A p \in Payloads : cleaner'[p] # "clear"
    BY Spawns DEF InitLockFree, Working
  <2> QED
    BY <1>2, <2>1, Spawns DEF Pool, InTask
<1> QED
  BY <1>1, <1>2, Spawns

\* A worker moves, which shows that there are workers.
LEMMA PoolWorks ==
  ASSUME TypeOK, Pool, NEW k \in Workers, wk[k] # "off",
         \A u \in Workers : u # k => wk'[u] = wk[u] /\ job'[u] = job[u],
         wk'[k] \in InTask <=> job'[k] # NoTask, wk'[k] \in {"chain", "end"} => job'[k].kind = "teardown",
         initialized' = initialized, InitLockFree' <=> InitLockFree,
         \A p \in Payloads : cleaner'[p] = "clear" <=> cleaner[p] = "clear"
  PROVE  Pool'
BY DEF Pool

LEMMA PoolWorker ==
  ASSUME TypeOK, Tokens, Pool, NEW k \in Workers, Worker(k)
  PROVE  Pool'
<1>0. PoolTypes /\ TokenTypes
  BY DEF TypeOK
<1>a. ASSUME NEW pc, wk' = [wk EXCEPT ![k] = pc]
      PROVE  wk'[k] = pc /\ \A u \in Workers : u # k => wk'[u] = wk[u]
  BY <1>0, <1>a DEF PoolTypes
<1>b. ASSUME NEW t, job' = [job EXCEPT ![k] = t]
      PROVE  job'[k] = t /\ \A u \in Workers : u # k => job'[u] = job[u]
  BY <1>0, <1>b DEF PoolTypes
<1>1. CASE WorkerStarts(k) \/ Wait(k) \/ WorkerExits(k)
  <2>1. wk[k] \in {"spawned", "run", "wait"} /\ job' = job /\ UNCHANGED <<initialized, cleaner>>
    BY <1>1 DEF WorkerStarts, Wait, WorkerExits, initVars
  <2>2. wk'[k] \in {"run", "wait", "off"} /\ \A u \in Workers : u # k => wk'[u] = wk[u]
    BY <1>1, <1>a DEF WorkerStarts, Wait, WorkerExits
  <2>3. job[k] = NoTask
    BY <2>1 DEF Pool, InTask
  <2>4. InitLockFree' <=> InitLockFree
    BY <2>1 DEF InitLockFree
  <2> QED
    BY <2>1, <2>2, <2>3, <2>4, PoolWorks DEF InTask
<1>2. CASE Dequeue(k)
  <2>1. PICK i \in Due : tasks' = Without(i) /\ job' = [job EXCEPT ![k] = tasks[i]]
    BY <1>2 DEF Dequeue
  <2>2. tasks[i] \in Tasks
    BY <1>0 DEF Due, PoolTypes
  <2>3. tasks[i] # NoTask
    <3>1. tasks[i].kind # "none"
      BY <2>2 DEF Tasks
    <3> QED
      BY <3>1 DEF NoTask
  <2>4. wk[k] \in {"run", "wait"} /\ UNCHANGED <<initialized, cleaner>>
    BY <1>2 DEF Dequeue, initVars
  <2>5. wk'[k] = "task" /\ \A u \in Workers : u # k => wk'[u] = wk[u]
    BY <1>2, <1>a DEF Dequeue
  <2>6. InitLockFree' <=> InitLockFree
    BY <2>4 DEF InitLockFree
  <2> QED
    BY <1>b, <2>1, <2>3, <2>4, <2>5, <2>6, PoolWorks DEF InTask
<1>3. CASE TeardownRuns(k) \/ TeardownEnds(k)
  <2>1. wk[k] \in {"task", "end"} /\ initialized' = initialized
    BY <1>3 DEF TeardownRuns, TeardownEnds, initVars
  <2>2. \A u \in Workers : u # k => wk'[u] = wk[u] /\ job'[u] = job[u]
    BY <1>3, <1>a, <1>b DEF TeardownRuns, TeardownEnds
  <2>3. \A p \in Payloads : cleaner'[p] = cleaner[p] \/ (cleaner[p] = "none" /\ cleaner'[p] = "pending")
    BY <1>3 DEF TeardownRuns, TeardownEnds, PayloadsDie, Orphaned, Tokens
  <2>4. InitLockFree' <=> InitLockFree
    BY <2>3 DEF InitLockFree, Working
  <2>5. \A p \in Payloads : cleaner'[p] = "clear" <=> cleaner[p] = "clear"
    BY <2>3
  <2>6. CASE TeardownRuns(k)
    <3>1. wk'[k] = "chain" /\ job' = job /\ job[k].kind = "teardown"
      BY <2>6, <1>a DEF TeardownRuns
    <3>2. job[k] # NoTask
      BY <3>1 DEF NoTask
    <3> QED
      BY <2>1, <2>2, <2>4, <2>5, <3>1, <3>2, PoolWorks DEF InTask
  <2>7. CASE TeardownEnds(k)
    <3>1. wk'[k] = "run" /\ job'[k] = NoTask
      BY <2>7, <1>a, <1>b DEF TeardownEnds
    <3> QED
      BY <2>1, <2>2, <2>4, <2>5, <3>1, PoolWorks DEF InTask
  <2> QED
    BY <1>3, <2>6, <2>7
<1>4. CASE TeardownChains(k)
  <2>1. wk[k] = "chain" /\ job' = job /\ UNCHANGED <<initialized, cleaner>>
    BY <1>4 DEF TeardownChains, initVars
  <2>2. wk'[k] = "end" /\ \A u \in Workers : u # k => wk'[u] = wk[u]
    BY <1>4, <1>a DEF TeardownChains
  <2>3. InitLockFree' <=> InitLockFree
    BY <2>1 DEF InitLockFree
  <2>4. job[k] # NoTask /\ job[k].kind = "teardown"
    BY <2>1 DEF Pool, InTask
  <2> QED
    BY <2>1, <2>2, <2>3, <2>4, PoolWorks DEF InTask
<1>7. CASE TimerFires(k)
  <2>1. wk[k] = "task" /\ job' = job /\ UNCHANGED <<initialized, cleaner>>
    BY <1>7 DEF TimerFires, initVars
  <2>2. wk'[k] = "late" /\ \A u \in Workers : u # k => wk'[u] = wk[u]
    BY <1>7, <1>a DEF TimerFires
  <2>3. InitLockFree' <=> InitLockFree
    BY <2>1 DEF InitLockFree
  <2>4. job[k] # NoTask
    BY <2>1 DEF Pool, InTask
  <2> QED
    BY <2>1, <2>2, <2>3, <2>4, PoolWorks DEF InTask
<1>5. CASE TimerEnds(k)
  <2>1. wk[k] \in {"task", "late"} /\ UNCHANGED <<initialized, cleaner>>
    BY <1>5 DEF TimerEnds, initVars
  <2>2. wk'[k] = "run" /\ job'[k] = NoTask /\ \A u \in Workers : u # k => wk'[u] = wk[u] /\ job'[u] = job[u]
    BY <1>5, <1>a, <1>b DEF TimerEnds
  <2>3. InitLockFree' <=> InitLockFree
    BY <2>1 DEF InitLockFree
  <2> QED
    BY <2>1, <2>2, <2>3, PoolWorks DEF InTask
<1>6. CASE TimerRuns(k)
  <2>1. Takes
    BY <1>0, <1>6, OwnersAre, JobIs DEF TimerRuns, CloseTransports, Takes
  <2> QED
    BY <2>1, PoolSpawns
<1> QED
  BY <1>1, <1>2, <1>3, <1>4, <1>5, <1>6, <1>7 DEF Worker

LEMMA PoolCleaner ==
  ASSUME TypeOK, Tokens, Pool, NEW p \in Payloads, Cleaner(p)
  PROVE  Pool'
<1>0. TokenTypes /\ wk' = wk /\ job' = job
  BY DEF TypeOK, Cleaner, CleanerReturns, CleanerBegins, CleanerJoins, CleanerJoined, CleanerClears, poolVars
<1>a. ASSUME NEW pc, cleaner' = [cleaner EXCEPT ![p] = pc]
      PROVE  cleaner'[p] = pc /\ \A q \in Payloads : q # p => cleaner'[q] = cleaner[q]
  BY <1>0, <1>a DEF TokenTypes
<1>1. CASE CleanerReturns(p)
  <2>1. InitLockFree /\ initialized' = initialized /\ cleaner'[p] = "done" /\ \A q \in Payloads : q # p => cleaner'[q] = cleaner[q]
    BY <1>1, <1>a DEF CleanerReturns, initVars
  <2> QED
    BY <1>0, <2>1 DEF Pool, InitLockFree
<1>2. CASE CleanerBegins(p) \/ CleanerJoins(p)
  <2>1. cleaner'[p] \in {"join", "exit"} /\ \A q \in Payloads : q # p => cleaner'[q] = cleaner[q]
    BY <1>2, <1>a DEF CleanerBegins, CleanerJoins
  <2>2. ~InitLockFree'
    BY <2>1 DEF InitLockFree, Working
  <2> QED
    BY <1>0, <2>1, <2>2 DEF Pool
<1>3. CASE CleanerJoined(p)
  <2>1. \A k \in Workers : wk[k] = "off"
    BY <1>3 DEF CleanerJoined
  <2> QED
    BY <1>0, <2>1 DEF Pool
<1>4. CASE CleanerClears(p)
  <2>1. \A k \in Workers : wk[k] = "off"
    BY <1>4 DEF CleanerClears, Pool
  <2> QED
    BY <1>0, <2>1 DEF Pool
<1> QED
  BY <1>1, <1>2, <1>3, <1>4 DEF Cleaner

LEMMA PoolStep ==
  ASSUME TypeOK, TokensKept, PoolKept, [Next]_vars
  PROVE  PoolKept'
<1> SUFFICES ASSUME ~overlap' PROVE Pool'
  BY DEF PoolKept
<1>1. ASSUME Pool, wk' = wk, job' = job, initialized' = initialized,
             \A p \in Payloads : cleaner'[p] = cleaner[p] \/ (cleaner[p] = "none" /\ cleaner'[p] = "pending")
      PROVE  Pool'
  <2>1. InitLockFree' <=> InitLockFree
    BY <1>1 DEF InitLockFree, Working
  <2>2. \A p \in Payloads : cleaner'[p] = "clear" <=> cleaner[p] = "clear"
    BY <1>1
  <2> QED
    BY <1>1, <2>1, <2>2 DEF Pool
<1>2. CASE UNCHANGED vars
  BY <1>1, <1>2 DEF vars, poolVars, initVars, PoolKept
<1>3. CASE Next
  <2>0. Tokens /\ Pool /\ PoolTypes
    BY <1>3, OverlapStays DEF TokensKept, PoolKept, TypeOK
  <2>1. CASE Preload
    BY <2>0, <2>1, PoolSpawns
  <2>2. CASE Cleanup
    BY <1>1, <2>0, <2>2 DEF Cleanup, PayloadsDie, Orphaned, Tokens, poolVars
  <2>3. ASSUME NEW w \in Sockets, Destroy(w), UNCHANGED <<initVars, poolVars>> PROVE Pool'
    BY <1>1, <2>0, <2>3 DEF Destroy, PayloadsDie, Orphaned, Tokens, poolVars, initVars
  <2>4. ASSUME NEW w \in Sockets, Create(w) \/ Open(w) \/ Close(w) \/ EraseCloses(w) PROVE Pool'
    <3>1. Takes
      BY <2>4, OwnersAre DEF Create, Open, Close, EraseCloses, CloseTransports, Takes
    <3> QED
      BY <2>0, <3>1, PoolSpawns
  <2>5. CASE EraseAll \/ Erased \/ (\E w \in Sockets : Emplace(w) \/ EraseLocks(w)) \/ \E i \in DOMAIN tasks : TimerDue(i)
    BY <1>1, <2>0, <2>5 DEF EraseAll, Erased, Emplace, EraseLocks, TimerDue, poolVars, initVars
  <2>6. ASSUME NEW w \in Sockets, Delete(w) \/ EraseOne(w) PROVE Pool'
    BY <2>3, <2>6 DEF Delete, EraseOne
  <2> QED
    BY <1>3, <2>0, <2>1, <2>2, <2>4, <2>5, <2>6, PoolWorker, PoolCleaner DEF Next, Erasing
<1> QED
  BY <1>2, <1>3

LEMMA PoolInductive == Spec => [](TypeOK /\ TokensKept /\ PoolKept)
<1>1. Init => PoolKept
  <2> SUFFICES ASSUME Init PROVE Pool
    BY DEF PoolKept
  <2>1. \A k \in Workers : wk[k] = "off" /\ job[k] = NoTask
    BY DEF Init
  <2> QED
    BY <2>1 DEF Pool, InTask
<1>2. TypeOK /\ TokensKept /\ PoolKept /\ [Next]_vars => PoolKept'
  BY PoolStep
<1> QED
  BY <1>1, <1>2, TokensInductive, PTL DEF Spec

-----------------------------------------------------------------------------
(* TeardownInOrder                                                         *)

TornBy(k) == job[k].kind = "teardown" /\ wk[k] # "end"

NoneQueued == \A j \in DOMAIN tasks : tasks[j].kind # "teardown"
OneQueued(w) ==
  \E i \in DOMAIN tasks : tasks[i].of = w /\ \A j \in DOMAIN tasks : tasks[j].kind = "teardown" <=> j = i

NoneRuns == \A u \in Workers : ~TornBy(u)
OneRuns(w, pc) ==
  \E k \in Workers : wk[k] = pc /\ job[k].of = w /\ \A u \in Workers : TornBy(u) <=> u = k

\* What was asked for and is not done waits in its order, but for n in the pool.
Backlog(n) ==
  /\ Len(asked) = Len(done) + n + Len(waiting)
  /\ \A i \in 1..Len(waiting) : waiting[i] = asked[Len(done) + n + i]

\* The processor's turn: nothing is to be torn down; a teardown is queued in the
\* pool; it is run; it was run, and the next one is not chained yet.
Idle   == ~pending /\ waiting = <<>> /\ Backlog(0) /\ NoneQueued /\ NoneRuns
InPool == pending /\ Backlog(1) /\ OneQueued(asked[Len(done) + 1]) /\ NoneRuns
Tears  == pending /\ Backlog(1) /\ NoneQueued /\ OneRuns(asked[Len(done) + 1], "task")
Chains == pending /\ Backlog(0) /\ NoneQueued /\ \E w \in Sockets : OneRuns(w, "chain")
Turn   == Idle \/ InPool \/ Tears \/ Chains

\* A WebSocket asks once, when it closes; its task has a token until it is done.
Ledger ==
  /\ Len(done) <= Len(asked) /\ \A i \in 1..Len(done) : done[i] = asked[i]
  /\ \A i \in 1..Len(asked) : ws[asked[i]] \in {"closed", "gone"}
  /\ \A i, j \in 1..Len(asked) : asked[i] = asked[j] => i = j
  /\ \A i \in 1..Len(asked) : i > Len(done) => tok["task"][asked[i]] # 0
  /\ \A k \in Workers : wk[k] \in {"chain", "end"} => \E i \in 1..Len(done) : job[k].of = done[i]

TurnsKept == ~overlap => Turn /\ Ledger

\* Steps that leave the teardowns of the pool as they are.
QueueKept == (NoneQueued => NoneQueued') /\ \A w \in Sockets : OneQueued(w) => OneQueued(w)'
RunsKept ==
  \A u \in Workers : (TornBy(u)' <=> TornBy(u)) /\ (TornBy(u) => wk'[u] = wk[u] /\ job'[u] = job[u])
TokensOfTasksKept == \A i \in 1..Len(asked) : i > Len(done) => tok'["task"][asked[i]] # 0
LivesKept == \A w \in Sockets : ws[w] \in {"closed", "gone"} => ws'[w] \in {"closed", "gone"}
EndsKept == \A u \in Workers : wk'[u] \in {"chain", "end"} => wk[u] \in {"chain", "end"} /\ job'[u] = job[u]

LEMMA LedgerIs ==
  ASSUME SocketTypes
  PROVE  /\ Len(asked) \in Nat /\ Len(done) \in Nat /\ Len(waiting) \in Nat
         /\ \A i \in 1..Len(asked) : asked[i] \in Sockets
         /\ \A i \in 1..Len(done) : done[i] \in Sockets
         /\ \A i \in 1..Len(waiting) : waiting[i] \in Sockets
         /\ waiting = <<>> <=> Len(waiting) = 0
<1>1. waiting \in Seq(Sockets) /\ asked \in Seq(Sockets) /\ done \in Seq(Sockets)
  BY DEF SocketTypes
<1> QED
  BY <1>1, EmptySeq

LEMMA LedgerStays ==
  ASSUME TypeOK, Ledger, UNCHANGED <<asked, done>>, TokensOfTasksKept, LivesKept, EndsKept
  PROVE  Ledger'
<1>0. SocketTypes
  BY DEF TypeOK
<1>1. \A i \in 1..Len(asked) : ws'[asked[i]] \in {"closed", "gone"}
  BY <1>0, LedgerIs DEF LivesKept, Ledger
<1>2. \A k \in Workers : wk'[k] \in {"chain", "end"} => \E i \in 1..Len(done) : job'[k].of = done[i]
  BY DEF EndsKept, Ledger
<1> QED
  BY <1>1, <1>2 DEF Ledger, TokensOfTasksKept

LEMMA RunsStay ==
  ASSUME RunsKept
  PROVE  /\ NoneRuns => NoneRuns'
         /\ \A w, pc : OneRuns(w, pc) => OneRuns(w, pc)'
<1>1. NoneRuns => NoneRuns'
  BY DEF RunsKept, NoneRuns
<1>2. ASSUME NEW w, NEW pc, OneRuns(w, pc) PROVE OneRuns(w, pc)'
  <2>1. PICK k \in Workers : wk[k] = pc /\ job[k].of = w /\ \A u \in Workers : TornBy(u) <=> u = k
    BY <1>2 DEF OneRuns
  <2>2. wk'[k] = pc /\ job'[k].of = w /\ \A u \in Workers : TornBy(u)' <=> u = k
    BY <2>1 DEF RunsKept
  <2> QED
    BY <2>2 DEF OneRuns
<1> QED
  BY <1>1, <1>2

LEMMA TurnStays ==
  ASSUME TypeOK, Turn, UNCHANGED procVars, QueueKept, RunsKept
  PROVE  Turn'
<1>0. SocketTypes
  BY DEF TypeOK
<1>1. UNCHANGED <<pending, waiting, asked, done>>
  BY DEF procVars
<1>2. \A n : Backlog(n) => Backlog(n)'
  BY <1>1 DEF Backlog
<1>3. CASE Idle
  BY <1>1, <1>2, <1>3, RunsStay DEF Idle, Turn, QueueKept
<1>4. CASE InPool
  <2>1. asked[Len(done) + 1] \in Sockets
    BY <1>0, <1>4, LedgerIs DEF InPool, Backlog
  <2>2. OneQueued(asked[Len(done) + 1])'
    BY <1>1, <1>4, <2>1 DEF InPool, QueueKept, OneQueued
  <2>3. NoneRuns'
    BY <1>4, RunsStay DEF InPool
  <2> QED
    BY <1>1, <1>2, <1>4, <2>2, <2>3 DEF InPool, Turn
<1>5. CASE Tears
  <2>0. \A w : OneRuns(w, "task") => OneRuns(w, "task")'
    BY RunsStay
  <2>1. OneRuns(asked[Len(done) + 1], "task")'
    BY <1>1, <1>5, <2>0, ZenonT(40) DEF Tears, OneRuns
  <2> QED
    BY <1>1, <1>2, <1>5, <2>1 DEF Tears, Turn, QueueKept
<1>6. CASE Chains
  <2>1. \E w \in Sockets : OneRuns(w, "chain")'
    BY <1>6, RunsStay DEF Chains
  <2> QED
    BY <1>1, <1>2, <1>6, <2>1 DEF Chains, Turn, QueueKept
<1> QED
  BY <1>3, <1>4, <1>5, <1>6 DEF Turn

\* The queue of the pool, where no teardown comes or goes ...
LEMMA QueueStays ==
  ASSUME PoolTypes
  PROVE  /\ tasks' = tasks => QueueKept
         /\ \A t \in Tasks : tasks' = Append(tasks, t) /\ t.kind # "teardown" => QueueKept
         /\ \A i \in DOMAIN tasks : TimerDue(i) => QueueKept
         /\ \A i \in DOMAIN tasks : tasks' = Without(i) /\ tasks[i].kind # "teardown" => QueueKept
<1>1. tasks' = tasks => QueueKept
  BY DEF QueueKept, NoneQueued, OneQueued
<1>2. ASSUME NEW t \in Tasks, tasks' = Append(tasks, t), t.kind # "teardown" PROVE QueueKept
  <2>1. NoneQueued => NoneQueued'
    BY <1>2, AppendedIs DEF NoneQueued
  <2>2. ASSUME NEW w \in Sockets, OneQueued(w) PROVE OneQueued(w)'
    <3>1. PICK i \in DOMAIN tasks : tasks[i].of = w /\ \A j \in DOMAIN tasks : tasks[j].kind = "teardown" <=> j = i
      BY <2>2 DEF OneQueued
    <3>2. i \in DOMAIN tasks' /\ tasks'[i].of = w /\ \A j \in DOMAIN tasks' : tasks'[j].kind = "teardown" <=> j = i
      BY <1>2, <3>1, AppendedIs
    <3> QED
      BY <3>2 DEF OneQueued
  <2> QED
    BY <2>1, <2>2 DEF QueueKept
<1>3. ASSUME NEW i \in DOMAIN tasks, TimerDue(i) PROVE QueueKept
  <2>1. tasks' = [tasks EXCEPT ![i].due = TRUE] /\ tasks \in Seq(Tasks)
    BY <1>3 DEF TimerDue, PoolTypes
  <2>2. DOMAIN tasks' = DOMAIN tasks /\ \A j \in DOMAIN tasks : tasks'[j].kind = tasks[j].kind /\ tasks'[j].of = tasks[j].of
    BY <2>1 DEF Tasks
  <2> QED
    BY <2>2 DEF QueueKept, NoneQueued, OneQueued
<1>4. ASSUME NEW i \in DOMAIN tasks, tasks' = Without(i), tasks[i].kind # "teardown" PROVE QueueKept
  <2>1. /\ Len(tasks') = Len(tasks) - 1 /\ tasks' \in Seq(Tasks) /\ tasks \in Seq(Tasks)
        /\ \A j \in DOMAIN tasks' : tasks'[j] = IF j < i THEN tasks[j] ELSE tasks[j + 1]
    BY <1>4, WithoutIs DEF PoolTypes
  <2>2. DOMAIN tasks = 1..Len(tasks) /\ DOMAIN tasks' = 1..Len(tasks') /\ Len(tasks) \in Nat
    BY <2>1
  <2>3. \A j \in DOMAIN tasks' : j \in DOMAIN tasks /\ j + 1 \in DOMAIN tasks
    BY <2>1, <2>2
  <2>4. NoneQueued => NoneQueued'
    BY <2>1, <2>3 DEF NoneQueued
  <2>5. ASSUME NEW w \in Sockets, OneQueued(w) PROVE OneQueued(w)'
    <3>1. PICK n \in DOMAIN tasks : tasks[n].of = w /\ \A j \in DOMAIN tasks : tasks[j].kind = "teardown" <=> j = n
      BY <2>5 DEF OneQueued
    <3> DEFINE m == IF n < i THEN n ELSE n - 1
    <3>2. n # i
      BY <1>4, <3>1
    <3>3. m \in DOMAIN tasks' /\ tasks'[m] = tasks[n]
      BY <2>1, <2>2, <3>2
    <3>4. ASSUME NEW j \in DOMAIN tasks' PROVE tasks'[j].kind = "teardown" <=> j = m
      <4>1. CASE j < i
        <5>1. j = n <=> j = m
          BY <2>2, <3>2, <4>1
        <5> QED
          BY <2>1, <2>3, <3>1, <4>1, <5>1
      <4>2. CASE ~(j < i)
        <5>1. j + 1 = n <=> j = m
          BY <2>2, <3>2, <4>2
        <5> QED
          BY <2>1, <2>3, <3>1, <4>2, <5>1
      <4> QED
        BY <4>1, <4>2
    <3> QED
      BY <3>1, <3>3, <3>4 DEF OneQueued
  <2> QED
    BY <2>4, <2>5 DEF QueueKept
<1> QED
  BY <1>1, <1>2, <1>3, <1>4

\* ... and where one does.
LEMMA QueueGains ==
  ASSUME PoolTypes, NEW w \in Sockets, NoneQueued, tasks' = Append(tasks, Teardown(w))
  PROVE  OneQueued(w)'
<1>1. Teardown(w) \in Tasks /\ Teardown(w).kind = "teardown" /\ Teardown(w).of = w
  BY TasksAre
<1>2. Len(tasks) + 1 \in DOMAIN tasks' /\ tasks'[Len(tasks) + 1].of = w
  BY <1>1, AppendedIs
<1>3. \A j \in DOMAIN tasks' : tasks'[j].kind = "teardown" <=> j = Len(tasks) + 1
  BY <1>1, AppendedIs DEF NoneQueued
<1> QED
  BY <1>2, <1>3 DEF OneQueued

LEMMA QueueLoses ==
  ASSUME PoolTypes, NEW w, OneQueued(w), NEW i \in DOMAIN tasks, tasks[i].kind = "teardown", tasks' = Without(i)
  PROVE  tasks[i].of = w /\ NoneQueued'
<1>1. PICK n \in DOMAIN tasks : tasks[n].of = w /\ \A j \in DOMAIN tasks : tasks[j].kind = "teardown" <=> j = n
  BY DEF OneQueued
<1>2. n = i
  BY <1>1
<1>3. /\ Len(tasks') = Len(tasks) - 1 /\ tasks' \in Seq(Tasks) /\ tasks \in Seq(Tasks)
      /\ \A j \in DOMAIN tasks' : tasks'[j] = IF j < i THEN tasks[j] ELSE tasks[j + 1]
  BY WithoutIs DEF PoolTypes
<1>4. DOMAIN tasks = 1..Len(tasks) /\ DOMAIN tasks' = 1..Len(tasks') /\ Len(tasks) \in Nat
  BY <1>3
<1>5. ASSUME NEW j \in DOMAIN tasks' PROVE tasks'[j].kind # "teardown"
  <2>1. CASE j < i
    BY <1>1, <1>2, <1>3, <1>4, <2>1
  <2>2. CASE ~(j < i)
    <3>1. j + 1 \in DOMAIN tasks /\ j + 1 # i
      BY <1>3, <1>4, <2>2
    <3> QED
      BY <1>1, <1>2, <1>3, <2>2, <3>1
  <2> QED
    BY <2>1, <2>2
<1> QED
  BY <1>1, <1>2, <1>5 DEF NoneQueued

\* token() takes no token from a task.
LEMMA TaskTokens ==
  ASSUME TokenTypes, NEW k \in Owners, NEW w \in Sockets, TakeToken(k, w)
  PROVE  /\ \A v \in Sockets : tok["task"][v] # 0 => tok'["task"][v] # 0
         /\ k = "task" => tok'["task"][w] # 0
<1>1. PICK p \in Payloads : tok' = [tok EXCEPT ![k][w] = p] /\ p # 0
  BY TakeIs
<1> QED
  BY <1>1, OwnersAre DEF TokenTypes

LEMMA TurnsStay ==
  ASSUME TypeOK, Turn, Ledger, UNCHANGED procVars,
         QueueKept, RunsKept, TokensOfTasksKept, LivesKept, EndsKept
  PROVE  Turn' /\ Ledger'
BY TurnStays, LedgerStays DEF procVars

\* Workers without a teardown.
LEMMA NoTeardown ==
  ASSUME Pool, NEW k \in Workers, wk[k] \notin InTask
  PROVE  ~TornBy(k)
<1>1. job[k] = NoTask
  BY DEF Pool
<1> QED
  BY <1>1 DEF TornBy, NoTask

LEMMA RunsSpawned ==
  ASSUME TypeOK, Pool, Takes \/ Preload
  PROVE  RunsKept /\ EndsKept
<1>1. job' = job
  BY Spawns
<1>2. CASE wk' = wk
  BY <1>1, <1>2 DEF RunsKept, EndsKept, TornBy
<1>3. CASE \A k \in Workers : wk[k] = "off" /\ wk'[k] = "spawned"
  <2>1. \A k \in Workers : ~TornBy(k) /\ job[k] = NoTask
    BY <1>3, NoTeardown DEF InTask, Pool
  <2>2. \A k \in Workers : ~TornBy(k)'
    BY <1>1, <2>1 DEF TornBy, NoTask
  <2> QED
    BY <1>3, <2>1, <2>2 DEF RunsKept, EndsKept
<1> QED
  BY <1>2, <1>3, Spawns

LEMMA RunsOther ==
  ASSUME PoolTypes, NEW k \in Workers, ~TornBy(k), ~TornBy(k)', wk'[k] \notin {"chain", "end"},
         \A u \in Workers : u # k => wk'[u] = wk[u] /\ job'[u] = job[u]
  PROVE  RunsKept /\ EndsKept
<1>1. \A u \in Workers : u # k => (TornBy(u)' <=> TornBy(u))
  BY DEF TornBy
<1> QED
  BY <1>1 DEF RunsKept, EndsKept

\* closeTransports(): a teardown joins the others, or is the only one.
LEMMA TurnsEnqueue ==
  ASSUME TypeOK, Pool, Turn, Ledger, NEW w \in Sockets, CloseTransports(w),
         UNCHANGED <<cleaner, overlap, joining, job, done>>
  PROVE  Turn' /\ Ledger'
<1>0. PoolTypes /\ TokenTypes /\ SocketTypes
  BY DEF TypeOK
<1>1. RunsKept /\ EndsKept
  <2>1. Takes
    BY OwnersAre DEF CloseTransports, Takes
  <2> QED
    BY <2>1, RunsSpawned
<1>2. asked' = Append(asked, w) /\ asked \in Seq(Sockets) /\ done' = done
  BY <1>0 DEF CloseTransports, Enqueue, SocketTypes
<1>3. /\ Len(asked) \in Nat /\ Len(done) \in Nat /\ Len(waiting) \in Nat /\ Len(done) <= Len(asked)
      /\ Len(asked') = Len(asked) + 1 /\ asked'[Len(asked) + 1] = w
      /\ \A i \in 1..Len(asked) : asked'[i] = asked[i] /\ asked[i] \in Sockets
      /\ \A i \in 1..Len(asked') : i \in 1..Len(asked) \/ i = Len(asked) + 1
  BY <1>0, <1>2, LedgerIs, AppendProperties DEF Ledger
<1>4. Ledger'
  <2>1. ws[w] = "open" /\ ws'[w] = "closed" /\ \A v \in Sockets : v # w => ws'[v] = ws[v]
    BY <1>0 DEF CloseTransports, SocketTypes
  <2>2. \A i \in 1..Len(asked) : asked[i] # w
    BY <2>1 DEF Ledger
  <2>3. \A i \in 1..Len(done') : done'[i] = asked'[i]
    BY <1>2, <1>3 DEF Ledger
  <2>4. \A i \in 1..Len(asked') : ws'[asked'[i]] \in {"closed", "gone"}
    BY <1>3, <2>1, <2>2 DEF Ledger
  <2>5. \A i, j \in 1..Len(asked') : asked'[i] = asked'[j] => i = j
    BY <1>3, <2>2 DEF Ledger
  <2>6. \A i \in 1..Len(asked') : i > Len(done') => tok'["task"][asked'[i]] # 0
    <3>1. /\ tok'["task"][w] # 0
          /\ \A v \in Sockets : tok["task"][v] # 0 => tok'["task"][v] # 0
      BY <1>0, OwnersAre, TaskTokens DEF CloseTransports
    <3> QED
      BY <1>2, <1>3, <3>1 DEF Ledger
  <2>7. \A k \in Workers : wk'[k] \in {"chain", "end"} => \E i \in 1..Len(done') : job'[k].of = done'[i]
    BY <1>1, <1>2 DEF EndsKept, Ledger
  <2>8. Len(done') <= Len(asked')
    BY <1>2, <1>3
  <2> QED
    BY <2>3, <2>4, <2>5, <2>6, <2>7, <2>8 DEF Ledger
<1>5. CASE pending
  <2>1. waiting' = Append(waiting, w) /\ tasks' = tasks /\ pending' /\ waiting \in Seq(Sockets)
    BY <1>0, <1>5 DEF CloseTransports, Enqueue, SocketTypes
  <2>2. /\ Len(waiting') = Len(waiting) + 1 /\ waiting'[Len(waiting) + 1] = w
        /\ \A i \in 1..Len(waiting) : waiting'[i] = waiting[i]
        /\ \A i \in 1..Len(waiting') : i \in 1..Len(waiting) \/ i = Len(waiting) + 1
    BY <1>3, <2>1, AppendProperties
  <2>3. ASSUME NEW n \in {0, 1}, Backlog(n) PROVE Backlog(n)'
    <3>1. Len(asked') = Len(done') + n + Len(waiting')
      BY <1>2, <1>3, <2>2, <2>3 DEF Backlog
    <3>2. ASSUME NEW i \in 1..Len(waiting') PROVE waiting'[i] = asked'[Len(done') + n + i]
      <4>1. CASE i \in 1..Len(waiting)
        <5>1. Len(done) + n + i \in 1..Len(asked)
          BY <1>3, <2>3, <4>1 DEF Backlog
        <5> QED
          BY <1>2, <1>3, <2>2, <2>3, <4>1, <5>1 DEF Backlog
      <4>2. CASE i = Len(waiting) + 1
        <5>1. Len(done) + n + i = Len(asked) + 1
          BY <1>3, <2>3, <4>2 DEF Backlog
        <5> QED
          BY <1>2, <1>3, <2>2, <4>2, <5>1
      <4> QED
        BY <2>2, <4>1, <4>2
    <3> QED
      BY <3>1, <3>2 DEF Backlog
  <2>4. QueueKept
    BY <1>0, <2>1, QueueStays
  <2>5. ASSUME Backlog(1) PROVE asked'[Len(done') + 1] = asked[Len(done) + 1] /\ asked[Len(done) + 1] \in Sockets
    <3>1. Len(done) + 1 \in 1..Len(asked)
      BY <1>3, <2>5 DEF Backlog
    <3> QED
      BY <1>2, <1>3, <3>1
  <2>6. CASE InPool
    <3>1. OneQueued(asked[Len(done) + 1])'
      BY <2>4, <2>5, <2>6 DEF InPool, QueueKept, OneQueued
    <3>2. NoneRuns'
      BY <1>1, <2>6, RunsStay DEF InPool
    <3> QED
      BY <1>4, <2>1, <2>3, <2>6, <3>1, <3>2 DEF InPool, Turn
  <2>7. CASE Tears
    <3>0. \A v : OneRuns(v, "task") => OneRuns(v, "task")'
      BY <1>1, RunsStay
    <3>1. OneRuns(asked[Len(done) + 1], "task")'
      <4>1. PICK v : v = asked[Len(done) + 1] /\ v = asked'[Len(done') + 1]
        BY <2>5, <2>7 DEF Tears
      <4>2. OneRuns(v, "task")'
        BY <2>7, <3>0, <4>1 DEF Tears
      <4> QED
        BY <4>1, <4>2 DEF OneRuns
    <3> QED
      BY <1>4, <2>1, <2>3, <2>4, <2>7, <3>1 DEF Tears, Turn, QueueKept
  <2>8. CASE Chains
    <3>1. \E v \in Sockets : OneRuns(v, "chain")'
      BY <1>1, <2>8, RunsStay DEF Chains
    <3> QED
      BY <1>4, <2>1, <2>3, <2>4, <2>8, <3>1 DEF Chains, Turn, QueueKept
  <2> QED
    BY <1>4, <1>5, <2>6, <2>7, <2>8 DEF Turn, Idle
<1>6. CASE ~pending
  <2>1. Idle
    BY <1>6 DEF Turn, InPool, Tears, Chains
  <2>2. tasks' = Append(tasks, Teardown(w)) /\ pending' /\ waiting' = waiting /\ waiting = <<>>
    BY <1>6, <2>1 DEF CloseTransports, Enqueue, Idle
  <2>3. OneQueued(w)'
    BY <1>0, <2>1, <2>2, QueueGains DEF Idle
  <2>4. Len(waiting) = 0 /\ Len(asked) = Len(done)
    BY <1>0, <1>3, <2>1, <2>2, LedgerIs DEF Idle, Backlog
  <2>5. Backlog(1)'
    BY <1>2, <1>3, <2>2, <2>4 DEF Backlog
  <2>6. OneQueued(asked[Len(done) + 1])'
    BY <1>2, <1>3, <2>3, <2>4 DEF OneQueued
  <2>7. NoneRuns'
    BY <1>1, <2>1, RunsStay DEF Idle
  <2> QED
    BY <1>4, <2>2, <2>5, <2>6, <2>7 DEF InPool, Turn
<1> QED
  BY <1>5, <1>6

LEMMA WorkerIs ==
  ASSUME PoolTypes, NEW k \in Workers
  PROVE  /\ \A pc : wk' = [wk EXCEPT ![k] = pc] => wk'[k] = pc /\ \A u \in Workers : u # k => wk'[u] = wk[u]
         /\ \A t : job' = [job EXCEPT ![k] = t] => job'[k] = t /\ \A u \in Workers : u # k => job'[u] = job[u]
BY DEF PoolTypes

\* A worker with a teardown has the one whose turn it is.
LEMMA TurnOf ==
  ASSUME TypeOK, Turn, NEW k \in Workers, TornBy(k)
  PROVE  /\ pending /\ NoneQueued /\ \A u \in Workers : TornBy(u) <=> u = k
         /\ wk[k] = "task" => Backlog(1) /\ job[k].of = asked[Len(done) + 1]
         /\ wk[k] = "chain" => Backlog(0)
         /\ wk[k] \in {"task", "chain"}
<1>1. ~NoneRuns
  BY DEF NoneRuns
<1>2. CASE Tears
  <2>1. PICK n \in Workers : wk[n] = "task" /\ job[n].of = asked[Len(done) + 1] /\ \A u \in Workers : TornBy(u) <=> u = n
    BY <1>2 DEF Tears, OneRuns
  <2>2. n = k
    BY <2>1
  <2> QED
    BY <1>2, <2>1, <2>2 DEF Tears
<1>3. CASE Chains
  <2>1. PICK n \in Workers : wk[n] = "chain" /\ \A u \in Workers : TornBy(u) <=> u = n
    BY <1>3 DEF Chains, OneRuns
  <2>2. n = k
    BY <2>1
  <2> QED
    BY <1>3, <2>1, <2>2 DEF Chains
<1> QED
  BY <1>1, <1>2, <1>3 DEF Turn, Idle, InPool

LEMMA TurnsRuns ==
  ASSUME TypeOK, Pool, Turn, Ledger, NEW k \in Workers, TeardownRuns(k)
  PROVE  Turn' /\ Ledger'
<1>0. PoolTypes /\ TokenTypes /\ SocketTypes
  BY DEF TypeOK
<1>a. PICK w \in Sockets : w = job[k].of
  BY <1>0, JobIs DEF TeardownRuns
<1>1. /\ wk[k] = "task" /\ job[k].kind = "teardown" /\ wk' = [wk EXCEPT ![k] = "chain"]
      /\ tok' = [tok EXCEPT !["transports"][w] = 0] /\ done' = Append(done, w)
      /\ UNCHANGED <<tasks, job, pending, waiting, asked, ws>>
  BY <1>a DEF TeardownRuns, apiVars
<1>2. TornBy(k)
  BY <1>1 DEF TornBy
<1>3. pending /\ NoneQueued /\ (\A u \in Workers : TornBy(u) <=> u = k) /\ Backlog(1) /\ w = asked[Len(done) + 1]
  BY <1>a, <1>1, <1>2, TurnOf
<1>4. wk'[k] = "chain" /\ \A u \in Workers : u # k => wk'[u] = wk[u]
  BY <1>0, <1>1, WorkerIs
<1>5. done \in Seq(Sockets) /\ Len(asked) \in Nat /\ Len(done) \in Nat /\ Len(waiting) \in Nat
  BY <1>0, LedgerIs DEF SocketTypes
<1>6. /\ Len(done') = Len(done) + 1 /\ done'[Len(done) + 1] = w
      /\ \A i \in 1..Len(done) : done'[i] = done[i] /\ i \in 1..Len(done')
      /\ \A i \in 1..Len(done') : i \in 1..Len(done) \/ i = Len(done) + 1
  BY <1>1, <1>2, <1>5, AppendProperties
<1>7. Len(done') <= Len(asked') /\ Len(done) + 1 \in 1..Len(done')
  BY <1>1, <1>3, <1>5, <1>6 DEF Backlog
<1>8. Turn'
  <2>1. Backlog(0)'
    <3>1. Len(asked') = Len(done') + 0 + Len(waiting')
      BY <1>1, <1>3, <1>5, <1>6 DEF Backlog
    <3>2. ASSUME NEW i \in 1..Len(waiting') PROVE waiting'[i] = asked'[Len(done') + 0 + i]
      <4>1. i \in 1..Len(waiting) /\ Len(done') + 0 + i = Len(done) + 1 + i
        BY <1>1, <1>5, <1>6
      <4>2. waiting[i] = asked[Len(done) + 1 + i]
        BY <1>3, <4>1 DEF Backlog
      <4> QED
        BY <1>1, <4>1, <4>2
    <3> QED
      BY <3>1, <3>2 DEF Backlog
  <2>2. \A u \in Workers : TornBy(u)' <=> u = k
    BY <1>1, <1>3, <1>4 DEF TornBy
  <2>3. OneRuns(w, "chain")'
    <3>1. job'[k].of = w
      BY <1>a, <1>1
    <3> QED
      BY <1>4, <2>2, <3>1 DEF OneRuns
  <2>4. NoneQueued'
    BY <1>1, <1>3 DEF NoneQueued
  <2>5. pending'
    BY <1>1, <1>3
  <2> QED
    BY <1>2, <2>1, <2>3, <2>4, <2>5 DEF Chains, Turn
<1>9. Ledger'
  <2>1. \A i \in 1..Len(done') : done'[i] = asked'[i]
    BY <1>1, <1>3, <1>6 DEF Ledger
  <2>2. \A i \in 1..Len(asked') : i > Len(done') => tok'["task"][asked'[i]] # 0
    <3>1. tok'["task"] = tok["task"]
      BY <1>0, <1>1, OwnersAre DEF TokenTypes
    <3>2. \A i \in 1..Len(asked') : i > Len(done') => i > Len(done)
      BY <1>5, <1>6
    <3> QED
      BY <1>1, <3>1, <3>2 DEF Ledger
  <2>3. ASSUME NEW u \in Workers, wk'[u] \in {"chain", "end"} PROVE \E i \in 1..Len(done') : job'[u].of = done'[i]
    <3>1. CASE u = k
      BY <1>a, <1>1, <1>6, <1>7, <3>1
    <3>2. CASE u # k
      <4>1. PICK i \in 1..Len(done) : job[u].of = done[i]
        BY <1>4, <2>3, <3>2 DEF Ledger
      <4> QED
        BY <1>1, <1>6, <4>1
    <3> QED
      BY <3>1, <3>2
  <2> QED
    BY <1>1, <1>7, <2>1, <2>2, <2>3 DEF Ledger
<1> QED
  BY <1>8, <1>9

LEMMA TurnsChains ==
  ASSUME TypeOK, Pool, Turn, Ledger, NEW k \in Workers, TeardownChains(k)
  PROVE  Turn' /\ Ledger'
<1>0. PoolTypes /\ TokenTypes /\ SocketTypes
  BY DEF TypeOK
<1>1. /\ wk[k] = "chain" /\ wk' = [wk EXCEPT ![k] = "end"]
      /\ UNCHANGED <<tok, job, asked, done, ws>>
  BY DEF TeardownChains, apiVars
<1>2. TornBy(k)
  BY <1>1 DEF TornBy, Pool
<1>3. pending /\ NoneQueued /\ (\A u \in Workers : TornBy(u) <=> u = k) /\ Backlog(0)
  BY <1>1, <1>2, TurnOf
<1>4. wk'[k] = "end" /\ \A u \in Workers : u # k => wk'[u] = wk[u]
  BY <1>0, <1>1, WorkerIs
<1>5. NoneRuns'
  BY <1>1, <1>3, <1>4 DEF NoneRuns, TornBy
<1>6. waiting \in Seq(Sockets) /\ Len(asked) \in Nat /\ Len(done) \in Nat /\ Len(waiting) \in Nat
  BY <1>0, LedgerIs DEF SocketTypes
<1>7. ASSUME waiting = <<>> PROVE Turn'
  <2>1. ~pending' /\ tasks' = tasks /\ waiting' = waiting
    BY <1>7 DEF TeardownChains
  <2> QED
    BY <1>1, <1>3, <1>5, <1>7, <2>1 DEF Turn, Idle, Backlog, NoneQueued
<1>8. ASSUME waiting # <<>> PROVE Turn'
  <2>1. PICK h \in Sockets : h = Head(waiting)
    BY <1>6, <1>8, HeadTailProperties
  <2>2. tasks' = Append(tasks, Teardown(h)) /\ waiting' = Tail(waiting) /\ pending' = pending
    BY <1>8, <2>1 DEF TeardownChains
  <2>3. h = waiting[1] /\ Len(waiting) > 0
    BY <1>0, <1>6, <1>8, <2>1, LedgerIs
  <2>4. Len(waiting') = Len(waiting) - 1 /\ \A i \in 1..Len(waiting') : waiting'[i] = waiting[i + 1]
    BY <1>6, <1>8, <2>2, HeadTailProperties
  <2>5. h = asked[Len(done) + 1]
    <3>1. waiting[1] = asked[Len(done) + 0 + 1] /\ Len(done) + 0 + 1 = Len(done) + 1
      BY <1>3, <1>6, <2>3 DEF Backlog
    <3> QED
      BY <2>3, <3>1
  <2>6. OneQueued(asked[Len(done) + 1])'
    <3>1. OneQueued(h)'
      BY <1>0, <1>3, <2>2, QueueGains
    <3> QED
      BY <1>1, <2>5, <3>1 DEF OneQueued
  <2>7. Backlog(1)'
    <3>1. Len(asked') = Len(done') + 1 + Len(waiting')
      BY <1>1, <1>3, <1>6, <2>3, <2>4 DEF Backlog
    <3>2. ASSUME NEW i \in 1..Len(waiting') PROVE waiting'[i] = asked'[Len(done') + 1 + i]
      <4>1. i + 1 \in 1..Len(waiting) /\ Len(done) + 0 + (i + 1) = Len(done) + 1 + i
        BY <1>6, <2>3, <2>4
      <4>2. waiting[i + 1] = asked[Len(done) + 0 + (i + 1)]
        BY <1>3, <4>1 DEF Backlog
      <4> QED
        BY <1>1, <2>4, <4>1, <4>2
    <3> QED
      BY <3>1, <3>2 DEF Backlog
  <2> QED
    BY <1>1, <1>3, <1>5, <2>2, <2>6, <2>7 DEF Turn, InPool
<1>9. Ledger'
  <2>1. LivesKept /\ EndsKept /\ TokensOfTasksKept
    BY <1>1, <1>4 DEF LivesKept, EndsKept, TokensOfTasksKept, Ledger
  <2> QED
    BY <1>1, <2>1, LedgerStays
<1> QED
  BY <1>7, <1>8, <1>9

LEMMA TurnsEnds ==
  ASSUME TypeOK, Pool, Turn, Ledger, NEW k \in Workers, TeardownEnds(k)
  PROVE  Turn' /\ Ledger'
<1>0. PoolTypes /\ TokenTypes /\ SocketTypes
  BY DEF TypeOK
<1>1. /\ wk[k] = "end" /\ wk' = [wk EXCEPT ![k] = "run"] /\ job' = [job EXCEPT ![k] = NoTask]
      /\ tok' = [tok EXCEPT !["task"][job[k].of] = 0] /\ UNCHANGED <<tasks, procVars, ws>>
  BY DEF TeardownEnds, apiVars
<1>2. wk'[k] = "run" /\ job'[k] = NoTask /\ \A u \in Workers : u # k => wk'[u] = wk[u] /\ job'[u] = job[u]
  BY <1>0, <1>1, WorkerIs, ZenonT(40)
<1>3. RunsKept /\ EndsKept
  <2>1. ~TornBy(k) /\ ~TornBy(k)'
    BY <1>1, <1>2 DEF TornBy, NoTask
  <2> QED
    BY <1>0, <1>2, <2>1, RunsOther
<1>4. TokensOfTasksKept
  <2>1. PICK n \in 1..Len(done) : job[k].of = done[n]
    BY <1>1 DEF Ledger
  <2>2. Len(asked) \in Nat /\ Len(done) \in Nat /\ n \in 1..Len(asked) /\ job[k].of = asked[n]
    BY <1>0, <2>1, LedgerIs DEF Ledger
  <2>3. ASSUME NEW i \in 1..Len(asked), i > Len(done) PROVE tok'["task"][asked[i]] # 0
    <3>1. i # n
      BY <2>1, <2>2, <2>3
    <3>2. asked[i] # job[k].of /\ asked[i] \in Sockets
      BY <1>0, <2>2, <3>1, LedgerIs DEF Ledger
    <3>3. tok'["task"][asked[i]] = tok["task"][asked[i]]
      BY <1>0, <1>1, <3>2, OwnersAre DEF TokenTypes
    <3> QED
      BY <2>3, <3>3 DEF Ledger
  <2> QED
    BY <2>3 DEF TokensOfTasksKept
<1>5. QueueKept /\ LivesKept
  BY <1>0, <1>1, QueueStays DEF LivesKept
<1> QED
  BY <1>1, <1>3, <1>4, <1>5, TurnsStay

\* dequeue(): a timer is taken, or the one teardown that is queued.
LEMMA TurnsDequeue ==
  ASSUME TypeOK, Pool, Turn, Ledger, NEW k \in Workers, Dequeue(k)
  PROVE  Turn' /\ Ledger'
<1>0. PoolTypes /\ TokenTypes /\ SocketTypes
  BY DEF TypeOK
<1>1. /\ wk[k] \in {"run", "wait"} /\ wk' = [wk EXCEPT ![k] = "task"]
      /\ UNCHANGED <<tok, procVars, ws>>
  BY DEF Dequeue, apiVars
<1>2. PICK i \in Due : tasks' = Without(i) /\ job' = [job EXCEPT ![k] = tasks[i]]
  BY DEF Dequeue
<1>3. i \in DOMAIN tasks
  BY DEF Due
<1>4. wk'[k] = "task" /\ job'[k] = tasks[i] /\ \A u \in Workers : u # k => wk'[u] = wk[u] /\ job'[u] = job[u]
  BY <1>0, <1>1, <1>2, WorkerIs, ZenonT(40)
<1>5. ~TornBy(k)
  BY <1>1, NoTeardown DEF InTask
<1>6. TokensOfTasksKept /\ LivesKept /\ EndsKept
  BY <1>1, <1>4 DEF TokensOfTasksKept, LivesKept, EndsKept, Ledger
<1>7. CASE tasks[i].kind # "teardown"
  <2>1. ~TornBy(k)'
    BY <1>4, <1>7 DEF TornBy
  <2>2. RunsKept
    BY <1>0, <1>4, <1>5, <2>1, RunsOther
  <2>3. QueueKept
    BY <1>0, <1>2, <1>3, <1>7, QueueStays
  <2> QED
    BY <1>1, <1>6, <2>2, <2>3, TurnsStay
<1>8. CASE tasks[i].kind = "teardown"
  <2>1. InPool
    BY <1>3, <1>8 DEF Turn, Idle, Tears, Chains, NoneQueued
  <2>2. PICK w : w = asked[Len(done) + 1]
    OBVIOUS
  <2>3. tasks[i].of = w /\ NoneQueued'
    BY <1>0, <1>2, <1>3, <1>8, <2>1, <2>2, QueueLoses DEF InPool
  <2>4. \A u \in Workers : TornBy(u)' <=> u = k
    BY <1>4, <1>8, <2>1 DEF InPool, NoneRuns, TornBy
  <2>5. OneRuns(w, "task")'
    BY <1>4, <2>3, <2>4 DEF OneRuns
  <2>6. UNCHANGED <<pending, waiting, asked, done>>
    BY <1>1 DEF procVars
  <2>7. OneRuns(asked[Len(done) + 1], "task")'
    BY <2>2, <2>5, <2>6 DEF OneRuns
  <2>8. Backlog(1)' /\ pending'
    BY <2>1, <2>6 DEF InPool, Backlog
  <2>9. Ledger'
    BY <1>6, <2>6, LedgerStays
  <2> QED
    BY <2>3, <2>7, <2>8, <2>9 DEF Tears, Turn
<1> QED
  BY <1>7, <1>8

\* clear() finds no teardown to drop: it would have a token, and then no cleanup
\* thread works.
LEMMA TurnsClears ==
  ASSUME TypeOK, Tokens, Pool, Turn, Ledger, NEW p \in Payloads, CleanerClears(p)
  PROVE  Turn' /\ Ledger'
<1>0. PoolTypes /\ TokenTypes /\ SocketTypes
  BY DEF TypeOK
<1>1. cleaner[p] = "clear" /\ tasks' = <<>> /\ UNCHANGED <<wk, job, procVars, ws>>
  BY DEF CleanerClears, apiVars
<1>2. \A q \in Payloads : ~Held(q)
  BY <1>1 DEF Tokens, InitLockFree, Working
<1>3. \A k \in Workers : wk[k] = "off"
  BY <1>1 DEF Pool
<1>4. \A i \in 1..Len(asked) : ~(i > Len(done))
  <2> SUFFICES ASSUME NEW i \in 1..Len(asked), i > Len(done) PROVE FALSE
    OBVIOUS
  <2>1. tok["task"][asked[i]] # 0 /\ asked[i] \in Sockets
    BY <1>0, LedgerIs DEF Ledger
  <2>2. tok["task"][asked[i]] \in Payloads
    BY <1>0, <2>1, OwnersAre, RuntimeAssumption DEF TokenTypes, Payloads
  <2>3. Held(tok["task"][asked[i]])
    BY <2>1, OwnersAre DEF Held, HeldIn
  <2> QED
    BY <1>2, <2>2, <2>3
<1>5. Len(asked) = Len(done)
  BY <1>0, <1>4, LedgerIs DEF Ledger
<1>6. Idle
  <2>1. ~Backlog(1)
    BY <1>0, <1>5, LedgerIs DEF Backlog
  <2>2. ~Chains
    BY <1>3 DEF Chains, OneRuns
  <2> QED
    BY <2>1, <2>2 DEF Turn, InPool, Tears
<1>7. Turn'
  <2>1. NoneQueued'
    BY <1>1 DEF NoneQueued
  <2>2. NoneRuns'
    BY <1>1, <1>6 DEF Idle, NoneRuns, TornBy
  <2>3. UNCHANGED <<pending, waiting, asked, done>>
    BY <1>1 DEF procVars
  <2> QED
    BY <1>6, <2>1, <2>2, <2>3 DEF Idle, Backlog, Turn
<1>8. Ledger'
  <2>1. TokensOfTasksKept /\ LivesKept /\ EndsKept
    BY <1>1, <1>4 DEF TokensOfTasksKept, LivesKept, EndsKept
  <2> QED
    BY <1>1, <2>1, LedgerStays DEF procVars
<1> QED
  BY <1>7, <1>8

LEMMA TurnsWorker ==
  ASSUME TypeOK, Pool, Turn, Ledger, NEW k \in Workers, Worker(k)
  PROVE  Turn' /\ Ledger'
<1>0. PoolTypes /\ TokenTypes /\ SocketTypes
  BY DEF TypeOK
<1>1. CASE WorkerStarts(k) \/ Wait(k) \/ WorkerExits(k)
  <2>1. wk[k] \notin InTask /\ UNCHANGED <<tok, tasks, job, procVars, ws>>
    BY <1>1 DEF WorkerStarts, Wait, WorkerExits, InTask, apiVars
  <2>2. wk'[k] \notin {"chain", "end"} /\ \A u \in Workers : u # k => wk'[u] = wk[u]
    BY <1>0, <1>1, WorkerIs DEF WorkerStarts, Wait, WorkerExits
  <2>3. ~TornBy(k) /\ job[k] = NoTask
    BY <2>1, NoTeardown DEF Pool
  <2>4. ~TornBy(k)'
    BY <2>1, <2>3 DEF TornBy, NoTask
  <2>5. RunsKept /\ EndsKept
    BY <1>0, <2>1, <2>2, <2>3, <2>4, RunsOther
  <2>6. QueueKept /\ LivesKept /\ TokensOfTasksKept
    BY <1>0, <2>1, QueueStays DEF LivesKept, TokensOfTasksKept, Ledger
  <2> QED
    BY <2>1, <2>5, <2>6, TurnsStay
<1>4. CASE TimerFires(k)
  <2>1. job[k].kind = "timer" /\ UNCHANGED <<tok, tasks, job, procVars, ws>>
    BY <1>4 DEF TimerFires, apiVars
  <2>2. wk'[k] = "late" /\ \A u \in Workers : u # k => wk'[u] = wk[u]
    BY <1>0, <1>4, WorkerIs DEF TimerFires
  <2>3. ~TornBy(k) /\ ~TornBy(k)'
    BY <2>1, <2>2 DEF TornBy
  <2>4. RunsKept /\ EndsKept
    BY <1>0, <2>1, <2>2, <2>3, RunsOther
  <2>5. QueueKept /\ LivesKept /\ TokensOfTasksKept
    BY <1>0, <2>1, QueueStays DEF LivesKept, TokensOfTasksKept, Ledger
  <2> QED
    BY <2>1, <2>4, <2>5, TurnsStay
<1>2. CASE TimerEnds(k)
  <2>1. job[k].kind = "timer" /\ UNCHANGED <<tok, tasks, procVars, ws>>
    BY <1>2 DEF TimerEnds, apiVars
  <2>2. wk'[k] = "run" /\ job'[k] = NoTask /\ \A u \in Workers : u # k => wk'[u] = wk[u] /\ job'[u] = job[u]
    BY <1>0, <1>2, WorkerIs DEF TimerEnds
  <2>3. ~TornBy(k) /\ ~TornBy(k)'
    BY <2>1, <2>2 DEF TornBy, NoTask
  <2>4. RunsKept /\ EndsKept
    BY <1>0, <2>2, <2>3, RunsOther
  <2>5. QueueKept /\ LivesKept /\ TokensOfTasksKept
    BY <1>0, <2>1, QueueStays DEF LivesKept, TokensOfTasksKept, Ledger
  <2> QED
    BY <2>1, <2>4, <2>5, TurnsStay
<1>3. CASE TimerRuns(k)
  BY <1>0, <1>3, JobIs, TurnsEnqueue DEF TimerRuns
<1> QED
  BY <1>1, <1>2, <1>3, <1>4, TurnsDequeue, TurnsRuns, TurnsChains, TurnsEnds DEF Worker

\* The steps of the WebSockets and of the C API other than closeTransports().
LEMMA TurnsSocket ==
  ASSUME TypeOK, Pool, Turn, Ledger, NEW w \in Sockets,
         Create(w) \/ Open(w) \/ Delete(w) \/ EraseOne(w)
  PROVE  Turn' /\ Ledger'
<1>0. PoolTypes /\ TokenTypes /\ SocketTypes
  BY DEF TypeOK
<1>1. CASE Create(w) \/ Open(w)
  <2>1. UNCHANGED procVars
    BY <1>1 DEF Create, Open
  <2>2. RunsKept /\ EndsKept
    <3>1. Takes
      BY <1>1, OwnersAre DEF Create, Open, Takes
    <3> QED
      BY <3>1, RunsSpawned
  <2>3. LivesKept
    BY <1>0, <1>1 DEF Create, Open, LivesKept, SocketTypes
  <2>4. TokensOfTasksKept
    <3>1. \A v \in Sockets : tok["task"][v] # 0 => tok'["task"][v] # 0
      BY <1>0, <1>1, OwnersAre, TaskTokens DEF Create, Open
    <3> QED
      BY <1>0, <3>1, LedgerIs DEF TokensOfTasksKept, Ledger
  <2>5. QueueKept
    <3>1. CASE tasks' = tasks
      BY <1>0, <3>1, QueueStays
    <3>2. CASE tasks' = Append(tasks, Timer(w))
      BY <1>0, <3>2, QueueStays, TasksAre
    <3>3. tasks' = tasks \/ tasks' = Append(tasks, Timer(w))
      <4>1. CASE Create(w)
        BY <4>1 DEF Create
      <4>2. CASE Open(w)
        <5>1. tasks' = tasks \o (IF w \in Timed THEN <<Timer(w)>> ELSE <<>>) /\ tasks \in Seq(Tasks) /\ Timer(w) \in Tasks
          BY <1>0, <4>2, TasksAre DEF Open, PoolTypes
        <5>2. tasks \o <<>> = tasks /\ tasks \o <<Timer(w)>> = Append(tasks, Timer(w))
          BY <5>1, ConcatEmptySeq, AppendIsConcat
        <5> QED
          BY <5>1, <5>2
      <4> QED
        BY <1>1, <4>1, <4>2
    <3> QED
      BY <3>1, <3>2, <3>3
  <2> QED
    BY <2>1, <2>2, <2>3, <2>4, <2>5, TurnsStay
<1>2. CASE Delete(w) \/ EraseOne(w)
  <2>1. /\ UNCHANGED <<procVars, tasks, wk, job>> /\ ws' = [ws EXCEPT ![w] = "gone"]
        /\ tok' = [tok EXCEPT !["socket"][w] = 0]
    BY <1>2 DEF Delete, EraseOne, Destroy, poolVars
  <2>2. RunsKept /\ EndsKept
    BY <2>1 DEF RunsKept, EndsKept, TornBy
  <2>3. LivesKept
    BY <1>0, <2>1 DEF LivesKept, SocketTypes
  <2>4. tok'["task"] = tok["task"]
    BY <1>0, <2>1, OwnersAre DEF TokenTypes
  <2>5. TokensOfTasksKept
    BY <2>4 DEF TokensOfTasksKept, Ledger
  <2> QED
    BY <1>0, <2>1, <2>2, <2>3, <2>5, QueueStays, TurnsStay
<1> QED
  BY <1>1, <1>2

LEMMA TurnsStep ==
  ASSUME TypeOK, TokensKept, PoolKept, TurnsKept, [Next]_vars
  PROVE  TurnsKept'
<1> SUFFICES ASSUME ~overlap' PROVE Turn' /\ Ledger'
  BY DEF TurnsKept
<1>0. PoolTypes /\ TokenTypes /\ SocketTypes
  BY DEF TypeOK
<1>1. ASSUME Turn, Ledger, UNCHANGED <<tok, wk, job, procVars, ws>>, QueueKept PROVE Turn' /\ Ledger'
  <2>1. RunsKept /\ EndsKept /\ LivesKept /\ TokensOfTasksKept
    BY <1>1 DEF RunsKept, EndsKept, LivesKept, TokensOfTasksKept, TornBy, Ledger
  <2> QED
    BY <1>1, <2>1, TurnsStay
<1>2. CASE UNCHANGED vars
  <2>1. overlap' = overlap /\ UNCHANGED <<tok, wk, job, procVars, ws, tasks>>
    BY <1>2 DEF vars, poolVars, apiVars
  <2>2. Turn /\ Ledger
    BY <2>1 DEF TurnsKept
  <2> QED
    BY <1>0, <1>1, <2>1, <2>2, QueueStays
<1>3. CASE Next
  <2>0. Tokens /\ Pool /\ Turn /\ Ledger
    BY <1>0, <1>3, OverlapStays DEF TokensKept, PoolKept, TurnsKept
  <2>1. CASE Preload
    <3>1. RunsKept /\ EndsKept
      BY <2>0, <2>1, RunsSpawned
    <3>2. UNCHANGED <<tok, tasks, procVars, ws>>
      BY <2>1 DEF Preload, apiVars
    <3>3. LivesKept /\ TokensOfTasksKept
      BY <2>0, <3>2 DEF LivesKept, TokensOfTasksKept, Ledger
    <3> QED
      BY <1>0, <2>0, <3>1, <3>2, <3>3, QueueStays, TurnsStay
  <2>2. CASE Cleanup \/ EraseAll \/ Erased \/ \E w \in Sockets : Emplace(w) \/ EraseLocks(w)
    <3>1. UNCHANGED <<tok, wk, job, procVars, ws, tasks>>
      BY <2>2 DEF Cleanup, EraseAll, Erased, Emplace, EraseLocks, poolVars
    <3> QED
      BY <1>0, <1>1, <2>0, <3>1, QueueStays
  <2>3. ASSUME NEW i \in DOMAIN tasks, TimerDue(i) PROVE Turn' /\ Ledger'
    <3>1. UNCHANGED <<tok, wk, job, procVars, ws>>
      BY <2>3 DEF TimerDue, apiVars
    <3> QED
      BY <1>0, <1>1, <2>0, <2>3, <3>1, QueueStays
  <2>4. ASSUME NEW p \in Payloads, Cleaner(p) PROVE Turn' /\ Ledger'
    <3>1. CASE ~CleanerClears(p)
      <4>1. UNCHANGED <<tok, wk, job, procVars, ws, tasks>>
        BY <2>4, <3>1 DEF Cleaner, CleanerReturns, CleanerBegins, CleanerJoins, CleanerJoined, poolVars, apiVars
      <4> QED
        BY <1>0, <1>1, <2>0, <4>1, QueueStays
    <3> QED
      BY <2>0, <3>1, TurnsClears
  <2>5. ASSUME NEW w \in Sockets, Close(w) \/ EraseCloses(w) PROVE Turn' /\ Ledger'
    BY <2>0, <2>5, TurnsEnqueue DEF Close, EraseCloses
  <2> QED
    BY <1>3, <2>0, <2>1, <2>2, <2>3, <2>4, <2>5, TurnsWorker, TurnsSocket DEF Next, Erasing
<1> QED
  BY <1>2, <1>3

LEMMA TurnsInductive == Spec => [](TypeOK /\ TurnsKept)
<1>1. Init => TurnsKept
  <2> SUFFICES ASSUME Init PROVE Turn /\ Ledger
    BY DEF TurnsKept
  <2>1. Len(asked) = 0 /\ Len(done) = 0 /\ Len(waiting) = 0 /\ DOMAIN tasks = {}
    BY DEF Init
  <2>2. \A k \in Workers : wk[k] = "off" /\ job[k] = NoTask
    BY DEF Init
  <2>3. NoneRuns
    BY <2>2 DEF NoneRuns, TornBy, NoTask
  <2>4. Idle
    BY <2>1, <2>3 DEF Init, Idle, Backlog, NoneQueued
  <2>5. Ledger
    BY <2>1, <2>2 DEF Ledger
  <2> QED
    BY <2>4, <2>5 DEF Turn
<1>2. TypeOK /\ TokensKept /\ PoolKept /\ TurnsKept /\ [Next]_vars => TurnsKept'
  BY TurnsStep
<1> QED
  BY <1>1, <1>2, PoolInductive, PTL DEF Spec

LEMMA OneInPool ==
  ASSUME TypeOK, Turn
  PROVE  Cardinality(Queued) + Cardinality(Running) = IF pending THEN 1 ELSE 0
<1>1. NoneQueued => Cardinality(Queued) = 0
  BY FS_EmptySet DEF NoneQueued, Queued
<1>2. ASSUME NEW w, OneQueued(w) PROVE Cardinality(Queued) = 1
  <2>1. PICK i \in DOMAIN tasks : \A j \in DOMAIN tasks : tasks[j].kind = "teardown" <=> j = i
    BY <1>2 DEF OneQueued
  <2>2. Queued = {i}
    BY <2>1 DEF Queued
  <2> QED
    BY <2>2, FS_Singleton
<1>3. NoneRuns => Cardinality(Running) = 0
  BY FS_EmptySet DEF NoneRuns, Running, TornBy
<1>4. ASSUME NEW w, NEW pc, OneRuns(w, pc) PROVE Cardinality(Running) = 1
  <2>1. PICK k \in Workers : \A u \in Workers : TornBy(u) <=> u = k
    BY <1>4 DEF OneRuns
  <2>2. Running = {k}
    BY <2>1 DEF Running, TornBy
  <2> QED
    BY <2>2, FS_Singleton
<1>5. CASE Idle
  BY <1>1, <1>3, <1>5 DEF Idle
<1>6. CASE InPool
  BY <1>2, <1>3, <1>6 DEF InPool
<1>7. CASE Tears
  BY <1>1, <1>4, <1>7 DEF Tears
<1>8. CASE Chains
  BY <1>1, <1>4, <1>8 DEF Chains
<1> QED
  BY <1>5, <1>6, <1>7, <1>8 DEF Turn

LEMMA DoneInOrder ==
  ASSUME TypeOK, Ledger
  PROVE  done = SubSeq(asked, 1, Len(done))
<1> DEFINE d == SubSeq(asked, 1, Len(done))
<1>0. SocketTypes /\ done \in Seq(Sockets) /\ asked \in Seq(Sockets) /\ Len(done) \in Nat /\ Len(done) \in Int
  BY LedgerIs DEF TypeOK, SocketTypes
<1>1. \A i \in 1..Len(done) : asked[i] \in Sockets
  BY <1>0, LedgerIs DEF Ledger
<1>2. /\ d \in Seq(Sockets) /\ Len(d) = (IF 1 <= Len(done) THEN Len(done) - 1 + 1 ELSE 0)
      /\ \A i \in 1..Len(done) - 1 + 1 : d[i] = asked[1 + i - 1]
  BY <1>0, <1>1, SubSeqProperties
<1> HIDE DEF d
<1>3. Len(d) = Len(done)
  BY <1>0, <1>2
<1>4. ASSUME NEW i \in 1..Len(done) PROVE done[i] = d[i]
  <2>1. 1 + i - 1 = i /\ i \in 1..Len(done) - 1 + 1
    BY <1>0
  <2> QED
    BY <1>2, <2>1 DEF Ledger
<1>5. done = d
  BY <1>0, <1>2, <1>3, <1>4, SeqEqual
<1> QED
  BY <1>5 DEF d

\* As long as cleanup() is not called again before the cleanup of an earlier payload
\* is done, transports are torn down one at a time and in the order in which the
\* WebSockets closed, and mPending is true exactly while a teardown is in the pool,
\* queued or run, whatever the timers, the workers and the C API do, for any number
\* of them.  Without that condition a cleanup thread drops teardowns.
THEOREM TeardownsInOrder == Spec => []TeardownInOrder
<1>1. TypeOK /\ TurnsKept => TeardownInOrder
  BY OneInPool, DoneInOrder DEF TurnsKept, TeardownInOrder
<1> QED
  BY <1>1, TurnsInductive, PTL

=============================================================================
