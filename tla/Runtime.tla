------------------------------- MODULE Runtime -------------------------------
(***************************************************************************)
(* What all WebSockets of a process share: Init with its tokens and the    *)
(* cleanup thread (src/impl/init.cpp), the ThreadPool, the TearDownProcessor *)
(* that runs on it, and the handle map of the C API (src/capi.cpp).        *)
(*                                                                         *)
(* A token is a shared_ptr to a TokenPayload.  The library is initialised  *)
(* with a payload; when its last token goes, a detached thread cleans up.  *)
(* Tokens are held by WebSockets, by their transports, and by the tasks    *)
(* that tear transports down.  Payloads are numbered; 0 is none.           *)
(***************************************************************************)
EXTENDS Naturals, Sequences, FiniteSets

CONSTANTS
  Sockets,      \* WebSockets; each is created once
  Timed,        \* those with a connection timeout
  Watched,      \* those with a closed callback of the C API
  Workers,      \* the threads spawn() starts
  MaxPayloads,  \* bound: payloads made
  MaxCleanups   \* bound: calls of cleanup()

ASSUME RuntimeAssumption ==
  IsFiniteSet(Workers) /\ Workers # {} /\ MaxPayloads \in Nat /\ MaxCleanups \in Nat

Payloads == 1..MaxPayloads
Owners   == {"socket", "transports", "task"}       \* who holds tokens
NoTask   == [kind |-> "none"]                      \* or "teardown", "timer", with of and due
InTask   == {"task", "late", "chain", "end"}       \* where a worker has a task
Working  == {"join", "exit", "clear"}              \* where doCleanup() has mMutex

VARIABLES
  global,      \* the payload of mGlobal
  weak,        \* the payload of mWeak
  payloads,    \* payloads made so far
  tok,         \* per owner and WebSocket: the payload its token is of
  initialized, \* mInitialized
  polling,     \* has the PollService been started
  cleaner,     \* per payload: its cleanup thread
  cleanups,    \* calls of cleanup()
  overlap,     \* has cleanup() been called before an earlier payload was cleaned up
  tasks,       \* ThreadPool::mTasks
  joining,     \* mJoining
  wk,          \* per worker: where it is in run()
  job,         \* per worker: the task it runs
  pending,     \* Processor::mPending
  waiting,     \* Processor::mTasks: the WebSockets to be torn down
  ws,          \* per WebSocket: its life
  mapped,      \* webSocketMap
  capi,        \* wscCleanup()
  asked, done  \* teardowns enqueued, and run

initVars == <<global, weak, payloads, initialized, polling>>
poolVars == <<tasks, joining, wk, job>>
procVars == <<pending, waiting, asked, done>>
apiVars  == <<ws, mapped, capi>>
vars     == <<initVars, tok, cleaner, cleanups, overlap, poolVars, procVars, apiVars>>

Timer(w)    == [kind |-> "timer", of |-> w, due |-> FALSE]
Teardown(w) == [kind |-> "teardown", of |-> w, due |-> TRUE]

-----------------------------------------------------------------------------
(* Init                                                                    *)

HeldIn(t, p) == \E k \in Owners, w \in Sockets : t[k][w] = p
Held(p)  == HeldIn(tok, p)
Alive(p) == p # 0 /\ (global = p \/ Held(p))

\* mMutex of Init: the cleanup thread has it while it works.
InitLockFree == \A p \in Payloads : cleaner[p] \notin Working

\* doInit(): the pool is spawned and the PollService started, once.
DoInit ==
  /\ initialized' = TRUE /\ polling' = TRUE
  /\ wk' = IF initialized THEN wk ELSE [k \in Workers |-> "spawned"]

NewPayload ==
  /\ payloads < MaxPayloads /\ payloads' = payloads + 1
  /\ global' = payloads' /\ weak' = payloads' /\ DoInit

\* token()
TakeToken(k, w) ==
  /\ InitLockFree
  /\ \/ Alive(weak) /\ tok' = [tok EXCEPT ![k][w] = weak] /\ UNCHANGED <<initVars, wk>>
     \/ ~Alive(weak) /\ NewPayload /\ tok' = [tok EXCEPT ![k][w] = payloads']

\* ~TokenPayload: a payload that loses its last owner in this step gets a thread.
Orphaned(p, g, t) == Alive(p) /\ p # g /\ ~HeldIn(t, p)
PayloadsDie(g, t) ==
  cleaner' = [p \in Payloads |-> IF Orphaned(p, g, t) THEN "pending" ELSE cleaner[p]]

Preload ==
  /\ InitLockFree /\ global = 0 /\ NewPayload
  /\ UNCHANGED <<tok, cleaner, cleanups, overlap, tasks, joining, job, procVars, apiVars>>

\* cleanup(), also as the end of wscCleanup().
Cleanup ==
  /\ InitLockFree /\ cleanups < MaxCleanups /\ cleanups' = cleanups + 1
  /\ capi \in {"free", "erased"} /\ capi' = "free"
  /\ global' = 0 /\ PayloadsDie(0, tok)
  /\ overlap' = (overlap \/ (global # 0 /\ \E p \in 1..payloads : p # global /\ cleaner[p] # "done"))
  /\ UNCHANGED <<weak, payloads, initialized, polling, tok, poolVars, procVars, ws, mapped>>

\* doCleanup(): nothing to do when there is a new payload, or no initialisation.
CleanerReturns(p) ==
  /\ cleaner[p] = "pending" /\ InitLockFree /\ (global # 0 \/ ~initialized)
  /\ cleaner' = [cleaner EXCEPT ![p] = "done"]
  /\ UNCHANGED <<initVars, tok, cleanups, overlap, poolVars, procVars, apiVars>>

\* Mutant: doCleanup() does not look for a new payload.
CleanerBegins_Blind(p) ==
  /\ cleaner[p] = "pending" /\ InitLockFree /\ initialized
  /\ initialized' = FALSE /\ cleaner' = [cleaner EXCEPT ![p] = "join"]
  /\ UNCHANGED <<global, weak, payloads, polling, tok, cleanups, overlap, poolVars, procVars, apiVars>>

CleanerBegins(p) ==
  /\ cleaner[p] = "pending" /\ InitLockFree /\ global = 0 /\ initialized
  /\ initialized' = FALSE /\ cleaner' = [cleaner EXCEPT ![p] = "join"]
  /\ UNCHANGED <<global, weak, payloads, polling, tok, cleanups, overlap, poolVars, procVars, apiVars>>

-----------------------------------------------------------------------------
(* ThreadPool                                                              *)

\* mBusyWorkers = 0
NoneBusy == \A k \in Workers : wk[k] \notin {"run"} \cup InTask

\* join(): waits until no worker is busy, then tells them to go ...
CleanerJoins(p) ==
  /\ cleaner[p] = "join" /\ NoneBusy
  /\ joining' = TRUE /\ cleaner' = [cleaner EXCEPT ![p] = "exit"]
  /\ UNCHANGED <<initVars, tok, cleanups, overlap, tasks, wk, job, procVars, apiVars>>

\* ... and waits until they have.
CleanerJoined(p) ==
  /\ cleaner[p] = "exit" /\ \A k \in Workers : wk[k] = "off"
  /\ joining' = FALSE /\ cleaner' = [cleaner EXCEPT ![p] = "clear"]
  /\ UNCHANGED <<initVars, tok, cleanups, overlap, tasks, wk, job, procVars, apiVars>>

\* clear() drops what is queued, with the tokens of it; PollService::join().
CleanerClears(p) ==
  LET dropped == {tasks[i].of : i \in {j \in DOMAIN tasks : tasks[j].kind = "teardown"}} IN
  /\ cleaner[p] = "clear"
  /\ tasks' = <<>> /\ polling' = FALSE
  /\ tok' = [k \in Owners |-> [w \in Sockets |->
               IF k # "socket" /\ w \in dropped THEN 0 ELSE tok[k][w]]]
  /\ cleaner' = [q \in Payloads |-> IF q = p THEN "done"
                   ELSE IF Orphaned(q, global, tok') THEN "pending" ELSE cleaner[q]]
  /\ UNCHANGED <<global, weak, payloads, initialized, cleanups, overlap, joining, wk, job, procVars, apiVars>>

WorkerStarts(k) ==
  /\ wk[k] = "spawned" /\ wk' = [wk EXCEPT ![k] = "run"]
  /\ UNCHANGED <<initVars, tok, cleaner, cleanups, overlap, tasks, joining, job, procVars, apiVars>>

Due == {i \in DOMAIN tasks : tasks[i].due}
Without(i) == SubSeq(tasks, 1, i - 1) \o SubSeq(tasks, i + 1, Len(tasks))

\* dequeue() and task()
Dequeue(k) ==
  /\ wk[k] \in {"run", "wait"} /\ ~joining
  /\ \E i \in Due : tasks' = Without(i) /\ job' = [job EXCEPT ![k] = tasks[i]]
  /\ wk' = [wk EXCEPT ![k] = "task"]
  /\ UNCHANGED <<initVars, tok, cleaner, cleanups, overlap, joining, procVars, apiVars>>

Wait(k) ==
  /\ wk[k] = "run" /\ ~joining /\ Due = {}
  /\ wk' = [wk EXCEPT ![k] = "wait"]
  /\ UNCHANGED <<initVars, tok, cleaner, cleanups, overlap, tasks, joining, job, procVars, apiVars>>

\* Mutant: a waiting worker does not look at mJoining.
WorkerExits_NotWoken(k) ==
  /\ wk[k] = "run" /\ joining
  /\ wk' = [wk EXCEPT ![k] = "off"]
  /\ UNCHANGED <<initVars, tok, cleaner, cleanups, overlap, tasks, joining, job, procVars, apiVars>>

WorkerExits(k) ==
  /\ wk[k] \in {"run", "wait"} /\ joining
  /\ wk' = [wk EXCEPT ![k] = "off"]
  /\ UNCHANGED <<initVars, tok, cleaner, cleanups, overlap, tasks, joining, job, procVars, apiVars>>

TimerDue(i) ==
  /\ ~tasks[i].due /\ tasks' = [tasks EXCEPT ![i].due = TRUE]
  /\ UNCHANGED <<initVars, tok, cleaner, cleanups, overlap, joining, wk, job, procVars, apiVars>>

-----------------------------------------------------------------------------
(* TearDownProcessor                                                       *)

\* Mutant: mPending is not set.
Enqueue_NotPending(w) ==
  /\ asked' = Append(asked, w)
  /\ IF pending THEN waiting' = Append(waiting, w) /\ UNCHANGED <<tasks, pending>>
     ELSE tasks' = Append(tasks, Teardown(w)) /\ UNCHANGED <<pending, waiting>>

\* Processor::enqueue(): one task is in the pool at a time, the others wait.
Enqueue(w) ==
  /\ asked' = Append(asked, w)
  /\ IF pending THEN waiting' = Append(waiting, w) /\ UNCHANGED <<tasks, pending>>
     ELSE tasks' = Append(tasks, Teardown(w)) /\ pending' = TRUE /\ UNCHANGED waiting

\* The task stops the transports and lets them go ...
TeardownRuns(k) ==
  /\ wk[k] = "task" /\ job[k].kind = "teardown" /\ wk' = [wk EXCEPT ![k] = "chain"]
  /\ tok' = [tok EXCEPT !["transports"][job[k].of] = 0] /\ PayloadsDie(global, tok')
  /\ done' = Append(done, job[k].of)
  /\ UNCHANGED <<initVars, cleanups, overlap, tasks, joining, job, pending, waiting, asked, apiVars>>

\* Mutant: the next task is not chained.
TeardownChains_None(k) ==
  /\ wk[k] = "chain" /\ wk' = [wk EXCEPT ![k] = "end"] /\ pending' = FALSE
  /\ UNCHANGED <<initVars, tok, cleaner, cleanups, overlap, tasks, joining, job, asked, done, waiting, apiVars>>

\* ... schedule() gives the pool the next one ...
TeardownChains(k) ==
  /\ wk[k] = "chain" /\ wk' = [wk EXCEPT ![k] = "end"]
  /\ IF waiting = <<>> THEN pending' = FALSE /\ UNCHANGED <<tasks, waiting>>
     ELSE /\ tasks' = Append(tasks, Teardown(Head(waiting))) /\ waiting' = Tail(waiting)
          /\ UNCHANGED pending
  /\ UNCHANGED <<initVars, tok, cleaner, cleanups, overlap, joining, job, asked, done, apiVars>>

\* ... and with the task goes its token.
TeardownEnds(k) ==
  /\ wk[k] = "end" /\ job[k].kind = "teardown"
  /\ tok' = [tok EXCEPT !["task"][job[k].of] = 0] /\ PayloadsDie(global, tok')
  /\ wk' = [wk EXCEPT ![k] = "run"] /\ job' = [job EXCEPT ![k] = NoTask]
  /\ UNCHANGED <<initVars, cleanups, overlap, tasks, joining, procVars, apiVars>>

-----------------------------------------------------------------------------
(* WebSockets, and the C API                                               *)

Create(w) ==   \* the constructor of impl::WebSocket
  /\ ws[w] = "none" /\ TakeToken("socket", w) /\ ws' = [ws EXCEPT ![w] = "made"]
  /\ UNCHANGED <<cleaner, cleanups, overlap, tasks, joining, job, procVars, mapped, capi>>

\* open() makes a transport and schedules the connection timeout, which has no
\* token ...
Open(w) ==
  /\ ws[w] = "made"
  /\ TakeToken("transports", w) /\ tasks' = tasks \o (IF w \in Timed THEN <<Timer(w)>> ELSE <<>>)
  /\ ws' = [ws EXCEPT ![w] = "open"]
  /\ UNCHANGED <<cleaner, cleanups, overlap, joining, job, procVars, mapped, capi>>

\* ... and emplaceWebSocket() gives it a handle, with `mutex`.
Emplace(w) ==
  /\ capi \in {"free", "erased"} /\ ws[w] \in {"open", "closed"} /\ w \notin mapped
  /\ mapped' = mapped \cup {w}
  /\ UNCHANGED <<initVars, tok, cleaner, cleanups, overlap, poolVars, procVars, ws, capi>>

\* closeTransports(): the transports go to a task, with a token.
CloseTransports(w) ==
  /\ ws[w] = "open" /\ ws' = [ws EXCEPT ![w] = "closed"]
  /\ TakeToken("task", w) /\ Enqueue(w)

\* forceClose(), or an event of a transport.
Close(w) ==
  /\ CloseTransports(w)
  /\ UNCHANGED <<cleaner, cleanups, overlap, joining, job, done, mapped, capi>>

\* The connection timeout runs: lock() finds a WebSocket that is still connecting ...
TimerFires(k) ==
  /\ wk[k] = "task" /\ job[k].kind = "timer" /\ ws[job[k].of] = "open"
  /\ wk' = [wk EXCEPT ![k] = "late"]
  /\ UNCHANGED <<initVars, tok, cleaner, cleanups, overlap, tasks, joining, job, procVars, apiVars>>

\* ... and closes it, unless somebody else has done it meanwhile.
TimerRuns(k) ==
  /\ wk[k] = "late" /\ job[k].kind = "timer" /\ CloseTransports(job[k].of)
  /\ UNCHANGED <<cleaner, cleanups, overlap, joining, job, done, mapped, capi>>

TimerEnds(k) ==
  /\ wk[k] \in {"task", "late"} /\ job[k].kind = "timer"
  /\ wk[k] = "late" => ws[job[k].of] # "open"
  /\ wk' = [wk EXCEPT ![k] = "run"] /\ job' = [job EXCEPT ![k] = NoTask]
  /\ UNCHANGED <<initVars, tok, cleaner, cleanups, overlap, tasks, joining, procVars, apiVars>>

\* A handle goes, and with it a closed WebSocket and its token.
Destroy(w) ==
  /\ w \in mapped /\ mapped' = mapped \ {w}
  /\ ws[w] = "closed" /\ ws' = [ws EXCEPT ![w] = "gone"]
  /\ tok' = [tok EXCEPT !["socket"][w] = 0] /\ PayloadsDie(global, tok')

\* wscDeleteWebSocket(), wscDelete(): the WebSocket is closed before it is erased,
\* or after that by its destructor.
Delete(w) ==
  /\ capi \in {"free", "erased"} /\ Destroy(w)
  /\ UNCHANGED <<initVars, cleanups, overlap, poolVars, procVars, capi>>

\* wscCleanup(): eraseAll() has `mutex` while the destructors run.
EraseAll ==
  /\ capi = "free" /\ cleanups < MaxCleanups /\ capi' = "erasing"
  /\ UNCHANGED <<initVars, tok, cleaner, cleanups, overlap, poolVars, procVars, ws, mapped>>

EraseOne(w) ==
  /\ capi = "erasing" /\ Destroy(w)
  /\ UNCHANGED <<initVars, cleanups, overlap, poolVars, procVars, capi>>

\* The closed callback of a WebSocket that eraseAll() destroys looks for the user
\* pointer: getUserPointer() locks `mutex` again.
EraseLocks(w) ==
  /\ capi = "erasing" /\ w \in mapped \cap Watched /\ ws[w] = "open" /\ capi' = "stuck"
  /\ UNCHANGED <<initVars, tok, cleaner, cleanups, overlap, poolVars, procVars, ws, mapped>>

EraseCloses(w) ==
  /\ capi = "erasing" /\ w \in mapped \ Watched /\ CloseTransports(w)
  /\ UNCHANGED <<cleaner, cleanups, overlap, joining, job, done, mapped, capi>>

Erased ==
  /\ capi = "erasing" /\ mapped = {} /\ capi' = "erased"
  /\ UNCHANGED <<initVars, tok, cleaner, cleanups, overlap, poolVars, procVars, ws, mapped>>

-----------------------------------------------------------------------------
Init ==
  /\ global = 0 /\ weak = 0 /\ payloads = 0 /\ initialized = FALSE /\ polling = FALSE
  /\ tok = [k \in Owners |-> [w \in Sockets |-> 0]]
  /\ cleaner = [p \in Payloads |-> "none"] /\ cleanups = 0 /\ overlap = FALSE
  /\ tasks = <<>> /\ joining = FALSE
  /\ wk = [k \in Workers |-> "off"] /\ job = [k \in Workers |-> NoTask]
  /\ pending = FALSE /\ waiting = <<>> /\ asked = <<>> /\ done = <<>>
  /\ ws = [w \in Sockets |-> "none"] /\ mapped = {} /\ capi = "free"

Worker(k) ==
  \/ WorkerStarts(k) \/ Dequeue(k) \/ Wait(k) \/ WorkerExits(k)
  \/ TeardownRuns(k) \/ TeardownChains(k) \/ TeardownEnds(k) \/ TimerFires(k) \/ TimerRuns(k) \/ TimerEnds(k)

Cleaner(p) ==
  CleanerReturns(p) \/ CleanerBegins(p) \/ CleanerJoins(p) \/ CleanerJoined(p) \/ CleanerClears(p)

Erasing == Erased \/ \E w \in Sockets : EraseOne(w) \/ EraseLocks(w) \/ EraseCloses(w)

Next ==
  \/ Preload \/ Cleanup \/ EraseAll \/ Erasing
  \/ \E p \in Payloads : Cleaner(p)
  \/ \E k \in Workers : Worker(k)
  \/ \E i \in DOMAIN tasks : TimerDue(i)
  \/ \E w \in Sockets : Create(w) \/ Open(w) \/ Emplace(w) \/ Close(w) \/ Delete(w)

Spec == Init /\ [][Next]_vars

\* Threads are scheduled: the workers, and the cleanup threads.
FairSpec ==
  /\ Spec /\ \A k \in Workers : WF_vars(Worker(k))
  /\ \A p \in Payloads : SF_vars(Cleaner(p))

-----------------------------------------------------------------------------
(* Properties                                                              *)

Queued  == {i \in DOMAIN tasks : tasks[i].kind = "teardown"}
Running == {k \in Workers : job[k].kind = "teardown" /\ wk[k] # "end"}

\* Teardowns run one at a time and in the order in which closeTransports() asked
\* for them, and mPending is true when and only when one is in the pool: a task
\* that clear() dropped would leave it true, and nothing would be torn down any
\* more.  That is so unless cleanup() is called again before the cleanup of an
\* earlier payload is done (its future is not ready); see PendingIffInPool.
TeardownInOrder ==
  ~overlap =>
    /\ Cardinality(Queued) + Cardinality(Running) = IF pending THEN 1 ELSE 0
    /\ done = SubSeq(asked, 1, Len(done))

\* Whoever holds a token finds the library initialised: the pool is not joining,
\* the PollService is there, and no cleanup thread is at work; unless cleanup()
\* is called again before the cleanup of an earlier payload is done.
TokenKeepsInitialized ==
  (~overlap /\ \E p \in Payloads : Held(p)) =>
    initialized /\ polling /\ ~joining /\ InitLockFree

\* What closeTransports() handed over is torn down, with the same condition.
TeardownHappens == []<>(overlap \/ done = asked)

\* Every cleanup thread comes to its end: join() does not wait for a worker that
\* waits for it, and the future of Cleanup() gets ready.  With two cleanups at
\* once it may: join() has mMutex, and the timer waits for it in token().
CleanupEnds == []<>(overlap \/ \A p \in Payloads : cleaner[p] \in {"none", "done"})

\* The comment of mPending: "true iff a task is pending in the thread pool".  Not
\* so: doCleanup() looks only for mGlobal, so the thread of an earlier payload
\* that comes late, after another token() and another cleanup(), clears the pool
\* of a library that is in use.
PendingIffInPool == pending <=> Queued \cup Running # {}

\* wscCleanup() erases the objects that "were not properly destroyed before
\* cleanup", and does not wait for itself.  It does: the destructor of an open
\* WebSocket, under `mutex`, calls the closed callback, which locks it again.
EraseAllReturns == capi # "stuck"

=============================================================================
