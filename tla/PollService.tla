---------------------------- MODULE PollService ----------------------------
(***************************************************************************)
(* PollService and PollInterrupter (src/impl/pollservice.cpp,              *)
(* pollinterrupter.cpp): threads register sockets with a direction and a   *)
(* timeout; the poll thread copies the registrations, sleeps in poll()     *)
(* without the mutex, and runs the callbacks with it.  A byte in a pipe    *)
(* wakes the poll thread when the registrations change.                    *)
(*                                                                         *)
(* Sockets become and cease to be ready at any time.  Time is the          *)
(* expiration of a registration with a timeout.  A callback may register   *)
(* its socket again or remove it (TcpTransport::process, attempt), as the  *)
(* mutex is recursive, and it may throw.                                   *)
(***************************************************************************)
EXTENDS Sequences

CONSTANTS
  Socks,   \* socket descriptors
  NoSock   \* no callback is running

ASSUME NoSockAssumption == NoSock \notin Socks

Directions == {"Both", "In", "Out"}
Untils     == {"none", "pending", "past"}   \* SocketEntry::until
Entries    == [dir : Directions, timed : BOOLEAN, until : Untils]
NoEntry    == [dir |-> "none", timed |-> FALSE, until |-> "none"]
Kinds      == {"in", "out", "hup", "err"}   \* POLLIN, POLLOUT, POLLHUP, POLLERR or POLLNVAL
Events     == {"Error", "Timeout", "In", "Out"}

VARIABLES
  socks,    \* mSocks
  pipe,     \* is a byte in the pipe of the interrupter
  stopped,  \* mStopped
  pc,       \* the poll thread: where it is in runLoop()
  pfds,     \* the directions prepare() asked poll() for
  timedPoll,\* does poll() have a timeout (next)
  revents,  \* per socket: what poll() reported
  pipeSeen, \* did poll() report the pipe
  running,  \* the socket whose callback runs
  calls,    \* the events it still runs for, the current one first
  ready,    \* per socket: what poll() would report
  gone,     \* sockets that remove() of another thread took out
  joiner    \* the thread in join()

pollVars == <<pc, pfds, timedPoll, revents, pipeSeen, running, calls>>
vars     == <<socks, pipe, stopped, pollVars, ready, gone, joiner>>

Nothing == [s \in Socks |-> {}]

\* Mutant: Direction::Both asks for input only.
Wants_BothIsIn(dir) == CASE dir \in {"In", "Both"} -> {"in"}
                         [] dir = "Out"           -> {"out"}
                         [] OTHER                 -> {}

\* The events prepare() asks for.
Wants(dir) == CASE dir = "In"   -> {"in"}
                [] dir = "Out"  -> {"out"}
                [] dir = "Both" -> {"in", "out"}
                [] OTHER        -> {}

\* Mutant: the mutex is released while a callback runs.
LockFree_InCallback == pc # "process" \/ running # NoSock

\* mMutex: the poll thread has it while it is in process().
LockFree == pc # "process"

-----------------------------------------------------------------------------
(* start(), join(), add(), remove()                                        *)

Start ==
  /\ pc = "none" /\ joiner = "idle"
  /\ socks' = [s \in Socks |-> NoEntry] /\ pipe' = FALSE /\ stopped' = FALSE
  /\ pc' = "test"
  /\ UNCHANGED <<pfds, timedPoll, revents, pipeSeen, running, calls, ready, gone, joiner>>

JoinStop ==
  /\ pc # "none" /\ joiner = "idle" /\ LockFree
  /\ stopped' = TRUE /\ joiner' = "interrupt"
  /\ UNCHANGED <<socks, pipe, pollVars, ready, gone>>

\* Mutant: join() does not wake the poll thread.
JoinInterrupt_None ==
  /\ joiner = "interrupt"
  /\ joiner' = "join"
  /\ UNCHANGED <<socks, pipe, stopped, pollVars, ready, gone>>

JoinInterrupt ==
  /\ joiner = "interrupt"
  /\ pipe' = TRUE /\ joiner' = "join"
  /\ UNCHANGED <<socks, stopped, pollVars, ready, gone>>

JoinThread ==   \* mThread.join(); mSocks.reset(); mInterrupter.reset()
  /\ joiner = "join" /\ pc = "done"
  /\ joiner' = "idle" /\ pc' = "none" /\ pipe' = FALSE
  /\ socks' = [s \in Socks |-> NoEntry]
  /\ UNCHANGED <<stopped, pfds, timedPoll, revents, pipeSeen, running, calls, ready, gone>>

Entry(dir, timed) ==
  [dir |-> dir, timed |-> timed, until |-> IF timed THEN "pending" ELSE "none"]

\* Mutant: the poll thread is not woken.
Insert_NoInterrupt(s, e) == socks' = [socks EXCEPT ![s] = e] /\ UNCHANGED pipe

\* mSocks->insert_or_assign(...) or erase(...), and interrupt().
Insert(s, e) == socks' = [socks EXCEPT ![s] = e] /\ pipe' = TRUE

\* add() by another thread; clients have their token, so join() is not running.
Add(s, dir, timed) ==
  /\ pc # "none" /\ joiner = "idle" /\ LockFree
  /\ Insert(s, Entry(dir, timed))
  /\ gone' = gone \ {s}
  /\ UNCHANGED <<stopped, pollVars, ready, joiner>>

Remove(s) ==
  /\ pc # "none" /\ joiner = "idle" /\ LockFree
  /\ Insert(s, NoEntry)
  /\ gone' = gone \cup {s}
  /\ UNCHANGED <<stopped, pollVars, ready, joiner>>

-----------------------------------------------------------------------------
(* runLoop(): prepare(), poll(), process()                                 *)

\* while (!mStopped), read without the mutex.
LoopTest ==
  /\ pc = "test" /\ pc' = IF stopped THEN "done" ELSE "prepare"
  /\ UNCHANGED <<socks, pipe, stopped, pfds, timedPoll, revents, pipeSeen, running, calls, ready, gone, joiner>>

\* Mutant: the registrations' timeouts are left out of `next`.
Prepare_NoNext ==
  /\ pc = "prepare" /\ pc' = "poll"
  /\ pfds' = [s \in Socks |-> socks[s].dir] /\ timedPoll' = FALSE
  /\ UNCHANGED <<socks, pipe, stopped, revents, pipeSeen, running, calls, ready, gone, joiner>>

Prepare ==
  /\ pc = "prepare" /\ pc' = "poll"
  /\ pfds' = [s \in Socks |-> socks[s].dir]
  /\ timedPoll' = \E s \in Socks : socks[s].until # "none"
  /\ UNCHANGED <<socks, pipe, stopped, revents, pipeSeen, running, calls, ready, gone, joiner>>

\* poll() returns: the pipe, a socket, or the timeout; never for nothing.
PollReturn ==
  LET seen == [s \in Socks |-> IF pfds[s] = "none" THEN {}
                               ELSE ready[s] \cap (Wants(pfds[s]) \cup {"hup", "err"})] IN
  /\ pc = "poll"
  /\ \/ pipe \/ seen # Nothing
     \/ timedPoll /\ \E s \in Socks : pfds[s] # "none" /\ socks[s].until = "past"
  /\ pc' = "polled" /\ revents' = seen /\ pipeSeen' = pipe
  /\ UNCHANGED <<socks, pipe, stopped, pfds, timedPoll, running, calls, ready, gone, joiner>>

\* poll() fails: the exception leaves the loop.
PollFail ==
  /\ pc = "poll" /\ pc' = "done" /\ pfds' = [s \in Socks |-> "none"]
  /\ UNCHANGED <<socks, pipe, stopped, timedPoll, revents, pipeSeen, running, calls, ready, gone, joiner>>

\* process() has the mutex; mInterrupter->process() empties the pipe.
ProcessBegin ==
  /\ pc = "polled" /\ pc' = "process"
  /\ pipe' = (pipe /\ ~pipeSeen) /\ pipeSeen' = FALSE
  /\ UNCHANGED <<socks, stopped, pfds, timedPoll, revents, running, calls, ready, gone, joiner>>

\* A socket of pfds, if it is still, or again, registered: an error or a timeout
\* ends the registration, an event renews its timeout; then the callback.
ProcessSock(s) ==
  LET e       == socks[s]
      r       == revents[s]
      isError == "err" \in r \/ ("hup" \in r /\ pfds[s] = "Out")
      call(evs) == running' = s /\ calls' = evs
  IN
  /\ pc = "process" /\ running = NoSock /\ pfds[s] # "none"
  /\ pfds' = [pfds EXCEPT ![s] = "none"]
  /\ \/ /\ e.dir = "none" \/ (r = {} /\ e.until # "past")
        /\ UNCHANGED <<socks, running, calls>>
     \/ /\ e.dir # "none" /\ isError
        /\ socks' = [socks EXCEPT ![s] = NoEntry] /\ call(<<"Error">>)
     \/ /\ e.dir # "none" /\ ~isError /\ r # {}
        /\ socks' = [socks EXCEPT ![s] = Entry(e.dir, e.timed)]
        /\ call((IF r \cap {"in", "hup"} # {} THEN <<"In">> ELSE <<>>)
                \o (IF "out" \in r THEN <<"Out">> ELSE <<>>))
     \/ /\ e.dir # "none" /\ r = {} /\ e.until = "past"
        /\ socks' = [socks EXCEPT ![s] = NoEntry] /\ call(<<"Timeout">>)
  /\ UNCHANGED <<pipe, stopped, pc, timedPoll, revents, pipeSeen, ready, gone, joiner>>

\* The callback registers its socket again (setPoll) or removes it.
CallbackAdd(dir, timed) ==
  /\ running # NoSock
  /\ Insert(running, Entry(dir, timed))
  /\ UNCHANGED <<stopped, pollVars, ready, gone, joiner>>

CallbackRemove ==
  /\ running # NoSock
  /\ Insert(running, NoEntry)
  /\ UNCHANGED <<stopped, pollVars, ready, gone, joiner>>

\* The callback returns; after In comes Out, whatever In has done.
CallbackEnd ==
  /\ running # NoSock
  /\ calls' = Tail(calls) /\ running' = IF Len(calls) = 1 THEN NoSock ELSE running
  /\ UNCHANGED <<socks, pipe, stopped, pc, pfds, timedPoll, revents, pipeSeen, ready, gone, joiner>>

\* The callback throws: the handler ends the registration.
CallbackThrow ==
  /\ running # NoSock
  /\ socks' = [socks EXCEPT ![running] = NoEntry]
  /\ calls' = <<>> /\ running' = NoSock
  /\ UNCHANGED <<pipe, stopped, pc, pfds, timedPoll, revents, pipeSeen, ready, gone, joiner>>

ProcessEnd ==
  /\ pc = "process" /\ running = NoSock
  /\ \A s \in Socks : pfds[s] = "none"
  /\ pc' = "test" /\ revents' = Nothing
  /\ UNCHANGED <<socks, pipe, stopped, pfds, timedPoll, pipeSeen, running, calls, ready, gone, joiner>>

-----------------------------------------------------------------------------
(* The sockets and the clock                                               *)

SetReady(s, ks) ==
  /\ ks # ready[s] /\ ready' = [ready EXCEPT ![s] = ks]
  /\ UNCHANGED <<socks, pipe, stopped, pollVars, gone, joiner>>

Expire(s) ==
  /\ socks[s].until = "pending"
  /\ socks' = [socks EXCEPT ![s].until = "past"]
  /\ UNCHANGED <<pipe, stopped, pollVars, ready, gone, joiner>>

-----------------------------------------------------------------------------
Init ==
  /\ socks = [s \in Socks |-> NoEntry] /\ pipe = FALSE /\ stopped = TRUE
  /\ pc = "none" /\ pfds = [s \in Socks |-> "none"] /\ timedPoll = FALSE
  /\ revents = Nothing /\ pipeSeen = FALSE /\ running = NoSock /\ calls = <<>>
  /\ ready = Nothing /\ gone = {} /\ joiner = "idle"

PollThread ==
  \/ LoopTest \/ Prepare \/ PollReturn \/ ProcessBegin \/ CallbackEnd \/ ProcessEnd
  \/ \E s \in Socks : ProcessSock(s)

Next ==
  \/ PollThread
  \/ Start \/ JoinStop \/ JoinInterrupt \/ JoinThread \/ PollFail
  \/ CallbackRemove \/ CallbackThrow
  \/ \E dir \in Directions, timed \in BOOLEAN :
       CallbackAdd(dir, timed) \/ \E s \in Socks : Add(s, dir, timed)
  \/ \E s \in Socks :
       Remove(s) \/ Expire(s) \/ \E ks \in SUBSET Kinds : SetReady(s, ks)

Spec == Init /\ [][Next]_vars

\* The poll thread is scheduled, callbacks return, and join() goes on.
FairSpec == Spec /\ WF_vars(PollThread) /\ WF_vars(JoinInterrupt) /\ WF_vars(JoinThread)

-----------------------------------------------------------------------------
(* Properties                                                              *)

\* The variables have the types of the members and locals they stand for, and
\* callbacks run in process() only, for the events poll() reported.
TypeOK ==
  /\ socks \in [Socks -> Entries \cup {NoEntry}] /\ pipe \in BOOLEAN /\ stopped \in BOOLEAN
  /\ pc \in {"none", "test", "prepare", "poll", "polled", "process", "done"}
  /\ pfds \in [Socks -> Directions \cup {"none"}] /\ timedPoll \in BOOLEAN
  /\ revents \in [Socks -> SUBSET Kinds] /\ pipeSeen \in BOOLEAN
  /\ running \in Socks \cup {NoSock} /\ calls \in Seq(Events)
  /\ running # NoSock => pc = "process" /\ calls # <<>>
  /\ ready \in [Socks -> SUBSET Kinds]
  /\ gone \subseteq Socks /\ joiner \in {"idle", "interrupt", "join"}

\* The poll thread never sleeps on outdated registrations: if the pipe is empty
\* while it is in poll(), it waits for what is registered now, timeouts
\* included, and join() has not passed its interrupt().
NoLostWakeup ==
  (pc = "poll" /\ ~pipe) =>
    /\ \A s \in Socks : pfds[s] = socks[s].dir
    /\ (\E s \in Socks : socks[s].until # "none") => timedPoll
    /\ stopped => joiner = "interrupt"

\* When remove() has returned to another thread, no callback of the socket runs
\* any more until it is added again: ~TcpTransport relies on it when it closes
\* the socket and goes away.
RemovedIsSilent == running \notin gone

\* The poll thread is there and join() has not asked it to stop.
Serving == ~stopped /\ pc # "done"

\* A registered socket that stays readable, or writable, while its direction asks
\* for that has its callback run again and again, whatever is registered and
\* removed meanwhile.
ReadyIsServed ==
  \A s \in Socks :
    /\ []<>(running = s \/ ~Serving \/ "in" \notin ready[s] \/ socks[s].dir \notin {"In", "Both"})
    /\ []<>(running = s \/ ~Serving \/ "out" \notin ready[s] \/ socks[s].dir \notin {"Out", "Both"})

\* A registration whose timeout has passed does not stay: its callback runs, or
\* an event or another add() renews it.
TimeoutIsServed ==
  \A s \in Socks : []<>(running = s \/ ~Serving \/ socks[s].until # "past")

\* join() returns.
JoinEnds == joiner # "idle" ~> joiner = "idle"

=============================================================================
