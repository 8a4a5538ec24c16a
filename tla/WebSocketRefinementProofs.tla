--------------------- MODULE WebSocketRefinementProofs ---------------------
(***************************************************************************)
(* impl::WebSocket implements WebSocketLife, for any threads and any       *)
(* number of opens: each step of WebSocketImpl is a step of WebSocketLife  *)
(* or leaves the transports and their owners alone.                        *)
(***************************************************************************)
EXTENDS WebSocketRefinement, WebSocketImplProofs, SequenceTheorems

\* In frame f, closeTransports() has exchanged the pointer of layer l.
Taking(f, l) ==
  \/ f.pc \in {"detachRecv", "detachState", "enqueue"}
  \/ /\ f.pc = "exchange"
     /\ \/ l = "ws" /\ f.l \in {"tls", "tcp"}
        \/ l = "tls" /\ f.l = "tcp"

\* The locals of closeTransports() are empty outside of it, and before the
\* exchange of their layer: what Exchange overwrites is null.
HoldsWhileClosing ==
  \A t \in Threads, l \in Closable : got[t][l] # 0 => Taking(top[t], l)

TakingPCs == {"exchange", "detachRecv", "detachState", "enqueue"}

\* A step that leaves the owners alone, and does not construct or store.
Quiet(t) ==
  /\ UNCHANGED <<mem, got, teardown, made>>
  /\ top[t].pc # "empStore"
  /\ top[t].pc \in TakingPCs => top'[t].pc \in {"detachState", "enqueue"}
  /\ \A u \in Threads : top'[u].pc = "empStore" => top'[u] = top[u]

\* A step that constructs a transport of layer k, which is about to be stored.
Constructs(t, k) ==
  /\ UNCHANGED <<mem, got, teardown>>
  /\ made[k] < MaxOpens /\ made' = [made EXCEPT ![k] = made[k] + 1]
  /\ top[t].pc \notin TakingPCs \cup {"empStore"}
  /\ top' = [top EXCEPT ![t] = FrT("empStore", k, made[k] + 1)]

Owning(t) ==
  EmplaceStore(t) \/ EmplaceUndo(t) \/ Exchange(t) \/ EnqueueTearDown(t) \/ TearDownEnd(t)

-----------------------------------------------------------------------------
(* The steps, by what they do to owners                                    *)

\* Only five actions change who owns a transport.
LEMMA StepKinds ==
  ASSUME TypeOK, NEW t \in Threads, Step(t) \/ Event(t) \/ AppCall(t)
  PROVE  \/ Quiet(t)
         \/ \E k \in Layers : Constructs(t, k)
         \/ Owning(t)
<1>a. ControlOK /\ Moves(t)
  BY ThreadMoves, TypeParts
<1>b. ASSUME Calm(t), UNCHANGED <<mem, got, teardown, made>>, top[t].pc \notin TakingPCs \cup {"empStore"}
      PROVE  Quiet(t)
  BY <1>a, <1>b, CalmTop DEF Quiet, Tracked
<1> USE DEF wsVars, trVars, taskVars
<1>1. CASE SetTcpTransport(t)
  <2>0. top[t].pc \notin TakingPCs \cup {"empStore"}
    BY <1>1 DEF SetTcpTransport, At, TakingPCs
  <2>1. CASE RemoteClose(t, <<>>) /\ UNCHANGED trVars
    <3>1. Calm(t) /\ UNCHANGED <<mem, got, teardown, made>>
      BY <1>1, <2>1, RemoteCloseCalm, PushedSeqs DEF SetTcpTransport
    <3> QED
      BY <3>1, <2>0, <1>b
  <2>2. CASE /\ Construct("tcp", NoPtrs) /\ made["tcp"] < MaxOpens
             /\ Goto(t, FrT("empStore", "tcp", made["tcp"] + 1), <<>>)
    <3>1. Constructs(t, "tcp")
      BY <1>1, <2>0, <2>2 DEF SetTcpTransport, Construct, Goto, Constructs
    <3> QED
      BY <3>1 DEF Layers
  <2> QED
    BY <1>1, <2>1, <2>2 DEF SetTcpTransport
<1>2. CASE InitTransport2(t)
  <2> DEFINE k == top[t].l
             below == [base[Lower(k)][mem[Lower(k)]] EXCEPT ![Lower(k)] = mem[Lower(k)]]
  <2>0. top[t].pc \notin TakingPCs \cup {"empStore"} /\ k \in Layers
    BY <1>2, <1>a, TopType DEF InitTransport2, At, TakingPCs
  <2>1. CASE RemoteClose(t, <<>>) /\ UNCHANGED trVars
    <3>1. Calm(t) /\ UNCHANGED <<mem, got, teardown, made>>
      BY <1>2, <2>1, RemoteCloseCalm, PushedSeqs DEF InitTransport2
    <3> QED
      BY <3>1, <2>0, <1>b
  <2>2. CASE /\ Construct(k, below) /\ made[k] < MaxOpens
             /\ Goto(t, FrT("empStore", k, made[k] + 1), <<>>)
    <3> HIDE DEF below
    <3>1. Constructs(t, k)
      BY <1>2, <2>0, <2>2 DEF InitTransport2, Construct, Goto, Constructs
    <3> QED
      BY <3>1, <2>0
  <2> QED
    BY <1>2, <2>1, <2>2 DEF InitTransport2
<1>3. CASE DetachRecv(t) \/ DetachState(t)
  <2>1. UNCHANGED <<mem, got, teardown, made>> /\ top[t].pc # "empStore"
    BY <1>3 DEF DetachRecv, DetachState, At
  <2>2. /\ \A u \in Threads : top'[u].pc = "empStore" => top'[u] = top[u]
        /\ top'[t].pc \in {"detachState", "enqueue"}
    BY <1>3, <1>a DEF DetachRecv, DetachState, Goto, ControlOK, Fr, FrT, FrS
  <2> QED
    BY <2>1, <2>2 DEF Quiet
<1>4. CASE Calm(t) /\ ~Owning(t)
  <2>2. CASE \/ Open1(t) \/ Open2(t) \/ InitTransport1(t) \/ EmplaceStart(t) \/ EmplaceCheck(t)
             \/ Close1(t) \/ Close2(t) \/ Close3(t) \/ RemoteClose2(t) \/ CloseTransports(t)
             \/ ChangeState(t) \/ StateCallback(t) \/ IfConnecting(t) \/ WsOpen1(t) \/ WsOpen2(t)
             \/ Broken(t) \/ RecvNull(t) \/ Stop(t) \/ WsClose1(t) \/ WsClose2(t) \/ Drop(t)
             \/ UserReturn(t) \/ TearDownReset(t) \/ AppCall(t)
    <3>1. UNCHANGED <<mem, got, teardown, made>>
      BY <2>2, ZenonT(40) DEF Open1, Open2, InitTransport1, EmplaceStart, EmplaceCheck, Close1, Close2, Close3,
         RemoteClose2, CloseTransports, ChangeState, StateCallback, IfConnecting, WsOpen1, WsOpen2,
         Broken, RecvNull, Stop, WsClose1, WsClose2, Drop, UserReturn, TearDownReset, AppCall, Test,
         data, wsVars
    <3>2. top[t].pc \notin TakingPCs \cup {"empStore"}
      BY <2>2, ZenonT(40) DEF Open1, Open2, InitTransport1, EmplaceStart, EmplaceCheck, Close1, Close2, Close3,
         RemoteClose2, CloseTransports, ChangeState, StateCallback, IfConnecting, WsOpen1, WsOpen2,
         Broken, RecvNull, Stop, WsClose1, WsClose2, Drop, UserReturn, TearDownReset, AppCall, Test,
         At, TakingPCs
    <3> QED
      BY <3>1, <3>2, <1>4, <1>b, ZenonT(40)
  <2>3. CASE Event(t)
    <3>1. UNCHANGED <<mem, got, teardown, made>> /\ top[t].pc \notin TakingPCs \cup {"empStore"}
      BY <2>3 DEF Event, TcpConnect, TcpLost, CloseTimeout, Incoming, ConnectionTimeout, TearDown, data,
         At, TakingPCs
    <3> QED
      BY <3>1, <1>4, <1>b
  <2> QED
    BY <1>1, <1>2, <1>3, <1>4, <2>2, <2>3 DEF Step, Owning
<1> QED
  BY <1>1, <1>2, <1>3, <1>4, ThreadMoves

-----------------------------------------------------------------------------
(* The locals of closeTransports()                                         *)

\* A step moves only its own thread.
LEMMA OthersStay ==
  ASSUME ControlOK, NEW t \in Threads, Moves(t), NEW u \in Threads \ {t}
  PROVE  top'[u] = top[u]
BY GotoControl, ReturnControl DEF Moves

LEMMA HoldsStep ==
  ASSUME TypeOK, HoldsWhileClosing, NEW t \in Threads, Step(t) \/ Event(t) \/ AppCall(t)
  PROVE  HoldsWhileClosing'
<1>a. ControlOK /\ Moves(t)
  BY ThreadMoves, TypeParts
<1>b. \A u \in Threads \ {t} : top'[u] = top[u]
  BY <1>a, OthersStay
<1>c. /\ got \in [Threads -> [Layers -> Ptr]] /\ top \in [Threads -> TopFrame]
      /\ \A l \in Closable : l \in Layers
  BY DEF TypeOK, Closable, Layers
<1>d. ASSUME got' = got, top[t].pc \notin TakingPCs
      PROVE  HoldsWhileClosing'
  BY <1>b, <1>d DEF HoldsWhileClosing, Taking, TakingPCs
<1>1. CASE Quiet(t)
  BY <1>1, <1>b, <1>d DEF HoldsWhileClosing, Taking, Quiet
<1>2. ASSUME NEW k \in Layers, Constructs(t, k)
      PROVE  HoldsWhileClosing'
  BY <1>2, <1>d, ZenonT(40) DEF Constructs
<1>3. CASE EmplaceStore(t) \/ EmplaceUndo(t) \/ TearDownEnd(t)
  BY <1>3, <1>d, ZenonT(40) DEF EmplaceStore, EmplaceUndo, TearDownEnd, At, TakingPCs
<1>4. CASE Exchange(t)
  <2> DEFINE k == top[t].l
  <2>1. /\ got' = [got EXCEPT ![t][k] = mem[k]] /\ top[t].pc = "exchange"
        /\ top' = [top EXCEPT ![t] = IF k = "tcp" THEN Fr("detachRecv") ELSE FrT("exchange", After(k), 0)]
    BY <1>4 DEF Exchange, Goto, At
  <2>2. ASSUME NEW u \in Threads, NEW l \in Closable, got'[u][l] # 0
        PROVE  Taking(top'[u], l)
    <3>1. CASE u # t
      BY <3>1, <2>1, <2>2, <1>b, <1>c DEF HoldsWhileClosing
    <3>2. CASE u = t /\ k = "tcp"
      BY <3>2, <2>1, <1>c DEF Taking, Fr, FrT, FrS
    <3>3. CASE u = t /\ k # "tcp"
      <4>1. l = k \/ Taking(top[t], l)
        BY <3>3, <2>1, <2>2, <1>c DEF HoldsWhileClosing
      <4>2. top'[t].pc = "exchange" /\ top'[t].l = After(k)
        BY <3>3, <2>1, <1>c DEF FrT, FrS
      <4> QED
        BY <4>1, <4>2, <3>3, <2>1 DEF Taking, After, Closable
    <3> QED
      BY <3>1, <3>2, <3>3
  <2> QED
    BY <2>2 DEF HoldsWhileClosing, Taking
<1>5. CASE EnqueueTearDown(t)
  <2>1. got' = [got EXCEPT ![t] = NoPtrs]
    BY <1>5 DEF EnqueueTearDown
  <2>2. \A u \in Threads, l \in Closable : got'[u][l] # 0 => u # t /\ got[u][l] # 0
    BY <2>1, <1>c DEF NoPtrs
  <2> QED
    BY <2>2, <1>b DEF HoldsWhileClosing, Taking
<1> QED
  BY <1>1, <1>2, <1>3, <1>4, <1>5, StepKinds DEF Owning

LEMMA HoldsInductive == Spec => []HoldsWhileClosing
<1>1. Init => HoldsWhileClosing
  BY DEF Init, HoldsWhileClosing, NoPtrs, Closable, Layers
<1>2. TypeOK /\ HoldsWhileClosing /\ [Next]_vars => HoldsWhileClosing'
  <2> SUFFICES ASSUME TypeOK, HoldsWhileClosing, [Next]_vars PROVE HoldsWhileClosing'
    OBVIOUS
  <2>1. CASE UNCHANGED vars
    BY <2>1 DEF vars, data, HoldsWhileClosing, Taking
  <2> QED
    BY <2>1, HoldsStep DEF Next, Done
<1> QED
  BY <1>1, <1>2, TypeCorrect, PTL DEF Spec

-----------------------------------------------------------------------------
(* Each kind of step, seen by WebSocketLife                                *)

\* A transport of a closable layer is a pair of Transports.
LEMMA Pairs ==
  /\ \A l \in Closable, n \in Inst : <<l, n>> \in Transports /\ <<l, n>>[1] = l /\ <<l, n>>[2] = n
  /\ \A x \in Transports : x[1] \in Closable /\ x[2] \in Inst /\ x = <<x[1], x[2]>>
  /\ \A l \in Closable : l \in Layers
BY DEF Transports, Closable, Layers

\* Sets of transports are equal if they agree on every layer and instance.
LEMMA SameTransports ==
  ASSUME NEW S \in SUBSET Transports, NEW T \in SUBSET Transports,
         \A l \in Closable, n \in Inst : <<l, n>> \in S <=> <<l, n>> \in T
  PROVE  S = T
BY Pairs

LEMMA UnionOfTransports ==
  ASSUME NEW S \in SUBSET Transports, NEW A \in SUBSET Transports, NEW B \in SUBSET Transports,
         \A l \in Closable, n \in Inst : <<l, n>> \in S <=> <<l, n>> \in A \/ <<l, n>> \in B
  PROVE  S = A \cup B
<1>1. A \cup B \in SUBSET Transports
  OBVIOUS
<1>2. \A l \in Closable, n \in Inst : <<l, n>> \in S <=> <<l, n>> \in A \cup B
  OBVIOUS
<1> QED
  BY <1>1, <1>2, SameTransports

LEMMA SetsOfTransports ==
  Taken \in SUBSET Transports /\ Taken' \in SUBSET Transports /\
  Gone \in SUBSET Transports /\ Gone' \in SUBSET Transports
BY DEF Taken, Gone

LEMMA InTaken ==
  ASSUME NEW l \in Closable, NEW n \in Inst
  PROVE  /\ <<l, n>> \in Taken <=> \E t \in Threads : got[t][l] = n
         /\ <<l, n>> \in Taken' <=> \E t \in Threads : got'[t][l] = n
BY Pairs DEF Taken

LEMMA InGone ==
  ASSUME NEW l \in Closable, NEW n \in Inst
  PROVE  /\ <<l, n>> \in Gone <=> Stored(l, n) /\ ~Owned(l, n)
         /\ <<l, n>> \in Gone' <=> Stored(l, n)' /\ ~Owned(l, n)'
BY Pairs DEF Gone

LEMMA InQueue ==
  ASSUME TypeOK
  PROVE  /\ Len(Queue) = Len(teardown)
         /\ \A i \in 1 .. Len(teardown) : Queue[i] = InTask(i) /\ InTask(i) \in SUBSET Transports
         /\ \A i \in 1 .. Len(teardown), l \in Closable, n \in Inst :
              <<l, n>> \in InTask(i) <=> teardown[i].tr[l] = n
         /\ Queue \in Seq(SUBSET Transports)
<1>1. Len(teardown) \in Nat
  BY DEF TypeOK
<1> QED
  BY <1>1, Pairs DEF Queue, InTask

LEMMA StoredIs ==
  ASSUME NEW l, NEW n
  PROVE  Stored(l, n) <=> n <= made[l] /\ \A t \in Threads : ~Storing(t, l, n)
BY DEF Stored, Storing, At

\* What does not touch the owners is a stuttering step.
LEMMA QuietStutters ==
  ASSUME TypeOK, NEW t \in Threads, Moves(t), Quiet(t)
  PROVE  UNCHANGED <<Current, Taken, Queue, Gone>>
<1>1. \A u \in Threads : top[u].pc = "empStore" \/ top'[u].pc = "empStore" => top'[u] = top[u]
  BY TypeParts, OthersStay DEF Quiet
<1>2. \A l \in Closable, n \in Inst : Stored(l, n)' <=> Stored(l, n)
  BY <1>1 DEF Stored, At, Quiet
<1>3. \A l \in Closable, n \in Inst : Owned(l, n)' <=> Owned(l, n)
  BY DEF Owned, Quiet
<1>4. \A l \in Closable, n \in Inst : <<l, n>> \in Gone' <=> <<l, n>> \in Gone
  BY <1>2, <1>3, InGone
<1>5. Gone' = Gone
  BY <1>4, SetsOfTransports, SameTransports
<1> QED
  BY <1>5 DEF Quiet, Current, Taken, Queue, InTask

\* A transport that is only constructed has no owner and is not gone.
LEMMA ConstructStutters ==
  ASSUME TypeOK, Fresh, NEW t \in Threads, NEW k \in Layers, Constructs(t, k)
  PROVE  UNCHANGED <<Current, Taken, Queue, Gone>>
<1>1. /\ \A l \in Closable, n \in Inst : Owned(l, n)' <=> Owned(l, n)
      /\ \A l \in Closable : made[l] \in Nat
      /\ \A n \in Inst : n \in Nat
  BY ConstantsAssumption DEF Owned, Constructs, TypeOK, Closable, Layers, Ptr, Inst
<1>2. ASSUME NEW l \in Closable, NEW n \in Inst
      PROVE  Stored(l, n)' <=> Stored(l, n)
  <2>1. \A u \in Threads : Storing(u, l, n)' <=> Storing(u, l, n) \/ (u = t /\ l = k /\ n = made[k] + 1)
    BY DEF Storing, Constructs, TypeOK, FrT, FrS
  <2>2. n <= made'[l] <=> n <= made[l] \/ (l = k /\ n = made[k] + 1)
    BY <1>1 DEF Constructs, TypeOK
  <2>3. Storing(t, l, n) => n <= made[l]
    BY DEF Fresh
  <2> QED
    BY <2>1, <2>2, <1>1, StoredIs DEF Stored, Storing, At
<1>3. \A l \in Closable, n \in Inst : <<l, n>> \in Gone' <=> <<l, n>> \in Gone
  BY <1>1, <1>2, InGone
<1>4. Gone' = Gone
  BY <1>3, SetsOfTransports, SameTransports
<1> QED
  BY <1>4 DEF Constructs, Current, Taken, Queue, InTask

\* atomic_store(): the transport is set, and one that it replaces is gone.
LEMMA StoreSets ==
  ASSUME TypeOK, SingleOwner, Fresh, NEW t \in Threads, EmplaceStore(t)
  PROVE  \/ UNCHANGED <<Current, Taken, Queue, Gone>>
         \/ \E l \in Closable, n \in Inst : Life!Set(l, n)
<1> DEFINE k == top[t].l
           m == top[t].n
<1>0. /\ k \in Layers /\ m \in Inst /\ mem' = [mem EXCEPT ![k] = m] /\ mem \in [Layers -> Ptr]
      /\ UNCHANGED <<got, teardown, made>> /\ At(t, "empStore")
      /\ \A l \in Closable : l \in Layers
  BY TopType, TypeParts, Layering DEF EmplaceStore, TypeOK, trVars, taskVars, At, NeedsTransport, Emplacing,
     Closable, Layers
<1>1. \A u \in Threads, l \in Closable, n \in Inst : Storing(u, l, n)' <=> u # t /\ Storing(u, l, n)
  BY DEF Storing, EmplaceStore, Goto, TypeOK, FrT, FrS
<1>2. \A l \in Closable, n \in Inst : Storing(t, l, n) <=> l = k /\ n = m
  BY <1>0 DEF Storing, At
<1>3. \A l \in Closable, n \in Inst :
        Owned(l, n)' <=> IF l = k THEN n = m \/ (Owned(l, n) /\ mem[l] # n) ELSE Owned(l, n)
  <2>1. \A l \in Closable, n \in Inst :
          Owned(l, n)' <=> \/ mem'[l] = n
                           \/ \E u \in Threads : got[u][l] = n
                           \/ \E i \in 1 .. Len(teardown) : teardown[i].tr[l] = n
    BY <1>0 DEF Owned
  <2>2. \A l \in Closable, n \in Inst : mem[l] = n =>
          ~\/ \E u \in Threads : got[u][l] = n
           \/ \E i \in 1 .. Len(teardown) : teardown[i].tr[l] = n
    BY DEF SingleOwner
  <2> QED
    BY <2>1, <2>2, <1>0 DEF Owned
<1>4. \A l \in Closable, n \in Inst : Stored(l, n)' <=> Stored(l, n) \/ (l = k /\ n = m)
  <2>1. \A l \in Closable, n \in Inst :
          Stored(l, n)' <=> n <= made[l] /\ \A u \in Threads : ~Storing(u, l, n)'
    BY <1>0 DEF Stored, Storing, At
  <2>2. \A l \in Closable, n \in Inst, u \in Threads :
          Storing(t, l, n) /\ Storing(u, l, n) => u = t
    BY DEF Fresh
  <2>3. \A l \in Closable, n \in Inst : Storing(t, l, n) => n <= made[l]
    BY DEF Fresh
  <2> QED
    BY <2>1, <2>2, <2>3, <1>1, <1>2, StoredIs
<1>5. UNCHANGED <<Taken, Queue>>
  BY <1>0 DEF Taken, Queue, InTask
<1>6. CASE k \notin Closable
  <2>1. \A l \in Closable, n \in Inst : <<l, n>> \in Gone' <=> <<l, n>> \in Gone
    BY <1>3, <1>4, <1>6, InGone
  <2>2. Gone' = Gone
    BY <2>1, SetsOfTransports, SameTransports
  <2>3. Current' = Current
    BY <1>0, <1>6 DEF Current
  <2> QED
    BY <1>5, <2>2, <2>3
<1>7. CASE k \in Closable
  <2>1. /\ ~Owned(k, m) /\ ~Stored(k, m)
        /\ \A n \in Inst : mem[k] = n => Stored(k, n)
    BY <1>0, <1>2, <1>7, StoredIs DEF Fresh, Owned
  <2>2. ASSUME NEW l \in Closable, NEW n \in Inst
        PROVE  <<l, n>> \in Gone' <=> <<l, n>> \in Gone \/ (l = k /\ mem[k] = n)
    <3>1. mem[l] = n => Owned(l, n)
      BY DEF Owned
    <3> QED
      BY <3>1, <1>3, <1>4, <1>7, <2>1, InGone
  <2>3. Life!Of(k) = IF mem[k] = 0 THEN {} ELSE {<<k, mem[k]>>}
    BY <1>7 DEF Life!Of, Current
  <2>4. /\ \A l \in Closable, n \in Inst : <<l, n>> \in Life!Of(k) <=> l = k /\ mem[k] = n
        /\ Life!Of(k) \in SUBSET Transports
    BY <2>3, <1>0, <1>7, Layering, Pairs
  <2>5. Gone' = Gone \cup Life!Of(k)
    BY <2>2, <2>4, SetsOfTransports, UnionOfTransports
  <2>6. <<k, m>> \notin Life!Of(k) \cup Taken \cup Life!Queued \cup Gone
    <3>1. <<k, m>> \notin Life!Of(k) \cup Taken \cup Gone
      BY <2>1, <2>4, <1>0, <1>7, InTaken, InGone DEF Owned
    <3>2. <<k, m>> \notin Life!Queued
      BY <2>1, <1>0, <1>7, InQueue DEF Life!Queued, Owned
    <3> QED
      BY <3>1, <3>2
  <2>7. Current' = [Current EXCEPT ![k] = m]
    BY <1>0, <1>7 DEF Current
  <2> QED
    BY <2>5, <2>6, <2>7, <1>0, <1>5, <1>7 DEF Life!Set
<1> QED
  BY <1>6, <1>7

\* emplaceTransport() gives up: what is the member is withdrawn.
LEMMA UndoWithdraws ==
  ASSUME TypeOK, SingleOwner, Fresh, NEW t \in Threads, Calm(t), EmplaceUndo(t)
  PROVE  \/ UNCHANGED <<Current, Taken, Queue, Gone>>
         \/ \E l \in Closable : Life!Withdraw(l)
<1> DEFINE k == top[t].l
<1>0. /\ k \in Layers /\ mem' = [mem EXCEPT ![k] = 0] /\ mem \in [Layers -> Ptr]
      /\ UNCHANGED <<got, teardown, made>> /\ top[t].pc # "empStore"
      /\ \A l \in Closable : l \in Layers
  BY TopType, TypeParts DEF EmplaceUndo, TypeOK, trVars, taskVars, At, Closable, Layers
<1>1. \A u \in Threads, l \in Closable, n \in Inst : Storing(u, l, n)' <=> Storing(u, l, n)
  <2>1. \A u \in Threads : top[u].pc = "empStore" => u # t
    BY <1>0
  <2>2. \A u \in Threads : top'[u].pc = "empStore" => top'[u] = top[u]
    BY CalmTop, TypeParts DEF Tracked
  <2>3. \A u \in Threads : top[u].pc = "empStore" => top'[u] = top[u]
    BY <2>1, TypeParts DEF EmplaceUndo, Goto, TypeOK
  <2> QED
    BY <2>2, <2>3 DEF Storing
<1>2. \A l \in Closable, n \in Inst : Stored(l, n)' <=> Stored(l, n)
  BY <1>0, <1>1 DEF Stored, Storing, At
<1>3. \A l \in Closable, n \in Inst : Owned(l, n)' <=> Owned(l, n) /\ ~(l = k /\ mem[k] = n)
  <2>1. \A l \in Closable, n \in Inst :
          Owned(l, n)' <=> \/ mem'[l] = n
                           \/ \E u \in Threads : got[u][l] = n
                           \/ \E i \in 1 .. Len(teardown) : teardown[i].tr[l] = n
    BY <1>0 DEF Owned
  <2>2. \A l \in Closable, n \in Inst : mem[l] = n =>
          ~\/ \E u \in Threads : got[u][l] = n
           \/ \E i \in 1 .. Len(teardown) : teardown[i].tr[l] = n
    BY DEF SingleOwner
  <2> QED
    BY <2>1, <2>2, <1>0, Layering DEF Owned
<1>4. UNCHANGED <<Taken, Queue>>
  BY <1>0 DEF Taken, Queue, InTask
<1>5. CASE k \notin Closable \/ mem[k] = 0
  <2>1. \A l \in Closable, n \in Inst : <<l, n>> \in Gone' <=> <<l, n>> \in Gone
    BY <1>2, <1>3, <1>5, Layering, InGone
  <2>2. Gone' = Gone
    BY <2>1, SetsOfTransports, SameTransports
  <2>3. Current' = Current
    BY <1>0, <1>5 DEF Current
  <2> QED
    BY <1>4, <2>2, <2>3
<1>6. CASE k \in Closable /\ mem[k] # 0
  <2>1. mem[k] \in Inst /\ Owned(k, mem[k]) /\ Stored(k, mem[k])
    BY <1>0, <1>6, Layering, StoredIs DEF Fresh, Owned
  <2>2. \A l \in Closable, n \in Inst :
          <<l, n>> \in Gone' <=> <<l, n>> \in Gone \/ (l = k /\ mem[k] = n)
    BY <1>2, <1>3, <2>1, InGone
  <2>3. Life!Of(k) = {<<k, mem[k]>>}
    BY <1>6 DEF Life!Of, Current
  <2>4. /\ \A l \in Closable, n \in Inst : <<l, n>> \in Life!Of(k) <=> l = k /\ mem[k] = n
        /\ Life!Of(k) \in SUBSET Transports
    BY <2>3, <2>1, <1>6, Pairs
  <2>5. Gone' = Gone \cup Life!Of(k)
    BY <2>2, <2>4, SetsOfTransports, UnionOfTransports
  <2>6. Current' = [Current EXCEPT ![k] = 0] /\ Current[k] # 0
    BY <1>0, <1>6 DEF Current
  <2> QED
    BY <2>5, <2>6, <1>4, <1>6 DEF Life!Withdraw
<1> QED
  BY <1>5, <1>6

\* atomic_exchange() in closeTransports() takes the member; the local it is
\* stored in was empty.
LEMMA ExchangeTakes ==
  ASSUME TypeOK, SingleOwner, Fresh, HoldsWhileClosing, NEW t \in Threads, Exchange(t)
  PROVE  \/ UNCHANGED <<Current, Taken, Queue, Gone>>
         \/ \E l \in Closable : Life!Take(l)
<1> DEFINE k == top[t].l
<1>0. /\ k \in Layers /\ mem' = [mem EXCEPT ![k] = 0] /\ mem \in [Layers -> Ptr]
      /\ got' = [got EXCEPT ![t][k] = mem[k]] /\ got \in [Threads -> [Layers -> Ptr]]
      /\ UNCHANGED <<teardown, made>> /\ top[t].pc = "exchange"
      /\ \A l \in Closable : l \in Layers
  BY TopType, TypeParts DEF Exchange, TypeOK, trVars, taskVars, At, Closable, Layers
<1>1. k \in Closable => got[t][k] = 0
  BY <1>0 DEF HoldsWhileClosing, Taking
<1>2. \A u \in Threads, l \in Closable, n \in Inst :
        got'[u][l] = n <=> got[u][l] = n \/ (u = t /\ l = k /\ mem[k] = n)
  BY <1>0, <1>1, Layering
<1>3. \A l \in Closable, n \in Inst : Owned(l, n)' <=> Owned(l, n)
  <2>1. \A l \in Closable, n \in Inst : mem'[l] = n <=> mem[l] = n /\ l # k
    BY <1>0, Layering
  <2>2. \A l \in Closable, n \in Inst :
          Owned(l, n)' <=> \/ mem'[l] = n
                           \/ \E u \in Threads : got'[u][l] = n
                           \/ \E i \in 1 .. Len(teardown) : teardown[i].tr[l] = n
    BY <1>0 DEF Owned
  <2> QED
    BY <2>1, <2>2, <1>2 DEF Owned
<1>4. \A l \in Closable, n \in Inst : Stored(l, n)' <=> Stored(l, n)
  <2>1. \A u \in Threads, l \in Closable, n \in Inst : Storing(u, l, n)' <=> Storing(u, l, n)
    BY <1>0 DEF Storing, Exchange, Goto, TypeOK, Fr, FrT, FrS
  <2> QED
    BY <2>1, <1>0 DEF Stored, Storing, At
<1>5. Gone' = Gone
  <2>1. \A l \in Closable, n \in Inst : <<l, n>> \in Gone' <=> <<l, n>> \in Gone
    BY <1>3, <1>4, InGone
  <2> QED
    BY <2>1, SetsOfTransports, SameTransports
<1>6. Queue' = Queue
  BY <1>0 DEF Queue, InTask
<1>7. CASE k \notin Closable \/ mem[k] = 0
  <2>1. ASSUME NEW l \in Closable, NEW n \in Inst PROVE <<l, n>> \in Taken' <=> <<l, n>> \in Taken
    <3>1. \A u \in Threads : got'[u][l] = n <=> got[u][l] = n
      BY <1>2, <1>7, Layering
    <3> QED
      BY <3>1, InTaken
  <2>2. Taken' = Taken
    BY <2>1, SetsOfTransports, SameTransports
  <2>3. Current' = Current
    BY <1>0, <1>7 DEF Current
  <2> QED
    BY <2>2, <2>3, <1>5, <1>6
<1>8. CASE k \in Closable /\ mem[k] # 0
  <2>1. mem[k] \in Inst
    BY <1>0, <1>8, Layering
  <2>2. ASSUME NEW l \in Closable, NEW n \in Inst
        PROVE  <<l, n>> \in Taken' <=> <<l, n>> \in Taken \/ (l = k /\ mem[k] = n)
    <3>1. (\E u \in Threads : got'[u][l] = n) <=> (\E u \in Threads : got[u][l] = n) \/ (l = k /\ mem[k] = n)
      BY <1>2
    <3> QED
      BY <3>1, InTaken
  <2>3. Life!Of(k) = {<<k, mem[k]>>}
    BY <1>8 DEF Life!Of, Current
  <2>4. /\ \A l \in Closable, n \in Inst : <<l, n>> \in Life!Of(k) <=> l = k /\ mem[k] = n
        /\ Life!Of(k) \in SUBSET Transports
    BY <2>3, <2>1, <1>8, Pairs
  <2>5. Taken' = Taken \cup Life!Of(k)
    BY <2>2, <2>4, SetsOfTransports, UnionOfTransports
  <2>6. Current' = [Current EXCEPT ![k] = 0] /\ Current[k] # 0
    BY <1>0, <1>8 DEF Current
  <2> QED
    BY <2>5, <2>6, <1>5, <1>6, <1>8 DEF Life!Take
<1> QED
  BY <1>7, <1>8

LEMMA AppendIs ==
  ASSUME NEW T, NEW q \in Seq(T), NEW x \in T, NEW r \in [1 .. Len(q) + 1 -> T],
         r[Len(q) + 1] = x, \A i \in 1 .. Len(q) : r[i] = q[i]
  PROVE  r = Append(q, x)
<1>1. r \in Seq(T) /\ Len(r) = Len(q) + 1
  OBVIOUS
<1>2. /\ Append(q, x) \in Seq(T) /\ Len(Append(q, x)) = Len(q) + 1
      /\ \A i \in 1 .. Len(q) + 1 : Append(q, x)[i] = r[i]
  OBVIOUS
<1> QED
  BY <1>1, <1>2, SeqEqual

LEMMA TailIs ==
  ASSUME NEW T, NEW q \in Seq(T), q # <<>>, NEW r \in [1 .. Len(q) - 1 -> T],
         \A i \in 1 .. Len(q) - 1 : r[i] = q[i + 1]
  PROVE  r = Tail(q)
<1>1. r \in Seq(T) /\ Len(r) = Len(q) - 1
  OBVIOUS
<1>2. /\ Tail(q) \in Seq(T) /\ Len(Tail(q)) = Len(q) - 1
      /\ \A i \in 1 .. Len(q) - 1 : Tail(q)[i] = r[i]
  OBVIOUS
<1> QED
  BY <1>1, <1>2, SeqEqual

\* TearDownProcessor::enqueue(): a closing hands over all that it took.
LEMMA EnqueueHandsOver ==
  ASSUME TypeOK, SingleOwner, Fresh, NEW t \in Threads, EnqueueTearDown(t)
  PROVE  \E S \in SUBSET Taken : Life!HandOver(S)
<1> DEFINE L == Len(teardown)
           S == {x \in Transports : got[t][x[1]] = x[2]}
<1>0. /\ got' = [got EXCEPT ![t] = NoPtrs] /\ got \in [Threads -> [Layers -> Ptr]]
      /\ UNCHANGED <<mem, made>> /\ L \in Nat
      /\ \A l \in Closable : l \in Layers
      /\ \A n \in Inst : n # 0
  BY Layering DEF EnqueueTearDown, TypeOK, trVars, Closable, Layers
<1>1. /\ Len(teardown') = L + 1
      /\ \A i \in 1 .. L : teardown'[i] = teardown[i]
      /\ teardown'[L + 1] = [tr |-> got[t], by |-> t]
  BY DEF EnqueueTearDown, TypeOK
<1>2. /\ S \in SUBSET Transports
      /\ \A l \in Closable, n \in Inst : <<l, n>> \in S <=> got[t][l] = n
  BY Pairs
<1> HIDE DEF S
<1>3. S \subseteq Taken
  <2>1. \A l \in Closable, n \in Inst : <<l, n>> \in S => <<l, n>> \in Taken
    BY <1>2, InTaken
  <2> QED
    BY <2>1, <1>2, Pairs
<1>4. \A x, y \in S : x[1] = y[1] => x = y
  BY Pairs DEF S
<1>5. \A l \in Closable, n \in Inst, u \in Threads : got'[u][l] = n <=> u # t /\ got[u][l] = n
  BY <1>0 DEF NoPtrs
<1>6. Taken' = Taken \ S
  <2>1. ASSUME NEW l \in Closable, NEW n \in Inst
        PROVE  <<l, n>> \in Taken' <=> <<l, n>> \in Taken \ S
    <3>1. \A u \in Threads : got[t][l] = n /\ got[u][l] = n => u = t
      BY DEF SingleOwner
    <3>2. (\E u \in Threads : got'[u][l] = n) <=> (\E u \in Threads : got[u][l] = n) /\ got[t][l] # n
      BY <3>1, <1>5
    <3> QED
      BY <3>2, <1>2, InTaken
  <2>2. Taken \ S \in SUBSET Transports
    BY SetsOfTransports
  <2> QED
    BY <2>1, <2>2, SetsOfTransports, SameTransports
<1>7. Gone' = Gone
  <2>1. \A u \in Threads, l \in Closable, n \in Inst : Storing(u, l, n)' <=> Storing(u, l, n)
    BY DEF Storing, EnqueueTearDown, Goto, TypeOK, At, Fr, FrT, FrS
  <2>2. \A l \in Closable, n \in Inst : Stored(l, n)' <=> Stored(l, n)
    BY <2>1, <1>0 DEF Stored, Storing, At
  <2>3. ASSUME NEW l \in Closable, NEW n \in Inst PROVE Owned(l, n)' <=> Owned(l, n)
    <3>1. (\E i \in 1 .. Len(teardown') : teardown'[i].tr[l] = n) <=>
             (\E i \in 1 .. L : teardown[i].tr[l] = n) \/ got[t][l] = n
      BY <1>0, <1>1
    <3>2. (\E u \in Threads : got'[u][l] = n) \/ got[t][l] = n <=> \E u \in Threads : got[u][l] = n
      BY <1>5
    <3>3. Owned(l, n)' <=> \/ mem[l] = n \/ \E u \in Threads : got'[u][l] = n
                           \/ \E i \in 1 .. Len(teardown') : teardown'[i].tr[l] = n
      BY <1>0 DEF Owned
    <3> QED
      BY <3>1, <3>2, <3>3 DEF Owned
  <2>4. \A l \in Closable, n \in Inst : <<l, n>> \in Gone' <=> <<l, n>> \in Gone
    BY <2>2, <2>3, InGone
  <2> QED
    BY <2>4, SetsOfTransports, SameTransports
<1>8. Queue' = Append(Queue, S)
  <2>1. Queue' = [i \in 1 .. L + 1 |-> {x \in Transports : teardown'[i].tr[x[1]] = x[2]}]
    BY <1>1 DEF Queue, InTask
  <2>2. Queue'[L + 1] = S /\ \A i \in 1 .. L : Queue'[i] = InTask(i)
    BY <2>1, <1>0, <1>1 DEF InTask, S
  <2>3. Queue \in Seq(SUBSET Transports) /\ Len(Queue) = L /\ \A i \in 1 .. L : Queue[i] = InTask(i)
    BY InQueue
  <2>4. Queue' \in [1 .. Len(Queue) + 1 -> SUBSET Transports]
    BY <2>1, <2>3
  <2> QED
    BY <2>2, <2>3, <2>4, <1>2, AppendIs
<1>9. Current' = Current
  BY <1>0 DEF Current
<1> QED
  BY <1>3, <1>4, <1>6, <1>7, <1>8, <1>9 DEF Life!HandOver

\* The task of the TearDownProcessor releases what was handed over first.
LEMMA ResetReleases ==
  ASSUME TypeOK, SingleOwner, Fresh, NEW t \in Threads, Calm(t), TearDownEnd(t)
  PROVE  Life!Release
<1> DEFINE L == Len(teardown)
<1>0. /\ UNCHANGED <<mem, got, made>> /\ top[t].pc = "tdReset" /\ Return(t)
      /\ \A l \in Closable : l \in Layers
      /\ teardown # <<>> /\ teardown' = Tail(teardown)
  BY DEF TearDownEnd, wsVars, At, Closable, Layers
<1>1. /\ L \in Nat \ {0} /\ Len(teardown') = L - 1
      /\ \A i \in 1 .. L - 1 : teardown'[i] = teardown[i + 1]
  BY <1>0 DEF TypeOK
<1>2. Current' = Current /\ Taken' = Taken
  BY <1>0 DEF Current, Taken
<1>3. /\ Queue \in Seq(SUBSET Transports) /\ Len(Queue) = L
      /\ \A i \in 1 .. L : Queue[i] = InTask(i) /\ InTask(i) \in SUBSET Transports
      /\ \A i \in 1 .. L, l \in Closable, n \in Inst : <<l, n>> \in InTask(i) <=> teardown[i].tr[l] = n
  BY InQueue
<1>4. Queue' = Tail(Queue)
  <2>1. Queue' = [i \in 1 .. L - 1 |-> {x \in Transports : teardown'[i].tr[x[1]] = x[2]}]
    BY <1>1 DEF Queue, InTask
  <2>2. ASSUME NEW i \in 1 .. L - 1 PROVE Queue'[i] = Queue[i + 1]
    <3>1. i + 1 \in 1 .. L /\ teardown'[i] = teardown[i + 1]
      BY <1>1
    <3>2. Queue'[i] = InTask(i + 1)
      BY <2>1, <3>1 DEF InTask
    <3> QED
      BY <3>1, <3>2, <1>3
  <2>3. Queue' \in [1 .. Len(Queue) - 1 -> SUBSET Transports] /\ Queue # <<>>
    BY <2>1, <1>1, <1>3
  <2> QED
    BY <2>2, <2>3, <1>3, TailIs
<1>5. Head(Queue) = InTask(1) /\ Queue # <<>>
  BY <1>1, <1>3
<1>6. ASSUME NEW l \in Closable, NEW n \in Inst
      PROVE  Owned(l, n)' <=> Owned(l, n) /\ <<l, n>> \notin InTask(1)
  <2>1. /\ 1 \in 1 .. L /\ \A i \in 1 .. L - 1 : i + 1 \in 1 .. L /\ i + 1 # 1
        /\ \A i \in 1 .. L : i # 1 => i - 1 \in 1 .. L - 1 /\ (i - 1) + 1 = i
    BY <1>1
  <2>2. <<l, n>> \in InTask(1) <=> teardown[1].tr[l] = n
    BY <1>3, <2>1
  <2>3. teardown[1].tr[l] = n =>
          /\ mem[l] # n /\ \A u \in Threads : got[u][l] # n
          /\ \A j \in 1 .. L : teardown[j].tr[l] = n => j = 1
    BY <2>1 DEF SingleOwner
  <2>4. Owned(l, n)' <=> \/ mem[l] = n \/ \E u \in Threads : got[u][l] = n
                         \/ \E i \in 1 .. L - 1 : teardown[i + 1].tr[l] = n
    BY <1>0, <1>1 DEF Owned
  <2>5. (\E i \in 1 .. L - 1 : teardown[i + 1].tr[l] = n) <=> \E j \in 1 .. L : j # 1 /\ teardown[j].tr[l] = n
    BY <2>1
  <2> QED
    BY <2>2, <2>3, <2>4, <2>5 DEF Owned
<1>7. \A l \in Closable, n \in Inst : Stored(l, n)' <=> Stored(l, n)
  <2>1. \A u \in Threads : top'[u].pc = "empStore" => top'[u] = top[u]
    BY CalmTop, TypeParts DEF Tracked
  <2>2. \A u \in Threads : top[u].pc = "empStore" => top'[u] = top[u]
    BY <1>0, TypeParts, ReturnControl
  <2> QED
    BY <2>1, <2>2, <1>0 DEF Stored, At
<1>8. \A l \in Closable, n \in Inst : <<l, n>> \in InTask(1) => Stored(l, n) /\ Owned(l, n)
  <2>1. 1 \in 1 .. L
    BY <1>1
  <2>2. \A l \in Closable, n \in Inst : <<l, n>> \in InTask(1) => Owned(l, n)
    BY <2>1, <1>3 DEF Owned
  <2> QED
    BY <2>2, StoredIs DEF Fresh
<1>9. Gone' = Gone \cup Head(Queue)
  <2>1. \A l \in Closable, n \in Inst :
          <<l, n>> \in Gone' <=> <<l, n>> \in Gone \/ <<l, n>> \in InTask(1)
    BY <1>6, <1>7, <1>8, InGone
  <2>2. InTask(1) \in SUBSET Transports
    BY <1>1, <1>3
  <2> QED
    BY <2>1, <2>2, <1>5, SetsOfTransports, UnionOfTransports
<1> QED
  BY <1>2, <1>4, <1>5, <1>9, ZenonT(40) DEF Life!Release

-----------------------------------------------------------------------------
(* The refinement                                                          *)

LEMMA LifeStep ==
  ASSUME TypeOK, SingleOwner, Fresh, HoldsWhileClosing,
         NEW t \in Threads, Step(t) \/ Event(t) \/ AppCall(t)
  PROVE  Life!Next \/ UNCHANGED Life!vars
<1> USE DEF Life!Next, Life!vars
<1>a. Moves(t)
  BY ThreadMoves
<1>1. CASE Quiet(t)
  BY <1>1, <1>a, QuietStutters
<1>2. CASE \E k \in Layers : Constructs(t, k)
  BY <1>2, ConstructStutters
<1>3. CASE EmplaceStore(t)
  BY <1>3, StoreSets
<1>4. CASE EmplaceUndo(t)
  <2>1. Calm(t)
    BY <1>4, ThreadMoves DEF EmplaceUndo, SetTcpTransport, InitTransport2, DetachRecv, DetachState, At
  <2> QED
    BY <1>4, <2>1, UndoWithdraws, ZenonT(40)
<1>5. CASE Exchange(t)
  BY <1>5, ExchangeTakes
<1>6. CASE EnqueueTearDown(t)
  BY <1>6, EnqueueHandsOver
<1>7. CASE TearDownEnd(t)
  <2>1. Calm(t)
    BY <1>7, ThreadMoves DEF TearDownEnd, SetTcpTransport, InitTransport2, DetachRecv, DetachState, At
  <2> QED
    BY <1>7, <2>1, ResetReleases
<1> QED
  BY <1>1, <1>2, <1>3, <1>4, <1>5, <1>6, <1>7, StepKinds DEF Owning

LEMMA LifeInit ==
  ASSUME Init
  PROVE  Life!Init
<1>1. /\ \A l \in Closable : l \in Layers /\ mem[l] = 0 /\ made[l] = 0
      /\ \A l \in Closable, u \in Threads : got[u][l] = 0
      /\ \A n \in Inst : n # 0 /\ ~(n <= 0)
      /\ teardown = <<>>
  BY ConstantsAssumption DEF Init, NoPtrs, Closable, Layers, Inst
<1>2. Current = [l \in Closable |-> 0]
  BY <1>1 DEF Current
<1>3. Taken = {}
  BY <1>1, Pairs DEF Taken
<1>4. Queue = <<>>
  BY <1>1 DEF Queue
<1>5. Gone = {}
  BY <1>1, Pairs DEF Gone, Stored
<1> QED
  BY <1>2, <1>3, <1>4, <1>5 DEF Life!Init

\* impl::WebSocket implements WebSocketLife, for any threads and any number of
\* opens: a transport passes from emplaceTransport() through one
\* closeTransports() and one task of the TearDownProcessor, or is withdrawn or
\* replaced, and is never lost or handed over twice.
THEOREM LifeIsImplemented == Spec => ImplementsLife
<1>1. Init => Life!Init
  BY LifeInit
<1>2. TypeOK /\ SingleOwner /\ Fresh /\ HoldsWhileClosing /\ [Next]_vars => [Life!Next]_(Life!vars)
  <2> SUFFICES ASSUME TypeOK, SingleOwner, Fresh, HoldsWhileClosing, [Next]_vars
               PROVE  Life!Next \/ UNCHANGED Life!vars
    OBVIOUS
  <2>1. CASE UNCHANGED vars
    BY <2>1 DEF vars, data, wsVars, trVars, taskVars, Life!vars, Current, Taken, Queue, Gone, InTask,
       Stored, Owned, At
  <2> QED
    BY <2>1, LifeStep DEF Next, Done
<1> QED
  BY <1>1, <1>2, TypeCorrect, OwnersInductive, HoldsInductive, PTL DEF Spec, ImplementsLife, Life!Spec

=============================================================================
