------------------------ MODULE WebSocketImplProofs ------------------------
(***************************************************************************)
(* Proofs about WebSocketImpl, for any sets of threads, any number of      *)
(* calls of open() and every choice of the other constants.                *)
(***************************************************************************)
EXTENDS WebSocketImpl, TLAPS

-----------------------------------------------------------------------------
(* Frames and the ways a thread goes on                                    *)

\* The control part of TypeOK.
ControlOK == top \in [Threads -> TopFrame] /\ ret \in [Threads -> Seq(RetFrame)]

NeedsTransport == Emplacing \cup (Running \ {"recvEnd"})

\* The frames a step may push: a callback mutex only of a set callback.
Pushed == {f \in RetFrame : f.pc = "cbEnd" => cb[f.l][f.n]}

\* A thread's step goes to a frame, returns, or leaves all threads alone.
Moves(t) ==
  \/ \E f \in TopFrame, ks \in Seq(Pushed) : Goto(t, f, ks)
  \/ Return(t)
  \/ UNCHANGED <<top, ret>>

\* Stages the ownership proofs follow: few actions enter them.
Tracked == {"empStore", "detachState", "enqueue"}
OtherFrame == {f \in TopFrame : f.pc \notin Tracked}

\* A step that enters none of them.
Calm(t) ==
  \/ \E f \in OtherFrame, ks \in Seq(Pushed) : Goto(t, f, ks)
  \/ Return(t)
  \/ UNCHANGED <<top, ret>>

\* The frames the actions execute or return to are of the right kind.
LEMMA FrameType ==
  ASSUME NEW p \in PCs, NEW l \in Layers, NEW n \in Ptr, NEW s \in TStates,
         p \in NeedsTransport => n # 0
  PROVE  /\ p \notin LockPCs => FrS(p, l, n, s) \in TopFrame /\ FrT(p, l, n) \in TopFrame
         /\ p \notin LockPCs \cup Tracked =>
              FrS(p, l, n, s) \in OtherFrame /\ FrT(p, l, n) \in OtherFrame
         /\ p \in ReturnPCs \ {"cbEnd"} => FrS(p, l, n, s) \in Pushed /\ FrT(p, l, n) \in Pushed
BY DEF FrS, FrT, Frame, TopFrame, OtherFrame, RetFrame, Pushed, TStates, NeedsTransport

LEMMA PlainFrameType ==
  ASSUME NEW p \in PCs \ NeedsTransport
  PROVE  /\ p \notin LockPCs => Fr(p) \in TopFrame
         /\ p \notin LockPCs \cup Tracked => Fr(p) \in OtherFrame
         /\ p \in ReturnPCs => Fr(p) \in Pushed
<1>1. p # "cbEnd"
  BY DEF NeedsTransport, Running
<1> QED
  BY <1>1, FrameType, ConstantsAssumption DEF Fr, Layers, TStates, Ptr

LEMMA IdleType == Idle \in TopFrame
BY PlainFrameType DEF Idle, PCs, LockPCs, NeedsTransport, Emplacing, Running

\* A thread that goes on keeps what it returns to; no other thread moves.
LEMMA GotoControl ==
  ASSUME ControlOK, NEW t \in Threads, NEW f \in TopFrame, NEW ks \in Seq(Pushed),
         Goto(t, f, ks)
  PROVE  /\ ControlOK'
         /\ top'[t] = f /\ ret'[t] = ks \o ret[t]
         /\ \A u \in Threads \ {t} : top'[u] = top[u] /\ ret'[u] = ret[u]
<1>1. ks \in Seq(RetFrame)
  BY DEF Pushed
<1>2. ks \o ret[t] \in Seq(RetFrame)
  BY <1>1 DEF ControlOK
<1> QED
  BY <1>2 DEF ControlOK, Goto

\* A thread that returns goes on with a frame it had to return to, or is idle.
LEMMA ReturnControl ==
  ASSUME ControlOK, NEW t \in Threads, Return(t)
  PROVE  /\ ControlOK'
         /\ \/ /\ top'[t] = Idle /\ ret'[t] = <<>>
               /\ \A i \in 1 .. Len(ret[t]) : ret[t][i].pc \in LockPCs
            \/ \E k \in 1 .. Len(ret[t]) :
                 /\ top'[t] = ret[t][k] /\ ret'[t] = SubSeq(ret[t], k + 1, Len(ret[t]))
                 /\ \A i \in 1 .. k - 1 : ret[t][i].pc \in LockPCs
         /\ \A u \in Threads \ {t} : top'[u] = top[u] /\ ret'[u] = ret[u]
<1>0. ret[t] \in Seq(RetFrame) /\ Len(ret[t]) \in Nat
  BY DEF ControlOK
<1>1. CASE /\ \A i \in 1 .. Len(ret[t]) : ret[t][i].pc \in LockPCs
           /\ top' = [top EXCEPT ![t] = Idle]
           /\ ret' = [ret EXCEPT ![t] = <<>>]
  <2>1. <<>> \in Seq(RetFrame)
    OBVIOUS
  <2> QED
    BY <1>1, <2>1, IdleType DEF ControlOK
<1>2. ASSUME NEW k \in 1 .. Len(ret[t]),
             ret[t][k].pc \notin LockPCs,
             top' = [top EXCEPT ![t] = ret[t][k]],
             ret' = [ret EXCEPT ![t] = SubSeq(@, k + 1, Len(@))]
      PROVE  /\ ControlOK'
             /\ top'[t] = ret[t][k] /\ ret'[t] = SubSeq(ret[t], k + 1, Len(ret[t]))
             /\ \A u \in Threads \ {t} : top'[u] = top[u] /\ ret'[u] = ret[u]
  <2>1. ret[t][k] \in RetFrame /\ SubSeq(ret[t], k + 1, Len(ret[t])) \in Seq(RetFrame)
    BY <1>0
  <2>2. ret[t][k] \in TopFrame
    BY <2>1, <1>2 DEF RetFrame, TopFrame
  <2> QED
    BY <1>2, <2>1, <2>2 DEF ControlOK
<1> QED
  BY <1>1, <1>2 DEF Return

LEMMA MovesType ==
  ASSUME ControlOK, NEW t \in Threads, Moves(t)
  PROVE  ControlOK'
<1>1. CASE UNCHANGED <<top, ret>>
  BY <1>1 DEF ControlOK
<1> QED
  BY <1>1, GotoControl, ReturnControl DEF Moves

-----------------------------------------------------------------------------
(* Type correctness                                                        *)

\* The rest of TypeOK.
DataOK ==
  /\ state \in States
  /\ mem \in [Layers -> Ptr] /\ made \in [Layers -> Ptr]
  /\ gen \in Ptr /\ opens \in Ptr
  /\ closedCb \in [Ptr -> 0 .. 2]
  /\ base \in [Layers -> [Inst -> [Layers -> Ptr]]]
  /\ tst \in [Layers -> [Inst -> TStates]]
  /\ cb \in [Layers -> [Inst -> BOOLEAN]]
  /\ rcv \in [Layers -> [Inst -> Ptr]]
  /\ halted \subseteq Ptr /\ closeSent \subseteq Ptr
  /\ connTimers \subseteq Ptr /\ closeTimers \subseteq Ptr
  /\ got \in [Threads -> [Layers -> Ptr]]
  /\ teardown \in Seq([tr : [Layers -> Ptr], by : Threads])

\* The next instance of a layer.
LEMMA NextInst ==
  ASSUME NEW k \in Ptr, k < MaxOpens
  PROVE  k + 1 \in Inst /\ k + 1 \in Ptr
BY ConstantsAssumption DEF Ptr, Inst

LEMMA TypeParts == TypeOK <=> ControlOK /\ DataOK
BY DEF TypeOK, ControlOK, DataOK

\* What a thread executes is well typed.
LEMMA TopType ==
  ASSUME ControlOK, NEW t \in Threads
  PROVE  /\ top[t].pc \in PCs /\ top[t].l \in Layers /\ top[t].n \in Ptr /\ top[t].s \in TStates
         /\ top[t].pc \in NeedsTransport => top[t].n # 0
<1>1. top[t] \in Frame
  BY DEF ControlOK, TopFrame
<1> QED
  BY <1>1 DEF Frame, NeedsTransport

LEMMA Layering ==
  /\ \A l \in Layers : Lower(l) \in Layers /\ Upper(l) \in Layers /\ After(l) \in Layers
  /\ 0 \in Ptr /\ \A n \in Ptr : n # 0 => n \in Inst
  /\ \A n \in Inst : n \in Ptr /\ n # 0
BY ConstantsAssumption DEF Lower, Upper, After, Layers, Ptr, Inst

\* The sequences of frames the actions push.
LEMMA PushedSeqs ==
  /\ <<>> \in Seq(Pushed)
  /\ \A f \in Pushed : <<f>> \in Seq(Pushed)
  /\ \A f, g \in Pushed : <<f, g>> \in Seq(Pushed)
OBVIOUS

LEMMA RemoteCloseCalm ==
  ASSUME NEW t \in Threads, NEW ks \in Seq(Pushed), RemoteClose(t, ks)
  PROVE  Calm(t)
<1>1. Fr("close1") \in OtherFrame /\ Fr("rc2") \in Pushed
  BY PlainFrameType DEF PCs, LockPCs, Tracked, ReturnPCs, NeedsTransport, Emplacing, Running
<1>2. <<Fr("rc2")>> \o ks \in Seq(Pushed)
  BY <1>1
<1> QED
  BY <1>1, <1>2 DEF RemoteClose, Calm

LEMMA StopType ==
  ASSUME NEW l \in Layers, NEW n \in Inst
  PROVE  StopFr(l, n) \in OtherFrame /\ StopFr(l, n) \in Pushed
BY FrameType, Layering
   DEF StopFr, PCs, LockPCs, Tracked, ReturnPCs, NeedsTransport, Emplacing, Running, TStates

LEMMA LocksType ==
  ASSUME DataOK, NEW l \in Layers, NEW n \in Inst
  PROVE  Locks(l, n) \in Seq(Pushed)
<1> DEFINE b == base[l][n]
<1>1. \A k \in Layers : b[k] \in Ptr
  BY DEF DataOK
<1>2. \A p \in {"recvEnd", "doRecvEnd"}, k \in Layers, m \in Ptr : FrT(p, k, m) \in Pushed
  BY FrameType DEF PCs, ReturnPCs, LockPCs, NeedsTransport, Emplacing, Running, TStates
<1>3. n \in Ptr
  BY Layering
<1>4. /\ FrT("doRecvEnd", "tls", n) \in Pushed
      /\ FrT("recvEnd", "tls", b["tls"]) \in Pushed /\ FrT("doRecvEnd", "tls", b["tls"]) \in Pushed
      /\ FrT("recvEnd", "proxy", b["proxy"]) \in Pushed /\ FrT("recvEnd", "tcp", b["tcp"]) \in Pushed
  BY <1>1, <1>2, <1>3 DEF Layers
<1> QED
  BY <1>4, PushedSeqs DEF Locks

LEMMA ReactionsType ==
  ASSUME NEW l \in Layers, NEW n \in Inst, NEW fs \in Reactions(l, n)
  PROVE  Head(fs) \in OtherFrame /\ Tail(fs) \in Seq(Pushed)
<1>1. \A s \in TStates : FrS("changeState", l, n, s) \in OtherFrame /\ FrS("changeState", l, n, s) \in Pushed
  BY FrameType, Layering DEF PCs, LockPCs, Tracked, ReturnPCs
<1>2. FrT("broken", l, n) \in OtherFrame /\ FrT("wsClose1", l, n) \in OtherFrame
  BY FrameType, Layering DEF PCs, LockPCs, Tracked, ReturnPCs, TStates
<1>3. fs \in {<<FrS("changeState", l, n, s)>> : s \in TStates} \cup
             {<<FrT("broken", l, n)>>, <<FrT("wsClose1", l, n)>>,
              <<FrT("wsClose1", l, n), FrS("changeState", l, n, "Disconnected")>>}
  BY DEF Reactions, TStates
<1>4. CASE \E s \in TStates : fs = <<FrS("changeState", l, n, s)>>
  BY <1>4, <1>1
<1>5. CASE fs = <<FrT("wsClose1", l, n)>>
  BY <1>5, <1>2
<1>6. CASE fs = <<FrT("broken", l, n)>>
  BY <1>6, <1>2
<1>7. CASE fs = <<FrT("wsClose1", l, n), FrS("changeState", l, n, "Disconnected")>>
  <2>1. "Disconnected" \in TStates
    BY DEF TStates
  <2>2. Head(fs) = FrT("wsClose1", l, n) /\ Tail(fs) = <<FrS("changeState", l, n, "Disconnected")>>
    BY <1>7
  <2> QED
    BY <1>1, <1>2, <2>1, <2>2, PushedSeqs
<1> QED
  BY <1>3, <1>4, <1>5, <1>6, <1>7

\* Facts about sequences and functions of functions used below.
LEMMA HeadTail ==
  ASSUME NEW S, NEW q \in Seq(S), q # <<>>
  PROVE  Head(q) \in S /\ Tail(q) \in Seq(S)
OBVIOUS

LEMMA Except2 ==
  ASSUME NEW A, NEW B, NEW C, NEW g \in [A -> [B -> C]], NEW a, NEW b, NEW c \in C
  PROVE  [g EXCEPT ![a][b] = c] \in [A -> [B -> C]]
<1>1. CASE a \in A
  <2>1. [g[a] EXCEPT ![b] = c] \in [B -> C]
    BY <1>1
  <2> QED
    BY <2>1
<1>2. CASE a \notin A
  BY <1>2
<1> QED
  BY <1>1, <1>2

\* Every action moves its thread in one of these ways.
LEMMA ThreadMoves ==
  ASSUME TypeOK, NEW t \in Threads, Step(t) \/ Event(t) \/ AppCall(t)
  PROVE  /\ Moves(t)
         /\ \/ Calm(t) \/ SetTcpTransport(t) \/ InitTransport2(t)
            \/ DetachRecv(t) \/ DetachState(t)
<1> DEFINE f == top[t]
<1>a. ControlOK /\ DataOK
  BY TypeParts
<1>b. /\ f.pc \in PCs /\ f.l \in Layers /\ f.n \in Ptr /\ f.s \in TStates
      /\ f.pc \in NeedsTransport => f.n \in Inst
  BY <1>a, TopType, Layering
<1>c. \A p \in PCs, l \in Layers, n \in Ptr :
        /\ p \notin LockPCs /\ p \notin NeedsTransport => FrT(p, l, n) \in TopFrame
        /\ p \notin LockPCs \cup Tracked /\ p \notin NeedsTransport => FrT(p, l, n) \in OtherFrame
        /\ p \in ReturnPCs /\ p \notin NeedsTransport => FrT(p, l, n) \in Pushed
  BY FrameType DEF TStates, NeedsTransport, Running
<1>d. \A p \in PCs, l \in Layers, n \in Inst, s \in TStates :
        /\ p \notin LockPCs => FrT(p, l, n) \in TopFrame /\ FrS(p, l, n, s) \in TopFrame
        /\ p \notin LockPCs \cup Tracked => FrT(p, l, n) \in OtherFrame /\ FrS(p, l, n, s) \in OtherFrame
        /\ p \in ReturnPCs \ {"cbEnd"} => FrT(p, l, n) \in Pushed /\ FrS(p, l, n, s) \in Pushed
  BY FrameType, Layering
<1>e. <<>> \in Seq(Pushed)
  OBVIOUS
<1>f. \A p \in PCs \ NeedsTransport : 
        /\ p \notin LockPCs => Fr(p) \in TopFrame
        /\ p \notin LockPCs \cup Tracked => Fr(p) \in OtherFrame
        /\ p \in ReturnPCs => Fr(p) \in Pushed
  BY PlainFrameType
<1>j. ASSUME NEW p, NEW c, NEW g \in OtherFrame, Test(t, p, c, g)
      PROVE  Calm(t)
  BY <1>j, <1>e DEF Test, Calm
<1>k. Calm(t) => Moves(t)
  BY DEF Calm, Moves, OtherFrame
<1> USE DEF NeedsTransport, Emplacing, Running
<1>1. ASSUME Open1(t) PROVE Calm(t)
  BY <1>1, <1>j, <1>f DEF Open1, PCs, LockPCs, Tracked
<1>2. ASSUME Open2(t) PROVE Calm(t)
  BY <1>2, <1>f, <1>e DEF Open2, PCs, LockPCs, Tracked, Calm
<1>3. ASSUME SetTcpTransport(t) PROVE Moves(t)
  <2>1. CASE RemoteClose(t, <<>>)
    BY <2>1, <1>e, RemoteCloseCalm, <1>k
  <2>2. CASE made["tcp"] < MaxOpens /\ Goto(t, FrT("empStore", "tcp", made["tcp"] + 1), <<>>)
    <3>0. made["tcp"] \in Ptr
      BY <1>a DEF DataOK, Layers
    <3>1. made["tcp"] + 1 \in Inst
      BY <2>2, <3>0, NextInst
    <3>2. FrT("empStore", "tcp", made["tcp"] + 1) \in TopFrame
      BY <3>1, <1>d DEF PCs, LockPCs, Layers, TStates
    <3> QED
      BY <2>2, <3>2, <1>e DEF Moves
  <2> QED
    BY <1>3, <2>1, <2>2 DEF SetTcpTransport
<1>4. ASSUME InitTransport1(t) PROVE Calm(t)
  BY <1>4, <1>j, <1>c, <1>b, Layering DEF InitTransport1, PCs, LockPCs, Tracked
<1>5. ASSUME InitTransport2(t) PROVE Moves(t)
  <2>1. CASE RemoteClose(t, <<>>)
    BY <2>1, <1>e, RemoteCloseCalm, <1>k
  <2>2. CASE made[f.l] < MaxOpens /\ Goto(t, FrT("empStore", f.l, made[f.l] + 1), <<>>)
    <3>0. made[f.l] \in Ptr
      BY <1>a, <1>b DEF DataOK
    <3>1. made[f.l] + 1 \in Inst
      BY <2>2, <3>0, NextInst
    <3>2. FrT("empStore", f.l, made[f.l] + 1) \in TopFrame
      BY <3>1, <1>b, <1>d DEF PCs, LockPCs, TStates
    <3> QED
      BY <2>2, <3>2, <1>e DEF Moves
  <2> QED
    BY <1>5, <2>1, <2>2 DEF InitTransport2
<1>6. ASSUME EmplaceStore(t) PROVE Calm(t)
  <2>1. mem[f.l] \in Ptr /\ f.n \in Inst
    BY <1>a, <1>b, <1>6 DEF DataOK, EmplaceStore, At
  <2>2. /\ FrT("empStart", f.l, f.n) \in OtherFrame /\ FrT("empStart", f.l, f.n) \in Pushed
        /\ FrT("drop", f.l, mem[f.l]) \in OtherFrame
    BY <2>1, <1>b, <1>c, <1>d DEF PCs, LockPCs, Tracked, ReturnPCs
  <2> QED
    BY <1>6, <2>2, <1>e, PushedSeqs DEF EmplaceStore, Calm
<1>7. ASSUME EmplaceStart(t) PROVE Calm(t)
  <2>1. FrT("empChk", f.l, f.n) \in OtherFrame /\ FrT("empThrow", f.l, f.n) \in OtherFrame
    BY <1>7, <1>b, <1>d DEF PCs, LockPCs, Tracked, EmplaceStart, At
  <2> QED
    BY <1>7, <2>1, <1>e DEF EmplaceStart, Calm
<1>8. ASSUME EmplaceCheck(t) PROVE Calm(t)
  <2>1. FrT("empNull", f.l, f.n) \in OtherFrame /\ FrT("drop", f.l, f.n) \in OtherFrame
    BY <1>8, <1>b, <1>d DEF PCs, LockPCs, Tracked, EmplaceCheck, At
  <2>2. \/ Goto(t, FrT("empNull", f.l, f.n), <<>>) \/ Return(t)
        \/ Goto(t, FrT("drop", f.l, f.n), <<>>)
    BY <1>8 DEF EmplaceCheck
  <2> QED
    BY <2>1, <2>2, <1>e DEF Calm
<1>9. ASSUME EmplaceUndo(t) PROVE Calm(t)
  <2> DEFINE after == IF At(t, "empThrow") THEN <<Fr("close1"), Fr("rc2")>> ELSE <<>>
  <2>1. mem[f.l] \in Ptr /\ f.n \in Inst
    BY <1>a, <1>b, <1>9 DEF DataOK, EmplaceUndo, At
  <2>2. /\ FrT("drop", f.l, f.n) \in Pushed /\ FrT("drop", f.l, mem[f.l]) \in OtherFrame
        /\ StopFr(f.l, f.n) \in OtherFrame /\ StopFr(f.l, f.n) \in Pushed
        /\ Fr("close1") \in Pushed /\ Fr("rc2") \in Pushed
    BY <2>1, <1>b, <1>c, <1>d, <1>f, StopType, SMTT(40) DEF PCs, LockPCs, Tracked, ReturnPCs
  <2>3. after \in Seq(Pushed)
    BY <2>2, PushedSeqs
  <2>4. /\ <<FrT("drop", f.l, f.n)>> \o after \in Seq(Pushed)
        /\ <<StopFr(f.l, f.n), FrT("drop", f.l, f.n)>> \o after \in Seq(Pushed)
    <3> HIDE DEF after
    <3> QED
      BY <2>2, <2>3
  <2>5. \/ Goto(t, StopFr(f.l, f.n), <<FrT("drop", f.l, f.n)>> \o after)
        \/ Goto(t, FrT("drop", f.l, mem[f.l]), <<StopFr(f.l, f.n), FrT("drop", f.l, f.n)>> \o after)
    BY <1>9 DEF EmplaceUndo
  <2> QED
    BY <2>2, <2>4, <2>5 DEF Calm
<1>10. ASSUME Close1(t) PROVE Calm(t)
  BY <1>10, <1>j, <1>f DEF Close1, PCs, LockPCs, Tracked
<1>11. ASSUME Close2(t) PROVE Calm(t)
  BY <1>11, <1>f, <1>e DEF Close2, PCs, LockPCs, Tracked, Calm
<1>12. ASSUME Close3(t) PROVE Calm(t)
  <2>1. mem["ws"] # 0 => StopFr("ws", mem["ws"]) \in OtherFrame
    BY <1>a, StopType, Layering DEF DataOK, Layers
  <2> QED
    BY <1>12, <2>1, <1>e, RemoteCloseCalm DEF Close3, Calm
<1>13. ASSUME RemoteClose2(t) PROVE Calm(t)
  BY <1>13, <1>j, <1>f DEF RemoteClose2, PCs, LockPCs, Tracked
<1>14. ASSUME CloseTransports(t) PROVE Calm(t)
  <2>1. FrT("exchange", "ws", 0) \in OtherFrame
    BY <1>c, Layering DEF PCs, LockPCs, Tracked, Layers
  <2> QED
    BY <1>14, <2>1, <1>e DEF CloseTransports, Calm
<1>15. ASSUME Exchange(t) PROVE Calm(t)
  <2>1. Fr("detachRecv") \in OtherFrame /\ FrT("exchange", After(f.l), 0) \in OtherFrame
    BY <1>b, <1>c, <1>f, Layering DEF PCs, LockPCs, Tracked
  <2> QED
    BY <1>15, <2>1, <1>e DEF Exchange, Calm
<1>16. ASSUME DetachRecv(t) PROVE Moves(t)
  <2>1. FrT("detachState", "ws", 0) \in TopFrame
    BY <1>c, Layering DEF PCs, LockPCs, Layers
  <2> QED
    BY <1>16, <2>1, <1>e DEF DetachRecv, Moves
<1>17. ASSUME DetachState(t) PROVE Moves(t)
  <2>1. Fr("enqueue") \in TopFrame /\ FrT("detachState", After(f.l), 0) \in TopFrame
    BY <1>b, <1>c, <1>f, Layering DEF PCs, LockPCs
  <2> QED
    BY <1>17, <2>1, <1>e DEF DetachState, Moves
<1>18. ASSUME EnqueueTearDown(t) PROVE Calm(t)
  <2>1. Fr("user") \in OtherFrame
    BY <1>f DEF PCs, LockPCs, Tracked
  <2>2. Goto(t, Fr("user"), <<>>)
    BY <1>18 DEF EnqueueTearDown
  <2> QED
    BY <2>1, <2>2, <1>e DEF Calm
<1>19. ASSUME ChangeState(t) PROVE Calm(t)
  <2>1. [f EXCEPT !.pc = "cb"] \in OtherFrame
    <3>1. f \in Frame /\ f.pc = "changeState"
      BY <1>19, <1>a DEF ControlOK, TopFrame, ChangeState, At
    <3>2. f \in [pc : PCs, l : Layers, n : Ptr, s : TStates] /\ f.n # 0
      BY <3>1, SMTT(40) DEF Frame, Running
    <3>3. "cb" \in PCs /\ "cb" \notin LockPCs /\ "cb" \notin Tracked
      BY DEF PCs, LockPCs, Tracked
    <3> QED
      BY <3>2, <3>3, SMTT(40) DEF OtherFrame, TopFrame, Frame
  <2> QED
    BY <1>19, <2>1, <1>e DEF ChangeState, Calm
<1>20. ASSUME StateCallback(t) PROVE Calm(t)
  <2> DEFINE h == Handler(f.l, f.s)
  <2>1. h # <<>> => Head(h) \in OtherFrame /\ Tail(h) \in Seq(Pushed)
    <3>1. /\ FrT("init1", Upper(f.l), 0) \in OtherFrame /\ Fr("wsOpen1") \in OtherFrame
          /\ Fr("user") \in OtherFrame /\ Fr("ifConnecting") \in OtherFrame
          /\ Fr("close1") \in OtherFrame /\ Fr("close1") \in Pushed /\ Fr("rc2") \in Pushed
      BY <1>b, <1>c, <1>f, Layering DEF PCs, LockPCs, Tracked, ReturnPCs
    <3>2. h \in {<<FrT("init1", Upper(f.l), 0)>>, <<Fr("wsOpen1")>>, <<Fr("ifConnecting")>>, <<>>,
                 <<Fr("user"), Fr("close1"), Fr("rc2")>>, <<Fr("close1"), Fr("rc2")>>}
      BY <1>b DEF Handler, TStates
    <3>3. CASE h = <<Fr("user"), Fr("close1"), Fr("rc2")>>
      <4>1. Head(h) = Fr("user") /\ Tail(h) = <<Fr("close1"), Fr("rc2")>>
        BY <3>3
      <4> QED
        BY <3>1, <4>1, PushedSeqs
    <3>4. CASE h = <<Fr("close1"), Fr("rc2")>>
      <4>1. Head(h) = Fr("close1") /\ Tail(h) = <<Fr("rc2")>>
        BY <3>4
      <4> QED
        BY <3>1, <4>1, PushedSeqs
    <3>5. CASE \E g \in OtherFrame : h = <<g>>
      BY <3>5
    <3> QED
      BY <3>1, <3>2, <3>3, <3>4, <3>5
  <2>2. f.n \in Inst
    BY <1>20, <1>b DEF StateCallback, At
  <2>3. cb[f.l][f.n] => FrT("cbEnd", f.l, f.n) \in Pushed
    BY <2>2, <1>b, Layering DEF FrT, FrS, Pushed, RetFrame, Frame, ReturnPCs, LockPCs, Tracked, PCs, TStates
  <2>4. h # <<>> /\ cb[f.l][f.n] => Tail(h) \o <<FrT("cbEnd", f.l, f.n)>> \in Seq(Pushed)
    <3> HIDE DEF h
    <3> QED
      BY <2>1, <2>3
  <2>5. Return(t) \/ (h # <<>> /\ cb[f.l][f.n] /\ Goto(t, Head(h), Tail(h) \o <<FrT("cbEnd", f.l, f.n)>>))
    BY <1>20 DEF StateCallback
  <2> QED
    BY <2>1, <2>4, <2>5 DEF Calm
<1>21. ASSUME IfConnecting(t) PROVE Calm(t)
  BY <1>21, <1>e, RemoteCloseCalm DEF IfConnecting, Calm
<1>22. ASSUME WsOpen1(t) PROVE Calm(t)
  BY <1>22, <1>j, <1>f DEF WsOpen1, PCs, LockPCs, Tracked
<1>23. ASSUME WsOpen2(t) PROVE Calm(t)
  BY <1>23, <1>f, <1>e DEF WsOpen2, PCs, LockPCs, Tracked, Calm
<1>24. ASSUME RecvNull(t) PROVE Calm(t)
  <2> DEFINE end == FrT("recvEnd", f.l, f.n)
             up == Upper(f.l)
             u == rcv[f.l][f.n]
  <2>1. end \in Pushed /\ f.n \in Inst
    BY <1>24, <1>b, <1>c DEF PCs, LockPCs, Tracked, ReturnPCs, RecvNull, At
  <2>2. u \in Ptr /\ up \in Layers
    BY <1>a, <1>b, <2>1, Layering DEF DataOK
  <2>3. u # 0 => FrT("broken", up, u) \in OtherFrame
    BY <2>2, <1>d, Layering, ZenonT(40) DEF PCs, LockPCs, Tracked, ReturnPCs, TStates
  <2>4. \/ Return(t) \/ RemoteClose(t, <<end>>)
        \/ u # 0 /\ Goto(t, FrT("broken", up, u), <<end>>)
    BY <1>24 DEF RecvNull
  <2> QED
    BY <2>1, <2>3, <2>4, PushedSeqs, RemoteCloseCalm DEF Calm
<1>25. ASSUME Stop(t) PROVE Calm(t)
  BY <1>25 DEF Stop, Calm
<1>26. ASSUME WsClose1(t) PROVE Calm(t)
  <2>1. FrT("wsClose2", "ws", f.n) \in OtherFrame
    BY <1>26, <1>b, <1>d DEF WsClose1, Test, At, PCs, LockPCs, Tracked, Layers
  <2> QED
    BY <1>26, <2>1, <1>j DEF WsClose1
<1>27. ASSUME WsClose2(t) PROVE Calm(t)
  <2>1. FrS("changeState", "ws", f.n, "Disconnected") \in OtherFrame
    BY <1>27, <1>b, <1>d, ZenonT(40) DEF WsClose2, At, PCs, LockPCs, Tracked, Layers, TStates
  <2> QED
    BY <1>27, <2>1, <1>e DEF WsClose2, Calm
<1>28. ASSUME Drop(t) PROVE Calm(t)
  <2> DEFINE lo == Lower(f.l)
             m == base[f.l][f.n][lo]
  <2>1. CASE Return(t)
    BY <2>1 DEF Calm
  <2>2. CASE f.n # 0 /\ Goto(t, FrS("changeState", "tcp", f.n, "Disconnected"), <<>>)
    <3>1. FrS("changeState", "tcp", f.n, "Disconnected") \in OtherFrame
      BY <2>2, <1>b, <1>d, Layering, ZenonT(40) DEF PCs, LockPCs, Tracked, Layers, TStates
    <3> QED
      BY <2>2, <3>1, <1>e DEF Calm
  <2>3. CASE f.n # 0 /\ Goto(t, FrT("stop", lo, m), <<FrT("drop", lo, m)>>)
    <3>0. base \in [Layers -> [Inst -> [Layers -> Ptr]]]
      BY <1>a, ZenonT(40) DEF DataOK
    <3>1. lo \in Layers /\ m \in Ptr
      BY <2>3, <3>0, <1>b, Layering, SMTT(40)
    <3>2. FrT("stop", lo, m) \in OtherFrame /\ FrT("drop", lo, m) \in Pushed
      BY <3>1, <1>c DEF PCs, LockPCs, Tracked, ReturnPCs
    <3> QED
      BY <2>3, <3>2, PushedSeqs DEF Calm
  <2> QED
    BY <1>28, <2>1, <2>2, <2>3 DEF Drop
<1>29. ASSUME UserReturn(t) PROVE Calm(t)
  BY <1>29 DEF UserReturn, Calm
<1>30. ASSUME TearDownReset(t) PROVE Calm(t)
  <2>1. FrT("tdReset", After(f.l), 0) \in OtherFrame
    <3>1. After(f.l) \in Layers /\ 0 \in Ptr
      BY Layering DEF After, Layers
    <3> QED
      BY <3>1, <1>c DEF PCs, LockPCs, Tracked
  <2>2. Goto(t, FrT("tdReset", After(f.l), 0), <<>>)
    BY <1>30, ZenonT(40) DEF TearDownReset
  <2> QED
    BY <2>1, <2>2, <1>e, ZenonT(40) DEF Calm
<1>38. ASSUME TearDownEnd(t) PROVE Calm(t)
  BY <1>38 DEF TearDownEnd, Calm
<1>39. ASSUME Broken(t) PROVE Calm(t)
  <2>1. /\ FrS("changeState", f.l, f.n, "Disconnected") \in OtherFrame
        /\ FrS("changeState", f.l, f.n, "Failed") \in OtherFrame
        /\ FrT("recvNull", f.l, f.n) \in Pushed
    BY <1>39, <1>b, <1>d, ZenonT(40) DEF Broken, At, PCs, LockPCs, Tracked, ReturnPCs, TStates
  <2> QED
    BY <1>39, <2>1, <1>e, PushedSeqs DEF Broken, Calm
<1>31. ASSUME NEW n \in Inst, TcpConnect(t, n)
       PROVE  Calm(t)
  BY <1>31, <1>d, <1>e DEF TcpConnect, Calm, PCs, LockPCs, Tracked, Layers, TStates
<1>32. ASSUME NEW n \in Inst, TcpLost(t, n)
       PROVE  Calm(t)
  <2>1. FrS("changeState", "tcp", n, "Disconnected") \in OtherFrame /\ FrT("recvNull", "tcp", n) \in Pushed
    BY <1>d DEF PCs, LockPCs, Tracked, ReturnPCs, Layers, TStates
  <2> QED
    BY <1>32, <2>1, PushedSeqs DEF TcpLost, Calm
<1>33. ASSUME NEW n \in Inst, CloseTimeout(t, n)
       PROVE  Calm(t)
  BY <1>33, <1>d, <1>e DEF CloseTimeout, Calm, PCs, LockPCs, Tracked, Layers, TStates
<1>34. ASSUME NEW l \in Layers, NEW n \in Inst, Incoming(t, l, n)
       PROVE  Calm(t)
  <2>1. PICK fs \in Reactions(l, n) : Goto(t, Head(fs), Tail(fs) \o Locks(l, n))
    BY <1>34 DEF Incoming
  <2>2. Head(fs) \in OtherFrame /\ Tail(fs) \in Seq(Pushed) /\ Locks(l, n) \in Seq(Pushed)
    BY <1>a, ReactionsType, LocksType
  <2>3. Tail(fs) \o Locks(l, n) \in Seq(Pushed)
    BY <2>2
  <2> QED
    BY <2>1, <2>2, <2>3 DEF Calm
<1>35. ASSUME NEW g \in Ptr, ConnectionTimeout(t, g)
       PROVE  Calm(t)
  <2>1. Fr("user") \in OtherFrame /\ Fr("close1") \in Pushed /\ Fr("rc2") \in Pushed
    BY <1>f DEF PCs, LockPCs, Tracked, ReturnPCs
  <2> QED
    BY <1>35, <2>1, PushedSeqs DEF ConnectionTimeout, Calm
<1>36. ASSUME TearDown(t) PROVE Calm(t)
  <2> DEFINE tr == Head(teardown).tr
             l == IF tr["ws"] # 0 THEN "ws" ELSE IF tr["tls"] # 0 THEN "tls" ELSE "tcp"
  <2>1. tr \in [Layers -> Ptr]
    <3>1. teardown \in Seq([tr : [Layers -> Ptr], by : Threads]) /\ teardown # <<>>
      BY <1>36, <1>a DEF TearDown, DataOK
    <3>2. Head(teardown) \in [tr : [Layers -> Ptr], by : Threads]
      BY <3>1, HeadTail
    <3> QED
      BY <3>2
  <2>2. tr[l] # 0 => StopFr(l, tr[l]) \in OtherFrame
    BY <2>1, StopType, Layering DEF Layers
  <2>3. FrT("tdReset", "ws", 0) \in OtherFrame /\ FrT("tdReset", "ws", 0) \in Pushed
    <3>1. "ws" \in Layers /\ 0 \in Ptr
      BY Layering DEF Layers
    <3> QED
      BY <3>1, <1>c DEF PCs, LockPCs, Tracked, ReturnPCs
  <2>4. \/ tr[l] # 0 /\ Goto(t, StopFr(l, tr[l]), <<FrT("tdReset", "ws", 0)>>)
        \/ Goto(t, FrT("tdReset", "ws", 0), <<>>)
    BY <1>36 DEF TearDown
  <2> QED
    BY <2>2, <2>3, <2>4, PushedSeqs DEF Calm
<1>37. ASSUME AppCall(t) PROVE Calm(t)
  <2>1. PICK call \in Calls : Goto(t, Head(Entry(call)), Tail(Entry(call)))
    BY <1>37 DEF AppCall
  <2>2. Fr("open1") \in OtherFrame /\ Fr("close1") \in OtherFrame /\ Fr("rc2") \in Pushed
    BY <1>f DEF PCs, LockPCs, Tracked, ReturnPCs
  <2>3. Head(Entry(call)) \in {Fr("open1"), Fr("close1")} /\ Tail(Entry(call)) \in {<<>>, <<Fr("rc2")>>}
    BY DEF Entry, Calls
  <2> QED
    BY <2>1, <2>2, <2>3, PushedSeqs DEF Calm
<1> QED
  BY <1>1, <1>2, <1>3, <1>4, <1>5, <1>6, <1>7, <1>8, <1>9, <1>10, <1>11, <1>12, <1>13,
     <1>14, <1>15, <1>16, <1>17, <1>18, <1>19, <1>20, <1>21, <1>22, <1>23, <1>24, <1>25,
     <1>26, <1>27, <1>28, <1>29, <1>30, <1>31, <1>32, <1>33, <1>34, <1>35, <1>36, <1>37,
     <1>38, <1>39, <1>k
  DEF Step, Event

\* The constructor of a transport keeps the data well typed.
LEMMA ConstructType ==
  ASSUME DataOK, NEW l \in Layers, made[l] < MaxOpens, NEW below \in [Layers -> Ptr],
         Construct(l, below)
  PROVE  /\ made' \in [Layers -> Ptr]
         /\ base' \in [Layers -> [Inst -> [Layers -> Ptr]]]
         /\ cb' \in [Layers -> [Inst -> BOOLEAN]]
         /\ rcv' \in [Layers -> [Inst -> Ptr]]
<1>0. made[l] \in Ptr
  BY DEF DataOK
<1>1. made[l] + 1 \in Inst /\ made[l] + 1 \in Ptr
  BY <1>0, NextInst
<1>2. 0 \in Ptr /\ 1 \in Ptr
  BY ConstantsAssumption DEF Ptr
<1> QED
  BY <1>1, <1>2 DEF DataOK, Construct

\* Every action keeps the data well typed.
LEMMA ThreadData ==
  ASSUME TypeOK, NEW t \in Threads, Step(t) \/ Event(t) \/ AppCall(t)
  PROVE  DataOK'
<1> DEFINE f == top[t]
<1>a. ControlOK /\ DataOK
  BY TypeParts
<1>b. /\ f.pc \in PCs /\ f.l \in Layers /\ f.n \in Ptr /\ f.s \in TStates
      /\ f.pc \in NeedsTransport => f.n \in Inst
  BY <1>a, TopType, Layering
<1>c. UNCHANGED data => DataOK'
  BY <1>a DEF DataOK, data, wsVars, trVars, taskVars
<1>d. /\ "ws" \in Layers /\ "tls" \in Layers /\ "proxy" \in Layers /\ "tcp" \in Layers
      /\ 0 \in Ptr /\ NoPtrs \in [Layers -> Ptr]
  BY Layering DEF Layers, NoPtrs
<1> USE DEF wsVars, trVars, taskVars
<1>1. CASE \/ Open1(t) \/ InitTransport1(t) \/ EmplaceCheck(t) \/ Close1(t) \/ Close3(t)
           \/ RemoteClose2(t) \/ StateCallback(t) \/ IfConnecting(t) \/ WsOpen1(t)
           \/ WsClose1(t) \/ UserReturn(t)
  BY <1>1, <1>c DEF Open1, InitTransport1, EmplaceCheck, Close1, Close3, RemoteClose2,
     StateCallback, IfConnecting, WsOpen1, WsClose1, UserReturn, Test
<1>2. CASE Open2(t)
  BY <1>2, <1>a, ConstantsAssumption DEF Open2, DataOK, Ptr, States
<1>3. CASE SetTcpTransport(t)
  <2>1. CASE UNCHANGED <<trVars, connTimers>>
    BY <1>3, <2>1, <1>a DEF SetTcpTransport, DataOK
  <2>2. CASE /\ made["tcp"] < MaxOpens /\ Construct("tcp", NoPtrs)
             /\ connTimers' = IF ConnectionTimer THEN connTimers \cup {gen} ELSE connTimers
    <3>1. /\ made' \in [Layers -> Ptr]
          /\ base' \in [Layers -> [Inst -> [Layers -> Ptr]]]
          /\ cb' \in [Layers -> [Inst -> BOOLEAN]]
          /\ rcv' \in [Layers -> [Inst -> Ptr]]
      BY <2>2, <1>a, <1>d, ConstructType
    <3> QED
      BY <1>3, <2>2, <3>1, <1>a DEF SetTcpTransport, DataOK, Construct
  <2> QED
    BY <1>3, <2>1, <2>2 DEF SetTcpTransport
<1>4. CASE InitTransport2(t)
  <2> DEFINE lo == Lower(f.l)
             m == mem[lo]
  <2>1. CASE UNCHANGED trVars
    BY <1>4, <2>1, <1>a, ZenonT(40) DEF InitTransport2, DataOK
  <2>2. CASE m # 0 /\ made[f.l] < MaxOpens /\ Construct(f.l, [base[lo][m] EXCEPT ![lo] = m])
    <3>1. lo \in Layers /\ m \in Inst /\ m \in Ptr
      BY <2>2, <1>a, <1>b, Layering DEF DataOK
    <3>2. [base[lo][m] EXCEPT ![lo] = m] \in [Layers -> Ptr]
      BY <3>1, <1>a DEF DataOK
    <3>3. /\ made' \in [Layers -> Ptr]
          /\ base' \in [Layers -> [Inst -> [Layers -> Ptr]]]
          /\ cb' \in [Layers -> [Inst -> BOOLEAN]]
          /\ rcv' \in [Layers -> [Inst -> Ptr]]
      BY <2>2, <3>2, <1>a, <1>b, ConstructType
    <3> QED
      BY <1>4, <2>2, <3>3, <1>a DEF InitTransport2, DataOK, Construct
  <2> QED
    BY <1>4, <2>1, <2>2 DEF InitTransport2
<1>5. CASE EmplaceStore(t) \/ EmplaceUndo(t)
  <2>1. mem' = [mem EXCEPT ![f.l] = f.n] \/ mem' = [mem EXCEPT ![f.l] = 0]
    BY <1>5 DEF EmplaceStore, EmplaceUndo
  <2>a. 0 \in Ptr /\ mem \in [Layers -> Ptr]
    BY <1>a, ConstantsAssumption DEF DataOK, Ptr
  <2>2. mem' \in [Layers -> Ptr]
    BY <2>1, <2>a, <1>b
  <2>3. UNCHANGED <<state, gen, closedCb, trVars, taskVars, got>>
    BY <1>5, ZenonT(40) DEF EmplaceStore, EmplaceUndo
  <2> QED
    BY <2>2, <2>3, <1>a DEF DataOK
<1>6. CASE EmplaceStart(t)
  <2>1. tst' \in [Layers -> [Inst -> TStates]]
    BY <1>6, <1>a DEF EmplaceStart, DataOK, TStates
  <2>2. rcv' \in [Layers -> [Inst -> Ptr]]
    <3> DEFINE lo == Lower(f.l)
               m == base[f.l][f.n][lo]
    <3>1. rcv' = rcv \/ rcv' = [rcv EXCEPT ![lo][m] = f.n]
      BY <1>6 DEF EmplaceStart
    <3>2. [rcv EXCEPT ![lo][m] = f.n] \in [Layers -> [Inst -> Ptr]]
      BY <1>a, <1>b, Except2 DEF DataOK
    <3> QED
      BY <3>1, <3>2, <1>a DEF DataOK
  <2> QED
    BY <1>6, <2>1, <2>2, <1>a, ZenonT(40) DEF EmplaceStart, DataOK
<1>7. CASE Close2(t) \/ CloseTransports(t) \/ WsOpen2(t)
  BY <1>7, <1>a DEF Close2, CloseTransports, WsOpen2, DataOK, States
<1>8. CASE Exchange(t)
  <2>1. got' \in [Threads -> [Layers -> Ptr]] /\ mem' \in [Layers -> Ptr]
    BY <1>8, <1>a, <1>b, <1>d DEF Exchange, DataOK
  <2> QED
    BY <1>8, <2>1, <1>a DEF Exchange, DataOK
<1>9. CASE DetachRecv(t)
  BY <1>9, <1>a, <1>d DEF DetachRecv, DataOK
<1>10. CASE DetachState(t)
  BY <1>10, <1>a DEF DetachState, DataOK
<1>11. CASE EnqueueTearDown(t)
  <2>1. [tr |-> got[t], by |-> t] \in [tr : [Layers -> Ptr], by : Threads]
    BY <1>a DEF DataOK
  <2>2. teardown' \in Seq([tr : [Layers -> Ptr], by : Threads])
    BY <1>11, <2>1, <1>a DEF EnqueueTearDown, DataOK
  <2>3. got' \in [Threads -> [Layers -> Ptr]]
    BY <1>11, <1>a, <1>d DEF EnqueueTearDown, DataOK
  <2>4. closedCb' \in [Ptr -> 0 .. 2]
    <3>1. gen \in Ptr /\ closedCb[gen] \in 0 .. 2 /\ closedCb \in [Ptr -> 0 .. 2]
      BY <1>a DEF DataOK
    <3>2. (IF closedCb[gen] < 2 THEN closedCb[gen] + 1 ELSE closedCb[gen]) \in 0 .. 2
      BY <3>1
    <3>3. closedCb' = [closedCb EXCEPT ![gen] =
                         IF closedCb[gen] < 2 THEN closedCb[gen] + 1 ELSE closedCb[gen]]
      BY <1>11 DEF EnqueueTearDown
    <3> QED
      BY <3>1, <3>2, <3>3
  <2> QED
    BY <1>11, <2>2, <2>3, <2>4, <1>a DEF EnqueueTearDown, DataOK
<1>12. CASE ChangeState(t)
  BY <1>12, <1>a, <1>b DEF ChangeState, DataOK
<1>13. CASE RecvNull(t)
  <2>1. f.n \in Inst
    BY <1>13, <1>b DEF RecvNull, At, NeedsTransport, Running
  <2>2. rcv[f.l][f.n] \in Ptr
    BY <2>1, <1>a, <1>b, SMTT(40) DEF DataOK
  <2> QED
    BY <1>13, <2>2, <1>a, ZenonT(40) DEF RecvNull, DataOK
<1>14. CASE Stop(t)
  <2>1. rcv' \in [Layers -> [Inst -> Ptr]]
    <3> DEFINE lo == Lower(f.l)
               m == base[f.l][f.n][lo]
    <3>1. rcv' = rcv \/ rcv' = [rcv EXCEPT ![lo][m] = 0]
      BY <1>14 DEF Stop
    <3>2. [rcv EXCEPT ![lo][m] = 0] \in [Layers -> [Inst -> Ptr]]
      BY <1>a, <1>d, Except2, ZenonT(60) DEF DataOK
    <3> QED
      BY <3>1, <3>2, <1>a DEF DataOK
  <2> QED
    BY <1>14, <2>1, <1>a, <1>b, ZenonT(40) DEF Stop, DataOK
<1>15. CASE WsClose2(t)
  BY <1>15, <1>a, <1>b DEF WsClose2, DataOK
<1>16. CASE Drop(t)
  <2>1. rcv' \in [Layers -> [Inst -> Ptr]]
    <3> DEFINE lo == Lower(f.l)
               m == base[f.l][f.n][lo]
    <3>1. rcv' = rcv \/ rcv' = [rcv EXCEPT ![lo][m] = 0]
      BY <1>16, ZenonT(40) DEF Drop
    <3>2. [rcv EXCEPT ![lo][m] = 0] \in [Layers -> [Inst -> Ptr]]
      BY <1>a, <1>d, Except2, ZenonT(60) DEF DataOK
    <3> QED
      BY <3>1, <3>2, <1>a DEF DataOK
  <2>2. closeTimers' \subseteq Ptr
    BY <1>16, <1>a, ZenonT(40) DEF Drop, DataOK
  <2> QED
    BY <1>16, <2>1, <2>2, <1>a, ZenonT(40) DEF Drop, DataOK
<1>17. CASE TearDownReset(t)
  <2> DEFINE lo == Lower(f.l)
             n == Head(teardown).tr[f.l]
             m == base[f.l][n][lo]
  <2>1. n \in Ptr
    <3>0. teardown # <<>> /\ teardown \in Seq([tr : [Layers -> Ptr], by : Threads])
      BY <1>17, <1>a, ZenonT(40) DEF TearDownReset, DataOK
    <3>1. Head(teardown) \in [tr : [Layers -> Ptr], by : Threads]
      BY <3>0, HeadTail
    <3> QED
      BY <3>1, <1>b
  <2>2. n # 0 => m \in Ptr
    <3>1. base \in [Layers -> [Inst -> [Layers -> Ptr]]]
      BY <1>a, ZenonT(40) DEF DataOK
    <3> QED
      BY <2>1, <3>1, <1>b, Layering, SMTT(40)
  <2>3. rcv' \in [Layers -> [Inst -> Ptr]]
    <3>1. rcv' = rcv \/ rcv' = [rcv EXCEPT ![lo][m] = 0]
      BY <1>17, ZenonT(40) DEF TearDownReset
    <3>2. [rcv EXCEPT ![lo][m] = 0] \in [Layers -> [Inst -> Ptr]]
      BY <1>a, <1>d, Except2, ZenonT(60) DEF DataOK
    <3> QED
      BY <3>1, <3>2, <1>a DEF DataOK
  <2>4. halted' \subseteq Ptr /\ closeTimers' \subseteq Ptr
    BY <1>17, <2>2, <1>a, ZenonT(40) DEF TearDownReset, DataOK
  <2> QED
    BY <1>17, <2>3, <2>4, <1>a, ZenonT(40) DEF TearDownReset, DataOK
<1>24. CASE TearDownEnd(t)
  <2>1. teardown' \in Seq([tr : [Layers -> Ptr], by : Threads])
    BY <1>24, <1>a, HeadTail, SMTT(40) DEF TearDownEnd, DataOK
  <2>2. tst' \in [Layers -> [Inst -> TStates]]
    BY <1>24, <1>a, Except2 DEF TearDownEnd, DataOK, TStates
  <2> QED
    BY <1>24, <2>1, <2>2, <1>a, ZenonT(40) DEF TearDownEnd, DataOK
<1>25. CASE Broken(t)
  BY <1>25, <1>c DEF Broken
<1>18. ASSUME NEW n \in Inst, TcpConnect(t, n) \/ TcpLost(t, n)
       PROVE  DataOK'
  BY <1>18, <1>c DEF TcpConnect, TcpLost
<1>19. ASSUME NEW n \in Inst, CloseTimeout(t, n)
       PROVE  DataOK'
  BY <1>19, <1>a DEF CloseTimeout, DataOK
<1>20. ASSUME NEW l \in Layers, NEW n \in Inst, Incoming(t, l, n)
       PROVE  DataOK'
  BY <1>20, <1>c DEF Incoming
<1>21. ASSUME NEW g \in Ptr, ConnectionTimeout(t, g)
       PROVE  DataOK'
  BY <1>21, <1>a DEF ConnectionTimeout, DataOK
<1>22. CASE TearDown(t)
  BY <1>22, <1>c DEF TearDown
<1>23. CASE AppCall(t)
  BY <1>23, <1>a, ConstantsAssumption DEF AppCall, DataOK, Ptr
<1> QED
  BY <1>1, <1>2, <1>3, <1>4, <1>5, <1>6, <1>7, <1>8, <1>9, <1>10, <1>11, <1>12, <1>13,
     <1>14, <1>15, <1>16, <1>17, <1>18, <1>19, <1>20, <1>21, <1>22, <1>23, <1>24, <1>25
  DEF Step, Event

\* The variables of the WebSocket, its transports and its threads always have
\* the types of the members and locals they stand for; in particular no code
\* of a transport runs without a transport.
THEOREM TypeCorrect == Spec => []TypeOK
<1>1. Init => TypeOK
  <2> SUFFICES ASSUME Init PROVE TypeOK
    OBVIOUS
  <2>1. ControlOK
    BY IdleType DEF Init, ControlOK
  <2>2. DataOK
    BY Layering, ConstantsAssumption DEF Init, DataOK, States, TStates, NoPtrs, Ptr
  <2> QED
    BY <2>1, <2>2, TypeParts
<1>2. TypeOK /\ [Next]_vars => TypeOK'
  <2> SUFFICES ASSUME TypeOK, [Next]_vars PROVE TypeOK'
    OBVIOUS
  <2>1. CASE UNCHANGED vars
    BY <2>1 DEF vars, data, wsVars, trVars, taskVars, TypeOK
  <2>2. ASSUME NEW t \in Threads, Step(t) \/ Event(t) \/ AppCall(t)
        PROVE  TypeOK'
    <3>1. ControlOK' /\ DataOK'
      BY <2>2, TypeParts, ThreadMoves, ThreadData, MovesType
    <3> QED
      BY <3>1 DEF TypeOK, ControlOK, DataOK
  <2> QED
    BY <2>1, <2>2 DEF Next, Done
<1> QED
  BY <1>1, <1>2, PTL DEF Spec

-----------------------------------------------------------------------------
(* No transport outlives its WebSocket                                     *)

\* A step keeps the frames of all stacks, but for the one that is executed and
\* the mutexes.
LEMMA MovesKeep ==
  ASSUME ControlOK, NEW t \in Threads, Moves(t), NEW u \in Threads, NEW f \in Frames(u),
         f.pc \notin LockPCs, u # t \/ f # top[t]
  PROVE  f \in Frames(u)'
<1>a. \A v \in Threads : ret[v] \in Seq(RetFrame)
  BY DEF ControlOK
<1>b. \A v \in Threads : f \in Frames(v) => f = top[v] \/ \E i \in 1 .. Len(ret[v]) : f = ret[v][i]
  BY DEF Frames
<1>0. /\ \A v \in Threads : ret[v] \in Seq(RetFrame) /\ Len(ret[v]) \in Nat
      /\ \A v \in Threads : f \in Frames(v) => f = top[v] \/ \E i \in 1 .. Len(ret[v]) : f = ret[v][i]
  BY <1>a, <1>b
<1>1. CASE UNCHANGED <<top, ret>>
  BY <1>1 DEF Frames
<1>2. CASE u # t
  <2>1. top'[u] = top[u] /\ ret'[u] = ret[u]
    BY <1>1, <1>2, GotoControl, ReturnControl DEF Moves
  <2> QED
    BY <2>1 DEF Frames
<1>3. CASE u = t
  <2>1. PICK i \in 1 .. Len(ret[t]) : f = ret[t][i]
    BY <1>0, <1>3
  <2>2. ASSUME NEW g \in TopFrame, NEW ks \in Seq(Pushed), Goto(t, g, ks)
        PROVE  f \in Frames(u)'
    <3>1. ret'[t] = ks \o ret[t]
      BY <2>2, GotoControl
    <3>2. /\ Len(ks) \in Nat /\ Len(ret'[t]) = Len(ks) + Len(ret[t])
          /\ ret'[t][Len(ks) + i] = ret[t][i]
      BY <3>1, <1>0
    <3>3. Len(ks) + i \in 1 .. Len(ret'[t])
      BY <3>2, <1>0
    <3> QED
      BY <2>1, <3>2, <3>3, <1>3 DEF Frames
  <2>3. CASE Return(t)
    <3>1. PICK k \in 1 .. Len(ret[t]) :
             /\ top'[t] = ret[t][k] /\ ret'[t] = SubSeq(ret[t], k + 1, Len(ret[t]))
             /\ \A j \in 1 .. k - 1 : ret[t][j].pc \in LockPCs
      BY <2>1, <2>3, ReturnControl
    <3>2. CASE i = k
      BY <3>1, <3>2, <2>1, <1>3 DEF Frames
    <3>3. CASE i > k
      <4>1. Len(ret'[t]) = Len(ret[t]) - k /\ ret'[t][i - k] = ret[t][i]
        BY <3>1, <3>3, <1>0
      <4>2. i - k \in 1 .. Len(ret'[t])
        BY <4>1, <3>3, <1>0
      <4> QED
        BY <4>1, <4>2, <2>1, <1>3 DEF Frames
    <3>4. CASE i < k
      <4>1. i \in 1 .. k - 1
        BY <3>4, <1>0
      <4> QED
        BY <4>1, <3>1, <2>1
    <3> QED
      BY <3>2, <3>3, <3>4, <1>0
  <2> QED
    BY <1>1, <2>2, <2>3 DEF Moves
<1> QED
  BY <1>2, <1>3

\* The frames whose thread is about to clear a member.
ClearPCs == {"exchange", "empStart", "empChk", "empNull", "empThrow"}

LEMMA PendingKept ==
  ASSUME ControlOK, NEW t \in Threads, Moves(t), NEW u \in Threads, NEW l \in Closable,
         Pending(u, l), ~Clears(top[t], l)
  PROVE  Pending(u, l)'
<1>1. PICK f \in Frames(u) : Clears(f, l)
  BY DEF Pending
<1>2. f.pc \notin LockPCs
  BY <1>1 DEF Clears, LockPCs
<1>3. f \in Frames(u)'
  BY <1>1, <1>2, MovesKeep
<1> QED
  BY <1>1, <1>3 DEF Pending

\* A step that neither sets a member, nor closes, nor gives up clearing.
LEMMA QuietStep ==
  ASSUME TypeOK, NoOrphan, NEW t \in Threads, Moves(t), top[t].pc \notin ClearPCs,
         mem' = mem, state' = "Closed" => state = "Closed"
  PROVE  NoOrphan'
<1>1. ControlOK
  BY TypeParts
<1>2. SUFFICES ASSUME NEW l \in Closable, state' = "Closed", mem'[l] # 0
               PROVE  \E u \in Threads : Pending(u, l)'
  BY DEF NoOrphan
<1>3. PICK u \in Threads : Pending(u, l)
  BY <1>2 DEF NoOrphan
<1>4. ~Clears(top[t], l)
  BY DEF Clears, ClearPCs
<1> QED
  BY <1>1, <1>3, <1>4, PendingKept

\* While the state is Closed a member of the WebSocket that is still set is
\* about to be cleared, by closeTransports() or by emplaceTransport().
THEOREM NoTransportIsOrphaned == Spec => []NoOrphan
<1>1. Init => NoOrphan
  BY DEF Init, NoOrphan, NoPtrs, Closable, Layers
<1>2. TypeOK /\ NoOrphan /\ [Next]_vars => NoOrphan'
  <2> SUFFICES ASSUME TypeOK, NoOrphan, [Next]_vars PROVE NoOrphan'
    OBVIOUS
  <2>1. CASE UNCHANGED vars
    BY <2>1 DEF vars, data, wsVars, NoOrphan, Pending, Frames
  <2>2. ASSUME NEW t \in Threads, Step(t) \/ Event(t) \/ AppCall(t)
        PROVE  NoOrphan'
    <3> DEFINE f == top[t]
    <3>a. Moves(t) /\ ControlOK /\ DataOK
      BY <2>2, ThreadMoves, TypeParts
    <3>b. ASSUME NEW l \in Closable, NEW u \in Threads, Pending(u, l), ~Clears(f, l)
          PROVE  Pending(u, l)'
      BY <3>a, <3>b, PendingKept
    <3>c. \A l \in Closable : l \in Layers
      BY DEF Closable, Layers
    <3>d. mem \in [Layers -> Ptr] /\ f.l \in Layers
      BY <3>a, TopType DEF DataOK
    <3>e. ASSUME NEW l \in Closable, NEW g, g \in Frames(t)', Clears(g, l)
          PROVE  \E u \in Threads : Pending(u, l)'
      BY <3>e DEF Pending
    <3> HIDE DEF f
    <3> USE DEF wsVars
    <3>1. CASE EmplaceStore(t)
      <4> SUFFICES ASSUME NEW l \in Closable, state' = "Closed", mem'[l] # 0
                   PROVE  \E u \in Threads : Pending(u, l)'
        BY DEF NoOrphan
      <4>1. CASE l = f.l
        <5> DEFINE g == FrT("empStart", f.l, f.n)
        <5>1. g \in Frames(t)'
          <6>1. CASE mem[f.l] = 0
            <7>1. top'[t] = g
              BY <3>1, <3>a, <6>1 DEF EmplaceStore, Goto, ControlOK, f
            <7> QED
              BY <7>1 DEF Frames
          <6>2. CASE mem[f.l] # 0
            <7>1. ret'[t] = <<g>> \o ret[t]
              BY <3>1, <3>a, <6>2 DEF EmplaceStore, Goto, ControlOK, f
            <7>2. ret'[t][1] = g /\ 1 \in 1 .. Len(ret'[t])
              BY <7>1, <3>a DEF ControlOK
            <7> QED
              BY <7>2 DEF Frames
          <6> QED
            BY <6>1, <6>2
        <5>2. Clears(g, l)
          BY <4>1 DEF Clears, FrT, FrS
        <5> QED
          BY <5>1, <5>2, <3>e
      <4>2. CASE l # f.l
        <5>1. mem[l] # 0 /\ state = "Closed"
          BY <4>2, <3>1, <3>c, <3>d DEF EmplaceStore, f
        <5>2. PICK u \in Threads : Pending(u, l)
          BY <5>1 DEF NoOrphan
        <5>3. ~Clears(f, l)
          BY <3>1 DEF EmplaceStore, At, Clears, f
        <5> QED
          BY <5>2, <5>3, <3>b
      <4> QED
        BY <4>1, <4>2
    <3>2. CASE EmplaceStart(t) \/ EmplaceCheck(t)
      <4> SUFFICES ASSUME NEW l \in Closable, state' = "Closed", mem'[l] # 0
                   PROVE  \E u \in Threads : Pending(u, l)'
        BY DEF NoOrphan
      <4>1. mem[l] # 0 /\ state = "Closed"
        BY <3>2 DEF EmplaceStart, EmplaceCheck, data
      <4>2. PICK u \in Threads : Pending(u, l)
        BY <4>1 DEF NoOrphan
      <4>3. CASE Clears(f, l)
        <5>1. l = f.l
          BY <3>2, <4>3 DEF EmplaceStart, EmplaceCheck, At, Clears, f
        <5>2. \E p \in {"empChk", "empThrow", "empNull"} : top'[t] = FrT(p, f.l, f.n)
          BY <3>2, <3>a, <4>1 DEF EmplaceStart, EmplaceCheck, Goto, ControlOK, f
        <5>3. top'[t] \in Frames(t)' /\ Clears(top'[t], l)
          BY <5>1, <5>2 DEF Clears, FrT, FrS, Frames
        <5> QED
          BY <5>3, <3>e
      <4>4. CASE ~Clears(f, l)
        BY <4>2, <4>4, <3>b
      <4> QED
        BY <4>3, <4>4, ZenonT(40)
    <3>3. CASE EmplaceUndo(t)
      <4> SUFFICES ASSUME NEW l \in Closable, state' = "Closed", mem'[l] # 0
                   PROVE  \E u \in Threads : Pending(u, l)'
        BY DEF NoOrphan
      <4>1. l # f.l /\ mem[l] # 0 /\ state = "Closed"
        BY <3>3, <3>c, <3>d DEF EmplaceUndo, f
      <4>2. PICK u \in Threads : Pending(u, l)
        BY <4>1 DEF NoOrphan
      <4>3. ~Clears(f, l)
        BY <3>3, <4>1 DEF EmplaceUndo, At, Clears, f
      <4> QED
        BY <4>2, <4>3, <3>b
    <3>4. CASE CloseTransports(t)
      <4>1. CASE state = "Closed"
        <5>1. top[t].pc \notin ClearPCs /\ mem' = mem
          BY <3>4 DEF CloseTransports, At, ClearPCs
        <5> QED
          BY <4>1, <5>1, <3>a, QuietStep
      <4>2. CASE state # "Closed"
        <5>1. top'[t] = FrT("exchange", "ws", 0)
          BY <3>4, <3>a, <4>2 DEF CloseTransports, Goto, ControlOK
        <5>2. top'[t] \in Frames(t)' /\ \A l \in Closable : Clears(top'[t], l)
          BY <5>1 DEF Frames, Clears, FrT, FrS
        <5> QED
          BY <5>2, <3>e DEF NoOrphan
      <4> QED
        BY <4>1, <4>2
    <3>5. CASE Exchange(t)
      <4> SUFFICES ASSUME NEW l \in Closable, state' = "Closed", mem'[l] # 0
                   PROVE  \E u \in Threads : Pending(u, l)'
        BY DEF NoOrphan
      <4>1. l # f.l /\ mem[l] # 0 /\ state = "Closed"
        BY <3>5, <3>c, <3>d DEF Exchange, f
      <4>2. PICK u \in Threads : Pending(u, l)
        BY <4>1 DEF NoOrphan
      <4>3. CASE Clears(f, l)
        <5>1. f.l # "tcp" /\ l \in (IF f.l = "ws" THEN {"tls", "tcp"} ELSE {"tcp"})
          BY <3>5, <4>1, <4>3 DEF Exchange, At, Clears, Closable, f
        <5>2. top'[t] = FrT("exchange", After(f.l), 0)
          BY <3>5, <3>a, <5>1 DEF Exchange, Goto, ControlOK, f
        <5>3. top'[t] \in Frames(t)' /\ Clears(top'[t], l)
          BY <5>1, <5>2 DEF Clears, FrT, FrS, Frames, After, Closable
        <5> QED
          BY <5>3, <3>e
      <4>4. CASE ~Clears(f, l)
        BY <4>2, <4>4, <3>b
      <4> QED
        BY <4>3, <4>4
    <3>6. CASE \/ Open1(t) \/ Open2(t) \/ SetTcpTransport(t) \/ InitTransport1(t) \/ InitTransport2(t)
               \/ Close1(t) \/ Close2(t) \/ Close3(t) \/ RemoteClose2(t)
               \/ DetachRecv(t) \/ DetachState(t) \/ EnqueueTearDown(t)
      <4>1. top[t].pc \notin ClearPCs
        BY <3>6, ZenonT(40) DEF Open1, Open2, SetTcpTransport, InitTransport1, InitTransport2, Close1, Close2, Close3,
           RemoteClose2, DetachRecv, DetachState, EnqueueTearDown, Test, At, ClearPCs
      <4>2. mem' = mem /\ (state' = "Closed" => state = "Closed")
        BY <3>6, ZenonT(40) DEF Open1, Open2, SetTcpTransport, InitTransport1, InitTransport2, Close1, Close2, Close3,
           RemoteClose2, DetachRecv, DetachState, EnqueueTearDown, Test, data
      <4> QED
        BY <4>1, <4>2, <3>a, QuietStep, ZenonT(40)
    <3>7. CASE \/ ChangeState(t) \/ StateCallback(t) \/ IfConnecting(t) \/ WsOpen1(t) \/ WsOpen2(t)
               \/ Broken(t) \/ RecvNull(t) \/ Stop(t) \/ WsClose1(t) \/ WsClose2(t) \/ Drop(t)
               \/ UserReturn(t) \/ TearDownReset(t) \/ TearDownEnd(t) \/ AppCall(t)
      <4>1. top[t].pc \notin ClearPCs
        BY <3>7, ZenonT(40) DEF ChangeState, StateCallback, IfConnecting, WsOpen1, WsOpen2, Broken, RecvNull, Stop, WsClose1,
           WsClose2, Drop, UserReturn, TearDownReset, TearDownEnd, AppCall, Test, At, ClearPCs
      <4>2. mem' = mem /\ (state' = "Closed" => state = "Closed")
        BY <3>7, ZenonT(40) DEF ChangeState, StateCallback, IfConnecting, WsOpen1, WsOpen2, Broken, RecvNull, Stop, WsClose1,
           WsClose2, Drop, UserReturn, TearDownReset, TearDownEnd, AppCall, Test, data
      <4> QED
        BY <4>1, <4>2, <3>a, QuietStep
    <3>8. CASE Event(t)
      <4>1. top[t].pc \notin ClearPCs /\ mem' = mem /\ state' = state
        BY <3>8 DEF Event, TcpConnect, TcpLost, CloseTimeout, Incoming, ConnectionTimeout, TearDown,
           At, ClearPCs, data
      <4> QED
        BY <4>1, <3>a, QuietStep, ZenonT(40)
    <3> QED
      BY <2>2, <3>1, <3>2, <3>3, <3>4, <3>5, <3>6, <3>7, <3>8 DEF Step
  <2> QED
    BY <2>1, <2>2 DEF Next, Done
<1> QED
  BY <1>1, <1>2, TypeCorrect, PTL DEF Spec

-----------------------------------------------------------------------------
(* A transport has one owner                                               *)

\* Thread t has constructed transport (l, n) and not yet stored it.
Storing(t, l, n) == top[t].pc = "empStore" /\ top[t].l = l /\ top[t].n = n

\* What makes SingleOwner inductive: whoever is owned or about to be stored
\* was constructed, and what is about to be stored has no owner yet.
Fresh ==
  \A l \in Closable, n \in Inst :
    /\ Owned(l, n) => n <= made[l]
    /\ \A t \in Threads : Storing(t, l, n) =>
         /\ n <= made[l] /\ ~Owned(l, n)
         /\ \A u \in Threads : Storing(u, l, n) => t = u

LEMMA CalmTop ==
  ASSUME ControlOK, NEW t \in Threads, Calm(t), NEW u \in Threads, top'[u].pc \in Tracked
  PROVE  top'[u] = top[u]
<1>1. CASE UNCHANGED <<top, ret>>
  BY <1>1
<1>2. ASSUME NEW f \in OtherFrame, NEW ks \in Seq(Pushed), Goto(t, f, ks)
      PROVE  top'[u] = top[u]
  BY <1>2, GotoControl DEF OtherFrame
<1>3. CASE Return(t)
  <2>1. Idle.pc \notin Tracked
    BY DEF Idle, Fr, FrT, FrS, Tracked
  <2>2. \A k \in 1 .. Len(ret[t]) : ret[t][k].pc \notin Tracked
    <3>1. \A k \in 1 .. Len(ret[t]) : ret[t][k] \in RetFrame
      BY DEF ControlOK
    <3> QED
      BY <3>1 DEF RetFrame, ReturnPCs, LockPCs, Tracked
  <2> QED
    BY <1>3, <2>1, <2>2, ReturnControl
<1> QED
  BY <1>1, <1>2, <1>3 DEF Calm

\* A step that constructs nothing and moves no pointer.
LEMMA OwnersKept ==
  ASSUME TypeOK, SingleOwner, Fresh, NEW t \in Threads, UNCHANGED <<mem, got, teardown, made>>,
         \A u \in Threads : top'[u].pc = "empStore" => top'[u] = top[u]
  PROVE  SingleOwner' /\ Fresh'
<1>1. SingleOwner'
  BY DEF SingleOwner
<1>2. \A l \in Closable, n \in Inst : Owned(l, n)' <=> Owned(l, n)
  BY DEF Owned
<1>3. \A u \in Threads, l \in Closable, n \in Inst : Storing(u, l, n)' => Storing(u, l, n)
  BY DEF Storing
<1>4. Fresh'
  BY <1>2, <1>3 DEF Fresh
<1> QED
  BY <1>1, <1>4

\* SetTcpTransport and InitTransport2 construct.
LEMMA ConstructOwners ==
  ASSUME TypeOK, SingleOwner, Fresh, NEW t \in Threads, UNCHANGED <<mem, got, teardown>>,
         NEW k \in Layers, made' = [made EXCEPT ![k] = made[k] + 1],
         top' = [top EXCEPT ![t] = FrT("empStore", k, made[k] + 1)]
  PROVE  SingleOwner' /\ Fresh'
<1>1. SingleOwner'
  BY DEF SingleOwner
<1>2. \A l \in Closable, n \in Inst : Owned(l, n)' <=> Owned(l, n)
  BY DEF Owned
<1>3. \A l \in Closable : l \in Layers /\ made[l] \in Nat
  BY ConstantsAssumption, SMTT(40) DEF Closable, Layers, TypeOK, Ptr
<1>4. \A l \in Closable : made[l] <= made'[l] /\ (l # k => made'[l] = made[l]) /\ (l = k => made'[l] = made[l] + 1)
  BY <1>3 DEF TypeOK
<1>5. \A u \in Threads, l \in Closable, n \in Inst :
        Storing(u, l, n)' => Storing(u, l, n) \/ (u = t /\ l = k /\ n = made[k] + 1)
  BY DEF Storing, TypeOK, FrT, FrS
<1>6. \A l \in Closable, n \in Inst : n = made[l] + 1 => ~(n <= made[l])
  BY <1>3 DEF Inst
<1>7. \A l \in Closable, n \in Inst : n <= made[l] => n <= made'[l]
  BY <1>3, <1>4 DEF Inst
<1>8. ASSUME NEW l \in Closable, NEW n \in Inst
      PROVE  /\ Owned(l, n)' => n <= made'[l]
             /\ \A u \in Threads : Storing(u, l, n)' =>
                  /\ n <= made'[l] /\ ~Owned(l, n)'
                  /\ \A v \in Threads : Storing(v, l, n)' => u = v
  <2>1. CASE l = k /\ n = made[k] + 1
    <3>1. ~(n <= made[l]) /\ n <= made'[l]
      BY <2>1, <1>3, <1>4, <1>6 DEF Inst
    <3>2. ~Owned(l, n) /\ \A u \in Threads : ~Storing(u, l, n)
      BY <3>1 DEF Fresh
    <3> QED
      BY <3>1, <3>2, <1>2, <1>5
  <2>2. CASE ~(l = k /\ n = made[k] + 1)
    <3>1. \A u \in Threads : Storing(u, l, n)' => Storing(u, l, n)
      BY <2>2, <1>5
    <3> QED
      BY <3>1, <1>2, <1>7 DEF Fresh
  <2> QED
    BY <2>1, <2>2
<1> QED
  BY <1>1, <1>8 DEF Fresh

\* The next lemmas: the steps that move a pointer.
LEMMA StoreOwners ==
  ASSUME TypeOK, SingleOwner, Fresh, NEW t \in Threads, EmplaceStore(t)
  PROVE  SingleOwner' /\ Fresh'
<1> DEFINE k == top[t].l
           m == top[t].n
<1>0. mem' = [mem EXCEPT ![k] = m] /\ mem \in [Layers -> Ptr] /\ UNCHANGED <<got, teardown, made>>
  BY DEF EmplaceStore, TypeOK, trVars, taskVars
<1>1. \A u \in Threads, l \in Closable, n \in Inst : Storing(u, l, n)' => u # t /\ Storing(u, l, n)
  BY DEF Storing, EmplaceStore, Goto, TypeOK, FrT, FrS
<1>2. \A l \in Closable, n \in Inst : Owned(l, n)' => Owned(l, n) \/ Storing(t, l, n)
  BY <1>0 DEF Owned, Storing, EmplaceStore, At, Closable, Layers
<1>3. Fresh'
  <2>1. ASSUME NEW l \in Closable, NEW n \in Inst
        PROVE  /\ Owned(l, n)' => n <= made'[l]
               /\ \A u \in Threads : Storing(u, l, n)' =>
                    /\ n <= made'[l] /\ ~Owned(l, n)'
                    /\ \A v \in Threads : Storing(v, l, n)' => u = v
    BY <1>0, <1>1, <1>2 DEF Fresh
  <2> QED
    BY <2>1 DEF Fresh
<1>4. SingleOwner'
  <2>1. ASSUME NEW l \in Closable, NEW n \in Inst, mem'[l] = n, mem[l] # n
        PROVE  ~Owned(l, n)
    <3>1. Storing(t, l, n)
      BY <2>1, <1>0 DEF Storing, EmplaceStore, At
    <3> QED
      BY <3>1 DEF Fresh
  <2>2. \A l \in Closable, n \in Inst :
          /\ \A u \in Threads : got[u][l] = n => mem'[l] # n
          /\ \A i \in 1 .. Len(teardown) : teardown[i].tr[l] = n => mem'[l] # n
    BY <2>1 DEF SingleOwner, Owned
  <2> QED
    BY <1>0, <2>2 DEF SingleOwner
<1> QED
  BY <1>3, <1>4

LEMMA UndoOwners ==
  ASSUME TypeOK, SingleOwner, Fresh, NEW t \in Threads, Calm(t), EmplaceUndo(t)
  PROVE  SingleOwner' /\ Fresh'
<1>0. /\ mem' = [mem EXCEPT ![top[t].l] = 0] /\ mem \in [Layers -> Ptr]
      /\ UNCHANGED <<got, teardown, made>> /\ \A l \in Closable : l \in Layers
  BY DEF EmplaceUndo, TypeOK, trVars, taskVars, Closable, Layers
<1>1. \A u \in Threads, l \in Closable, n \in Inst : Storing(u, l, n)' => Storing(u, l, n)
  BY CalmTop, TypeParts DEF Storing, Tracked
<1>2. \A l \in Closable, n \in Inst : mem'[l] = n => mem[l] = n
  BY <1>0, Layering
<1>3. \A l \in Closable, n \in Inst : Owned(l, n)' => Owned(l, n)
  BY <1>0, <1>2 DEF Owned
<1>4. Fresh'
  BY <1>0, <1>1, <1>3 DEF Fresh
<1>5. SingleOwner'
  BY <1>0, <1>2 DEF SingleOwner
<1> QED
  BY <1>4, <1>5

LEMMA ExchangeOwners ==
  ASSUME TypeOK, SingleOwner, Fresh, NEW t \in Threads, Exchange(t)
  PROVE  SingleOwner' /\ Fresh'
<1> DEFINE k == top[t].l
<1>0. /\ mem' = [mem EXCEPT ![k] = 0] /\ mem \in [Layers -> Ptr]
      /\ got' = [got EXCEPT ![t][k] = mem[k]] /\ got \in [Threads -> [Layers -> Ptr]]
      /\ UNCHANGED <<teardown, made>> /\ \A l \in Closable : l \in Layers
  BY DEF Exchange, TypeOK, trVars, taskVars, Closable, Layers
<1>1. \A u \in Threads, l \in Closable, n \in Inst : Storing(u, l, n)' => Storing(u, l, n)
  BY DEF Storing, Exchange, Goto, TypeOK, Fr, FrT, FrS
<1>2. \A l \in Closable, n \in Inst : mem'[l] = n => mem[l] = n /\ l # k
  BY <1>0, Layering
<1>3. \A u \in Threads, l \in Closable, n \in Inst :
         got'[u][l] = n => IF u = t /\ l = k THEN mem[l] = n ELSE got[u][l] = n
  BY <1>0
<1>4. \A l \in Closable, n \in Inst : Owned(l, n)' => Owned(l, n)
  BY <1>0, <1>2, <1>3 DEF Owned
<1>5. Fresh'
  BY <1>0, <1>1, <1>4 DEF Fresh
<1>6. ASSUME NEW l \in Closable, NEW n \in Inst
      PROVE  /\ \A u \in Threads : got'[u][l] = n => mem'[l] # n
             /\ \A u, v \in Threads : got'[u][l] = n /\ got'[v][l] = n => u = v
             /\ \A i \in 1 .. Len(teardown) : teardown[i].tr[l] = n =>
                  mem'[l] # n /\ \A u \in Threads : got'[u][l] # n
  BY <1>2, <1>3 DEF SingleOwner
<1> QED
  BY <1>0, <1>5, <1>6 DEF SingleOwner

LEMMA EnqueueOwners ==
  ASSUME TypeOK, SingleOwner, Fresh, NEW t \in Threads, EnqueueTearDown(t)
  PROVE  SingleOwner' /\ Fresh'
<1> DEFINE L == Len(teardown)
<1>0. /\ got' = [got EXCEPT ![t] = NoPtrs] /\ got \in [Threads -> [Layers -> Ptr]]
      /\ UNCHANGED <<mem, made>> /\ \A l \in Closable : l \in Layers
  BY DEF EnqueueTearDown, TypeOK, trVars, taskVars, Closable, Layers
<1>1. /\ L \in Nat /\ Len(teardown') = L + 1
      /\ \A i \in 1 .. L : teardown'[i] = teardown[i]
      /\ teardown'[L + 1] = [tr |-> got[t], by |-> t]
  BY DEF EnqueueTearDown, TypeOK
<1>2. \A u \in Threads, l \in Closable, n \in Inst : Storing(u, l, n)' => Storing(u, l, n)
  BY DEF Storing, EnqueueTearDown, Goto, TypeOK, Fr, FrT, FrS
<1>3. \A u \in Threads, l \in Closable, n \in Inst : got'[u][l] = n => u # t /\ got[u][l] = n
  BY <1>0, Layering DEF NoPtrs
<1>4. \A i \in 1 .. L + 1, l \in Closable, n \in Inst :
        teardown'[i].tr[l] = n => \/ i \in 1 .. L /\ teardown[i].tr[l] = n
                                  \/ i = L + 1 /\ got[t][l] = n
  <2>1. \A i \in 1 .. L + 1 : i \in 1 .. L \/ i = L + 1
    BY <1>1
  <2> QED
    BY <1>1, <2>1, SMTT(40)
<1>5. \A l \in Closable, n \in Inst : Owned(l, n)' => Owned(l, n)
  BY <1>0, <1>1, <1>3, <1>4, SMTT(40) DEF Owned
<1>6. Fresh'
  BY <1>0, <1>2, <1>5 DEF Fresh
<1>7. ASSUME NEW l \in Closable, NEW n \in Inst
      PROVE  /\ \A u \in Threads : got'[u][l] = n => mem'[l] # n
             /\ \A u, v \in Threads : got'[u][l] = n /\ got'[v][l] = n => u = v
             /\ \A i \in 1 .. Len(teardown') : teardown'[i].tr[l] = n =>
                  /\ mem'[l] # n /\ \A u \in Threads : got'[u][l] # n
                  /\ \A j \in 1 .. Len(teardown') : teardown'[j].tr[l] = n => i = j
  <2>1. \A u \in Threads : got'[u][l] = n => mem'[l] # n
    BY <1>0, <1>3 DEF SingleOwner
  <2>2. \A u, v \in Threads : got'[u][l] = n /\ got'[v][l] = n => u = v
    BY <1>3 DEF SingleOwner
  <2>3. ASSUME NEW i \in 1 .. L + 1, teardown'[i].tr[l] = n
        PROVE  /\ mem'[l] # n /\ \A u \in Threads : got'[u][l] # n
               /\ \A j \in 1 .. L + 1 : teardown'[j].tr[l] = n => i = j
    <3>1. CASE i \in 1 .. L /\ teardown[i].tr[l] = n
      BY <3>1, <1>0, <1>3, <1>4 DEF SingleOwner
    <3>2. CASE i = L + 1 /\ got[t][l] = n
      BY <3>2, <1>0, <1>3, <1>4 DEF SingleOwner
    <3> QED
      BY <2>3, <3>1, <3>2, <1>4
  <2> QED
    BY <2>1, <2>2, <2>3, <1>1
<1> QED
  BY <1>6, <1>7 DEF SingleOwner

LEMMA ResetOwners ==
  ASSUME TypeOK, SingleOwner, Fresh, NEW t \in Threads, Calm(t), TearDownEnd(t)
  PROVE  SingleOwner' /\ Fresh'
<1> DEFINE L == Len(teardown)
<1>0. UNCHANGED <<mem, made, got>>
  BY DEF TearDownEnd, wsVars
<1>1. /\ L \in Nat /\ Len(teardown') = L - 1
      /\ \A i \in 1 .. L - 1 : teardown'[i] = teardown[i + 1] /\ i + 1 \in 1 .. L
  <2>1. teardown' = Tail(teardown) /\ teardown # <<>> /\ teardown \in Seq([tr : [Layers -> Ptr], by : Threads])
    BY DEF TearDownEnd, TypeOK
  <2> QED
    BY <2>1, SMTT(40)
<1>2. \A u \in Threads, l \in Closable, n \in Inst : Storing(u, l, n)' => Storing(u, l, n)
  BY CalmTop, TypeParts DEF Storing, Tracked
<1>3. \A l \in Closable, n \in Inst : Owned(l, n)' => Owned(l, n)
  BY <1>0, <1>1 DEF Owned
<1>4. Fresh'
  BY <1>0, <1>2, <1>3 DEF Fresh
<1>5. \A i, j \in 1 .. L - 1 : i + 1 = j + 1 => i = j
  BY <1>1
<1>6. ASSUME NEW l \in Closable, NEW n \in Inst, NEW i \in 1 .. L - 1, teardown'[i].tr[l] = n
      PROVE  /\ mem'[l] # n /\ \A u \in Threads : got'[u][l] # n
             /\ \A j \in 1 .. L - 1 : teardown'[j].tr[l] = n => i = j
  BY <1>0, <1>1, <1>5, <1>6, SMTT(40) DEF SingleOwner
<1>7. SingleOwner'
  BY <1>0, <1>1, <1>6 DEF SingleOwner
<1> QED
  BY <1>4, <1>7

LEMMA OwnersStep ==
  ASSUME TypeOK, SingleOwner, Fresh, NEW t \in Threads, Step(t) \/ Event(t) \/ AppCall(t)
  PROVE  SingleOwner' /\ Fresh'
<1>a. ControlOK /\ Moves(t)
  BY ThreadMoves, TypeParts
<1>b. ASSUME Calm(t), UNCHANGED <<mem, got, teardown, made>>
      PROVE  SingleOwner' /\ Fresh'
  BY <1>a, <1>b, CalmTop, OwnersKept DEF Tracked
<1> USE DEF wsVars, trVars, taskVars
<1>1. CASE SetTcpTransport(t)
  <2>1. CASE RemoteClose(t, <<>>) /\ UNCHANGED trVars
    <3>1. Calm(t) /\ UNCHANGED <<mem, got, teardown, made>>
      BY <1>1, <2>1, RemoteCloseCalm, PushedSeqs DEF SetTcpTransport
    <3> QED
      BY <3>1, <1>b
  <2>2. CASE Construct("tcp", NoPtrs) /\ Goto(t, FrT("empStore", "tcp", made["tcp"] + 1), <<>>)
    <3>1. "tcp" \in Layers
      BY DEF Layers
    <3> QED
      BY <1>1, <2>2, <3>1, ConstructOwners DEF SetTcpTransport, Construct, Goto
  <2> QED
    BY <1>1, <2>1, <2>2 DEF SetTcpTransport
<1>2. CASE InitTransport2(t)
  <2> DEFINE k == top[t].l
             below == [base[Lower(k)][mem[Lower(k)]] EXCEPT ![Lower(k)] = mem[Lower(k)]]
  <2>1. CASE RemoteClose(t, <<>>) /\ UNCHANGED trVars
    <3>1. Calm(t) /\ UNCHANGED <<mem, got, teardown, made>>
      BY <1>2, <2>1, RemoteCloseCalm, PushedSeqs DEF InitTransport2
    <3> QED
      BY <3>1, <1>b
  <2>2. CASE Construct(k, below) /\ Goto(t, FrT("empStore", k, made[k] + 1), <<>>)
    <3>1. k \in Layers
      BY <1>a, TopType
    <3> HIDE DEF below
    <3> QED
      BY <1>2, <2>2, <3>1, ConstructOwners DEF InitTransport2, Construct, Goto
  <2> QED
    BY <1>2, <2>1, <2>2 DEF InitTransport2
<1>3. CASE DetachRecv(t) \/ DetachState(t)
  <2>1. UNCHANGED <<mem, got, teardown, made>>
    BY <1>3 DEF DetachRecv, DetachState
  <2>2. \A u \in Threads : top'[u].pc = "empStore" => top'[u] = top[u]
    BY <1>3, <1>a DEF DetachRecv, DetachState, Goto, ControlOK, Fr, FrT, FrS
  <2> QED
    BY <2>1, <2>2, OwnersKept
<1>4. CASE Calm(t)
  <2>1. CASE EmplaceStore(t) \/ EmplaceUndo(t) \/ Exchange(t) \/ EnqueueTearDown(t) \/ TearDownEnd(t)
    BY <1>4, <2>1, StoreOwners, UndoOwners, ExchangeOwners, EnqueueOwners, ResetOwners
  <2>2. CASE \/ Open1(t) \/ Open2(t) \/ InitTransport1(t) \/ EmplaceStart(t) \/ EmplaceCheck(t)
             \/ Close1(t) \/ Close2(t) \/ Close3(t) \/ RemoteClose2(t) \/ CloseTransports(t)
             \/ ChangeState(t) \/ StateCallback(t) \/ IfConnecting(t) \/ WsOpen1(t) \/ WsOpen2(t)
             \/ Broken(t) \/ RecvNull(t) \/ Stop(t) \/ WsClose1(t) \/ WsClose2(t) \/ Drop(t)
             \/ UserReturn(t) \/ TearDownReset(t) \/ AppCall(t)
    <3>1. UNCHANGED <<mem, got, teardown, made>>
      BY <2>2, ZenonT(40) DEF Open1, Open2, InitTransport1, EmplaceStart, EmplaceCheck, Close1, Close2, Close3,
         RemoteClose2, CloseTransports, ChangeState, StateCallback, IfConnecting, WsOpen1, WsOpen2,
         Broken, RecvNull, Stop, WsClose1, WsClose2, Drop, UserReturn, TearDownReset, AppCall, Test,
         data, wsVars
    <3> QED
      BY <3>1, <1>4, <1>b, ZenonT(40)
  <2>3. CASE Event(t)
    <3>1. UNCHANGED <<mem, got, teardown, made>>
      BY <2>3 DEF Event, TcpConnect, TcpLost, CloseTimeout, Incoming, ConnectionTimeout, TearDown, data
    <3> QED
      BY <3>1, <1>4, <1>b
  <2> QED
    BY <1>1, <1>2, <1>3, <2>1, <2>2, <2>3 DEF Step
<1> QED
  BY <1>1, <1>2, <1>3, <1>4, ThreadMoves

LEMMA OwnersInductive == Spec => [](SingleOwner /\ Fresh)
<1>1. Init => SingleOwner /\ Fresh
  <2> SUFFICES ASSUME Init PROVE SingleOwner /\ Fresh
    OBVIOUS
  <2>1. \A l \in Closable, n \in Inst : ~Owned(l, n) /\ mem[l] # n /\ \A t \in Threads : got[t][l] # n
    BY Layering DEF Init, Owned, NoPtrs, Closable, Layers
  <2>2. \A t \in Threads, l \in Closable, n \in Inst : ~Storing(t, l, n)
    BY DEF Init, Storing, Idle, Fr, FrT, FrS
  <2>3. Len(teardown) = 0
    BY DEF Init
  <2> QED
    BY <2>1, <2>2, <2>3 DEF SingleOwner, Fresh
<1>2. TypeOK /\ SingleOwner /\ Fresh /\ [Next]_vars => SingleOwner' /\ Fresh'
  <2> SUFFICES ASSUME TypeOK, SingleOwner, Fresh, [Next]_vars PROVE SingleOwner' /\ Fresh'
    OBVIOUS
  <2>1. CASE UNCHANGED vars
    BY <2>1 DEF vars, data, wsVars, trVars, taskVars, SingleOwner, Fresh, Owned, Storing
  <2> QED
    BY <2>1, OwnersStep DEF Next, Done
<1> QED
  BY <1>1, <1>2, TypeCorrect, PTL DEF Spec

\* Whatever interleaving of open(), close() and callbacks: a transport is held
\* by the member, or by one thread in closeTransports(), or by one teardown
\* task, and never by two of them.
THEOREM TransportHasOneOwner == Spec => []SingleOwner
BY OwnersInductive, PTL

-----------------------------------------------------------------------------
(* A transport in teardown is silent                                       *)

\* Transport (l, n) no longer calls back, except in thread t.
Silent(t, l, n) == ~cb[l][n] /\ CallbackFree(t, l, n)

\* Thread t, in closeTransports(), has cleared the callback of layer l.
Cleared(t, l) ==
  \/ top[t].pc = "enqueue"
  \/ /\ top[t].pc = "detachState"
     /\ \/ l = "ws" /\ top[t].l # "ws"
        \/ l = "tls" /\ top[t].l \notin {"ws", "tls"}

\* What makes DetachedSilent inductive.
Clearing ==
  \A t \in Threads, l \in Closable :
    Cleared(t, l) /\ got[t][l] # 0 => Silent(t, l, got[t][l])

\* A callback's mutex is only ever taken while the callback is set.
LEMMA NewCallbacks ==
  ASSUME ControlOK, NEW t \in Threads, Moves(t), NEW u \in Threads, NEW f \in Frames(u)',
         f.pc = "cbEnd", f \notin Frames(u)
  PROVE  cb[f.l][f.n]
<1>1. ~UNCHANGED <<top, ret>>
  BY DEF Frames
<1>2. u = t
  <2>1. u # t => top'[u] = top[u] /\ ret'[u] = ret[u]
    BY <1>1, GotoControl, ReturnControl DEF Moves
  <2> QED
    BY <2>1 DEF Frames
<1>3. f # top'[t]
  BY <1>1, MovesType DEF ControlOK, TopFrame, LockPCs
<1>4. PICK i \in 1 .. Len(ret'[t]) : f = ret'[t][i]
  BY <1>2, <1>3 DEF Frames
<1>5. ret[t] \in Seq(RetFrame) /\ Len(ret[t]) \in Nat
  BY DEF ControlOK
<1>6. ~Return(t)
  <2> SUFFICES ASSUME Return(t) PROVE FALSE
    OBVIOUS
  <2>0. ret'[t] # <<>>
    BY <1>4
  <2>1. PICK k \in 1 .. Len(ret[t]) : ret'[t] = SubSeq(ret[t], k + 1, Len(ret[t]))
    BY <2>0, ReturnControl
  <2>2. ret'[t][i] = ret[t][k + i] /\ k + i \in 1 .. Len(ret[t])
    BY <2>1, <1>4, <1>5
  <2> QED
    BY <2>2, <1>2, <1>4 DEF Frames
<1>7. PICK g \in TopFrame, ks \in Seq(Pushed) : Goto(t, g, ks)
  BY <1>1, <1>6 DEF Moves
<1>8. ret'[t] = ks \o ret[t] /\ Len(ks) \in Nat
  BY <1>7, GotoControl
<1>9. CASE i \in 1 .. Len(ks)
  <2>1. f = ks[i] /\ ks[i] \in Pushed
    BY <1>4, <1>5, <1>8, <1>9
  <2> QED
    BY <2>1 DEF Pushed
<1>10. CASE i \notin 1 .. Len(ks)
  <2>1. f = ret[t][i - Len(ks)] /\ i - Len(ks) \in 1 .. Len(ret[t])
    BY <1>4, <1>5, <1>8, <1>10
  <2> QED
    BY <2>1, <1>2 DEF Frames
<1> QED
  BY <1>9, <1>10

\* Constructing sets the callback of a new transport, detaching clears one.
LEMMA CallbackChanges ==
  ASSUME TypeOK, NEW t \in Threads, Step(t) \/ Event(t) \/ AppCall(t)
  PROVE  \/ cb' = cb
         \/ \E k \in Layers : made[k] + 1 \in Inst /\ cb' = [cb EXCEPT ![k][made[k] + 1] = TRUE]
         \/ \E k \in Layers, m \in Inst : cb' = [cb EXCEPT ![k][m] = FALSE]
<1>a. ControlOK /\ DataOK /\ top[t].l \in Layers
  BY TypeParts, TopType, ZenonT(40)
<1> USE DEF wsVars, trVars, taskVars
<1>1. CASE \/ Open1(t) \/ Open2(t) \/ InitTransport1(t) \/ EmplaceStore(t) \/ EmplaceStart(t)
           \/ EmplaceCheck(t) \/ EmplaceUndo(t) \/ Close1(t) \/ Close2(t) \/ Close3(t)
           \/ RemoteClose2(t) \/ CloseTransports(t) \/ Exchange(t) \/ DetachRecv(t) \/ EnqueueTearDown(t)
  BY <1>1, ZenonT(40) DEF Open1, Open2, InitTransport1, EmplaceStore, EmplaceStart, EmplaceCheck, EmplaceUndo,
     Close1, Close2, Close3, RemoteClose2, CloseTransports, Exchange, DetachRecv, EnqueueTearDown,
     Test, data
<1>2. CASE \/ ChangeState(t) \/ StateCallback(t) \/ IfConnecting(t) \/ WsOpen1(t) \/ WsOpen2(t)
           \/ Broken(t) \/ RecvNull(t) \/ Stop(t) \/ WsClose1(t) \/ WsClose2(t) \/ Drop(t)
           \/ UserReturn(t) \/ TearDownReset(t) \/ TearDownEnd(t) \/ AppCall(t) \/ Event(t)
  BY <1>2, ZenonT(40) DEF ChangeState, StateCallback, IfConnecting, WsOpen1, WsOpen2, Broken, RecvNull, Stop, WsClose1,
     WsClose2, Drop, UserReturn, TearDownReset, TearDownEnd, AppCall, Event, TcpConnect, TcpLost, CloseTimeout,
     Incoming, ConnectionTimeout, TearDown, Test, data
<1>3. CASE SetTcpTransport(t)
  <2>1. "tcp" \in Layers /\ (made["tcp"] < MaxOpens => made["tcp"] + 1 \in Inst)
    <3>1. "tcp" \in Layers
      BY DEF Layers
    <3>2. made["tcp"] \in Ptr
      BY <3>1, <1>a DEF DataOK
    <3> QED
      BY <3>1, <3>2, ConstantsAssumption DEF Ptr, Inst
  <2> QED
    BY <1>3, <2>1 DEF SetTcpTransport, Construct
<1>4. CASE InitTransport2(t)
  <2>1. made[top[t].l] < MaxOpens => made[top[t].l] + 1 \in Inst
    BY <1>a, ConstantsAssumption, SMTT(40) DEF DataOK, Ptr, Inst
  <2> QED
    BY <1>4, <1>a, <2>1 DEF InitTransport2, Construct
<1>5. CASE DetachState(t)
  <2>1. got[t][top[t].l] # 0 => got[t][top[t].l] \in Inst
    BY <1>a, Layering DEF DataOK
  <2> QED
    BY <1>5, <1>a, <2>1 DEF DetachState
<1> QED
  BY <1>1, <1>2, <1>3, <1>4, <1>5 DEF Step

LEMMA SeqElement ==
  ASSUME NEW S, NEW q \in Seq(S), NEW i \in 1 .. Len(q)
  PROVE  q[i] \in S
OBVIOUS

\* Transport (l, n) is silent after the step.
SilentNext(t, l, n) ==
  ~cb'[l][n] /\ \A u \in Threads \ {t} : FrT("cbEnd", l, n) \notin Frames(u)'

\* What is silent and was constructed stays silent.
LEMMA SilentKept ==
  ASSUME TypeOK, NEW t \in Threads, Step(t) \/ Event(t) \/ AppCall(t),
         NEW v \in Threads, NEW l \in Layers, NEW n \in Inst, n <= made[l], Silent(v, l, n)
  PROVE  SilentNext(v, l, n)
<1>1. ControlOK /\ DataOK /\ Moves(t)
  BY TypeParts, ThreadMoves
<1>2. ~cb'[l][n]
  <2>1. cb \in [Layers -> [Inst -> BOOLEAN]] /\ ~cb[l][n]
    BY <1>1 DEF DataOK, Silent
  <2>2. \A k \in Layers : k = l => made[k] + 1 # n
    <3>1. made[l] \in Nat /\ n \in Nat
      BY <1>1, ConstantsAssumption DEF DataOK, Ptr, Inst
    <3> QED
      BY <3>1
  <2>3. ASSUME NEW k \in Layers, made[k] + 1 \in Inst, cb' = [cb EXCEPT ![k][made[k] + 1] = TRUE]
        PROVE  ~cb'[l][n]
    BY <2>1, <2>2, <2>3
  <2>4. ASSUME NEW k \in Layers, NEW m \in Inst, cb' = [cb EXCEPT ![k][m] = FALSE]
        PROVE  ~cb'[l][n]
    BY <2>1, <2>4
  <2> QED
    BY <2>1, <2>3, <2>4, CallbackChanges
<1>3. ASSUME NEW u \in Threads \ {v}, FrT("cbEnd", l, n) \in Frames(u)'
      PROVE  FALSE
  <2>1. FrT("cbEnd", l, n) \notin Frames(u)
    BY DEF Silent, CallbackFree
  <2>2. FrT("cbEnd", l, n).pc = "cbEnd" /\ FrT("cbEnd", l, n).l = l /\ FrT("cbEnd", l, n).n = n
    BY DEF FrT, FrS
  <2>3. cb[l][n]
    BY <1>1, <1>3, <2>1, <2>2, NewCallbacks
  <2> QED
    BY <2>3 DEF Silent
<1> QED
  BY <1>2, <1>3 DEF SilentNext

LEMMA SilentStep ==
  ASSUME TypeOK, SingleOwner, Fresh, DetachedSilent, Clearing,
         NEW t \in Threads, Step(t) \/ Event(t) \/ AppCall(t)
  PROVE  DetachedSilent' /\ Clearing'
<1>a. ControlOK /\ DataOK /\ Moves(t) /\ ControlOK'
  BY TypeParts, ThreadMoves, MovesType
<1>b. \A l \in Closable : l \in Layers
  BY DEF Closable, Layers
<1>c. ASSUME NEW v \in Threads, NEW l \in Closable, NEW n \in Ptr, n # 0, Owned(l, n), Silent(v, l, n)
      PROVE  SilentNext(v, l, n)
  <2>1. n \in Inst /\ n <= made[l]
    BY <1>c, Layering DEF Fresh
  <2> QED
    BY <1>b, <1>c, <2>1, SilentKept
<1>d. ASSUME NEW i \in 1 .. Len(teardown), NEW l \in Closable, teardown[i].tr[l] # 0
      PROVE  teardown[i].by \in Threads /\ SilentNext(teardown[i].by, l, teardown[i].tr[l])
  <2>1. teardown[i] \in [tr : [Layers -> Ptr], by : Threads]
    <3>1. teardown \in Seq([tr : [Layers -> Ptr], by : Threads])
      BY <1>a DEF DataOK
    <3> QED
      BY <3>1, SeqElement
  <2>2. teardown[i].tr[l] \in Ptr /\ teardown[i].by \in Threads /\ Owned(l, teardown[i].tr[l])
    BY <2>1, <1>b DEF Owned
  <2>3. Silent(teardown[i].by, l, teardown[i].tr[l])
    BY <1>d DEF DetachedSilent, Silent
  <2> QED
    BY <2>2, <2>3, <1>c, <1>d
<1>e. ASSUME NEW u \in Threads, NEW l \in Closable, got[u][l] # 0, Cleared(u, l)
      PROVE  SilentNext(u, l, got[u][l])
  <2>1. got[u][l] \in Ptr /\ Owned(l, got[u][l])
    BY <1>a, <1>b DEF DataOK, Owned
  <2> QED
    BY <2>1, <1>c, <1>e DEF Clearing
<1>1. DetachedSilent'
  <2> SUFFICES ASSUME NEW i \in 1 .. Len(teardown'), NEW l \in Closable, teardown'[i].tr[l] # 0
               PROVE  SilentNext(teardown'[i].by, l, teardown'[i].tr[l])
    BY DEF DetachedSilent, SilentNext, CallbackFree
  <2>0. teardown \in Seq([tr : [Layers -> Ptr], by : Threads]) /\ Len(teardown) \in Nat
    BY <1>a DEF DataOK
  <2>1. CASE teardown' = teardown
    BY <2>1, <1>d
  <2>2. CASE TearDownEnd(t)
    <3>1. teardown' = Tail(teardown) /\ teardown # <<>>
      BY <2>2 DEF TearDownEnd
    <3>2. i + 1 \in 1 .. Len(teardown) /\ teardown'[i] = teardown[i + 1]
      BY <2>0, <3>1
    <3> QED
      BY <3>2, <1>d
  <2>3. CASE EnqueueTearDown(t)
    <3>1. teardown' = Append(teardown, [tr |-> got[t], by |-> t])
      BY <2>3 DEF EnqueueTearDown
    <3>2. CASE i \in 1 .. Len(teardown)
      <4>1. teardown'[i] = teardown[i]
        BY <2>0, <3>1, <3>2
      <4> QED
        BY <4>1, <3>2, <1>d
    <3>3. CASE i \notin 1 .. Len(teardown)
      <4>1. teardown'[i] = [tr |-> got[t], by |-> t]
        BY <2>0, <3>1, <3>3
      <4>2. Cleared(t, l) /\ got[t][l] # 0
        BY <4>1, <2>3, SMTT(40) DEF Cleared, EnqueueTearDown, At
      <4> QED
        BY <4>1, <4>2, <1>e
    <3> QED
      BY <3>2, <3>3
  <2>4. teardown' = teardown \/ TearDownEnd(t) \/ EnqueueTearDown(t)
    BY ZenonT(40) DEF Step, Event, Open1, Open2, SetTcpTransport, InitTransport1, InitTransport2, EmplaceStore,
       EmplaceStart, EmplaceCheck, EmplaceUndo, Close1, Close2, Close3, RemoteClose2, CloseTransports,
       Exchange, DetachRecv, DetachState, ChangeState, StateCallback, IfConnecting, WsOpen1, WsOpen2,
       Broken, RecvNull, Stop, WsClose1, WsClose2, Drop, UserReturn, TearDownReset, AppCall,
       TcpConnect, TcpLost, CloseTimeout, Incoming, ConnectionTimeout, TearDown, Test, data, taskVars
  <2> QED
    BY <2>1, <2>2, <2>3, <2>4
<1>2. Clearing'
  <2> SUFFICES ASSUME NEW u \in Threads, NEW l \in Closable, Cleared(u, l)', got'[u][l] # 0
               PROVE  SilentNext(u, l, got'[u][l])
    BY DEF Clearing, Silent, SilentNext, CallbackFree
  <2>1. top'[u].pc \in Tracked
    BY DEF Cleared, Tracked
  <2>2. CASE DetachState(t)
    <3> DEFINE k == top[t].l
    <3>1. got' = got
      BY <2>2 DEF DetachState
    <3>2. CASE u = t
      <4>1. top'[t] = IF k = "tcp" THEN Fr("enqueue") ELSE FrT("detachState", After(k), 0)
        BY <2>2, <1>a DEF DetachState, Goto, ControlOK
      <4>2. l = k \/ Cleared(t, l)
        BY <4>1, <3>2, <2>2 DEF Cleared, Closable, After, Fr, FrT, FrS, DetachState, At
      <4>3. CASE l = k
        <5>1. CallbackFree(t, l, got[t][l]) /\ cb' = [cb EXCEPT ![l][got[t][l]] = FALSE]
          BY <4>3, <2>2, <3>1, <3>2 DEF DetachState
        <5>2. got[t][l] \in Inst /\ l \in Layers /\ cb \in [Layers -> [Inst -> BOOLEAN]]
          BY <1>a, <1>b, <3>1, <3>2, Layering DEF DataOK
        <5>3. ~cb'[l][got[t][l]]
          BY <5>1, <5>2
        <5>4. \A v \in Threads \ {t} : Frames(v)' = Frames(v)
          BY <2>2, <1>a DEF DetachState, Goto, ControlOK, Frames
        <5> QED
          BY <5>1, <5>3, <5>4, <3>1, <3>2 DEF SilentNext, CallbackFree
      <4>4. CASE Cleared(t, l)
        BY <4>4, <3>1, <3>2, <1>e
      <4> QED
        BY <4>2, <4>3, <4>4
    <3>3. CASE u # t
      <4>1. top'[u] = top[u]
        BY <2>2, <3>3, <1>a DEF DetachState, Goto, ControlOK
      <4> QED
        BY <4>1, <3>1, <1>e DEF Cleared
    <3> QED
      BY <3>2, <3>3
  <2>3. CASE DetachRecv(t) \/ SetTcpTransport(t) \/ InitTransport2(t)
    <3>1. got' = got
      BY <2>3 DEF DetachRecv, SetTcpTransport, InitTransport2
    <3>2. \A v \in Threads \ {t} : top'[v] = top[v]
      BY <2>3, <1>a DEF DetachRecv, SetTcpTransport, InitTransport2, RemoteClose, Goto, ControlOK
    <3>3. ~Cleared(t, l)'
      BY <2>3, <1>a DEF DetachRecv, SetTcpTransport, InitTransport2, RemoteClose, Goto, ControlOK,
         Cleared, Closable, Fr, FrT, FrS
    <3> QED
      BY <3>1, <3>2, <3>3, <1>e DEF Cleared
  <2>4. CASE Calm(t)
    <3>1. top'[u] = top[u]
      BY <2>1, <2>4, <1>a, CalmTop
    <3>2. Cleared(u, l)
      BY <3>1 DEF Cleared
    <3>3. got'[u] = got[u]
      <4>1. CASE EnqueueTearDown(t)
        BY <4>1, <2>4, <3>1, <1>a DEF EnqueueTearDown, Goto, ControlOK, DataOK, At, Cleared, Fr, FrT, FrS
      <4>2. CASE Exchange(t)
        BY <4>2, <3>1, <3>2, <1>a, ZenonT(40) DEF Exchange, DataOK, At, Cleared
      <4>3. got' = got \/ Exchange(t) \/ EnqueueTearDown(t)
        BY ZenonT(40) DEF Step, Event, Open1, Open2, SetTcpTransport, InitTransport1, InitTransport2, EmplaceStore,
           EmplaceStart, EmplaceCheck, EmplaceUndo, Close1, Close2, Close3, RemoteClose2, CloseTransports,
           DetachRecv, DetachState, ChangeState, StateCallback, IfConnecting, WsOpen1, WsOpen2,
           Broken, RecvNull, Stop, WsClose1, WsClose2, Drop, UserReturn, TearDownReset, TearDownEnd, AppCall, TcpConnect,
           TcpLost, CloseTimeout, Incoming, ConnectionTimeout, TearDown, Test, data
      <4> QED
        BY <4>1, <4>2, <4>3
    <3> QED
      BY <3>2, <3>3, <1>e
  <2> QED
    BY <2>2, <2>3, <2>4, ThreadMoves
<1> QED
  BY <1>1, <1>2

\* From the moment closeTransports() hands a transport to the
\* TearDownProcessor its state-change callback is cleared and runs in no thread
\* but the closing one.
THEOREM TornDownTransportIsSilent == Spec => []DetachedSilent
<1>1. Init => DetachedSilent /\ Clearing
  <2> SUFFICES ASSUME Init PROVE DetachedSilent /\ Clearing
    OBVIOUS
  <2>1. Len(teardown) = 0
    BY DEF Init
  <2>2. \A t \in Threads, l \in Closable : ~Cleared(t, l)
    BY DEF Init, Cleared, Idle, Fr, FrT, FrS
  <2> QED
    BY <2>1, <2>2 DEF DetachedSilent, Clearing
<1>2. /\ TypeOK /\ SingleOwner /\ Fresh /\ DetachedSilent /\ Clearing /\ [Next]_vars
      => DetachedSilent' /\ Clearing'
  <2> SUFFICES ASSUME TypeOK, SingleOwner, Fresh, DetachedSilent, Clearing, [Next]_vars
               PROVE  DetachedSilent' /\ Clearing'
    OBVIOUS
  <2>1. CASE UNCHANGED vars
    BY <2>1 DEF vars, data, wsVars, trVars, taskVars, DetachedSilent, Clearing, Cleared, Silent,
       CallbackFree, Frames
  <2> QED
    BY <2>1, SilentStep DEF Next, Done
<1> QED
  BY <1>1, <1>2, TypeCorrect, OwnersInductive, PTL DEF Spec

=============================================================================
