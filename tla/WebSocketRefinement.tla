------------------------ MODULE WebSocketRefinement ------------------------
(* impl::WebSocket (WebSocketImpl) keeps the promise of WebSocketLife.     *)
EXTENDS WebSocketImpl

Transports == Closable \X Inst

\* emplaceTransport() has stored the transport.
Stored(l, n) ==
  /\ n <= made[l]
  /\ \A t \in Threads : ~(At(t, "empStore") /\ top[t].l = l /\ top[t].n = n)

InTask(i) == {x \in Transports : teardown[i].tr[x[1]] = x[2]}

Current == [l \in Closable |-> mem[l]]
Taken   == {x \in Transports : \E t \in Threads : got[t][x[1]] = x[2]}
Queue   == [i \in 1 .. Len(teardown) |-> InTask(i)]
Gone    == {x \in Transports : Stored(x[1], x[2]) /\ ~Owned(x[1], x[2])}

Life == INSTANCE WebSocketLife WITH
  Layers <- Closable, Inst <- Inst, current <- Current, taken <- Taken, queue <- Queue, gone <- Gone

\* However the threads interleave, each transport passes from the member through
\* one closeTransports() and one task of the TearDownProcessor, or is withdrawn or
\* replaced by emplaceTransport(): every step is one of WebSocketLife or none.
ImplementsLife == Life!Spec

=============================================================================
