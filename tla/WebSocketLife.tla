--------------------------- MODULE WebSocketLife ---------------------------
(***************************************************************************)
(* What impl::WebSocket promises about its transports, whoever opens and   *)
(* closes it and whatever the connection does: a transport that was set    *)
(* stays with the WebSocket until it is withdrawn, replaced, or taken by   *)
(* one closing; what a closing takes it hands over, all of it and once, and *)
(* what is handed over is released in that order.                          *)
(***************************************************************************)
EXTENDS Naturals, Sequences

CONSTANTS
  Layers,   \* the layers that closing takes
  Inst      \* the transports of a layer, numbered from 1

VARIABLES
  current,  \* per layer: the transport of the WebSocket, or 0
  taken,    \* transports a closing has taken
  queue,    \* what was handed over, by closing
  gone      \* transports that were released

vars == <<current, taken, queue, gone>>

Transports == Layers \X Inst

Queued == UNION {queue[i] : i \in 1 .. Len(queue)}

\* The transport of layer l, if there is one.
Of(l) == IF current[l] = 0 THEN {} ELSE {<<l, current[l]>>}

Init ==
  /\ current = [l \in Layers |-> 0]
  /\ taken = {} /\ queue = <<>> /\ gone = {}

\* A transport that was never seen before is set; one it replaces is gone.
Set(l, n) ==
  /\ <<l, n>> \notin Of(l) \cup taken \cup Queued \cup gone
  /\ current' = [current EXCEPT ![l] = n]
  /\ gone' = gone \cup Of(l)
  /\ UNCHANGED <<taken, queue>>

Withdraw(l) ==
  /\ current[l] # 0
  /\ current' = [current EXCEPT ![l] = 0]
  /\ gone' = gone \cup Of(l)
  /\ UNCHANGED <<taken, queue>>

Take(l) ==
  /\ current[l] # 0
  /\ current' = [current EXCEPT ![l] = 0]
  /\ taken' = taken \cup Of(l)
  /\ UNCHANGED <<queue, gone>>

\* A closing hands over what it took: at most one transport of a layer.
HandOver(S) ==
  /\ S \subseteq taken
  /\ \A x, y \in S : x[1] = y[1] => x = y
  /\ taken' = taken \ S
  /\ queue' = Append(queue, S)
  /\ UNCHANGED <<current, gone>>

Release ==
  /\ queue # <<>>
  /\ gone' = gone \cup Head(queue)
  /\ queue' = Tail(queue)
  /\ UNCHANGED <<current, taken>>

Next ==
  \/ \E l \in Layers : Withdraw(l) \/ Take(l) \/ \E n \in Inst : Set(l, n)
  \/ \E S \in SUBSET taken : HandOver(S)
  \/ Release

Spec == Init /\ [][Next]_vars

=============================================================================
