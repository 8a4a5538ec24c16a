-------------------------- MODULE WsTransportProofs --------------------------
(***************************************************************************)
(* Proofs about WsTransport, for any instances, any threads that close and *)
(* any chunks: at most one close frame is sent; every header is looked for *)
(* where a frame begins; the handshake is decided by the answers, and when *)
(* they are there; bytes are delivered in the order of the stream; and of an *)
(* orderly peer exactly the messages, without delay.                       *)
(***************************************************************************)
EXTENDS WsTransport, SequenceTheorems, WellFoundedInduction, TLAPS

\* A close frame is sent by whoever is the first to set mCloseSent.
Exchanged == closeSent \in BOOLEAN /\ closes \in {0, 1} /\ (closes = 1 => closeSent)

LEMMA CloseExchanges == ASSUME Exchanged, Close PROVE Exchanged'
<1>1. closeSent' = TRUE
  BY DEF Close
<1>2. CASE closeSent
  <2>1. closes' = closes
    BY <1>2 DEF Close
  <2> QED
    BY <1>1, <2>1 DEF Exchanged
<1>3. CASE ~closeSent
  <2>1. closes = 0
    BY <1>3 DEF Exchanged
  <2>2. closes' = Min2(closes + 1, 2) \/ closes' = closes
    BY <1>3 DEF Close
  <2>3. closes' \in {0, 1}
    BY <2>1, <2>2 DEF Min2
  <2> QED
    BY <1>1, <2>3 DEF Exchanged
<1> QED
  BY <1>2, <1>3 DEF Exchanged

LEMMA RecvCloseExchanges == ASSUME Exchanged, NEW f, RecvClose(f) PROVE Exchanged'
<1>1. /\ closeSent' = (closeSent \/ state = "Connected")
      /\ closes' = IF (state = "Connected" /\ ~closeSent) /\ up THEN Min2(closes + 1, 2) ELSE closes
  BY DEF RecvClose
<1>2. CASE state = "Connected" /\ ~closeSent /\ up
  <2>1. closes = 0
    BY <1>2 DEF Exchanged
  <2>2. closes' = 1
    BY <1>1, <1>2, <2>1 DEF Min2
  <2>3. closeSent' = TRUE
    BY <1>1, <1>2
  <2> QED
    BY <2>2, <2>3 DEF Exchanged
<1>3. CASE ~(state = "Connected" /\ ~closeSent /\ up)
  <2>1. closes' = closes
    BY <1>1, <1>3
  <2>2. closeSent' \in BOOLEAN /\ (closeSent => closeSent')
    BY <1>1
  <2> QED
    BY <2>1, <2>2 DEF Exchanged
<1> QED
  BY <1>2, <1>3

LEMMA RecvFrameExchanges == ASSUME Exchanged, NEW f, RecvFrame(f) PROVE Exchanged'
<1>1. CASE RecvData(f) \/ RecvContinuation(f) \/ RecvPing(f) \/ RecvPong(f)
  <2>1. closeSent' = closeSent /\ closes' = closes
    BY <1>1 DEF RecvData, RecvContinuation, RecvPing, RecvPong, closeVars
  <2> QED
    BY <2>1 DEF Exchanged
<1>2. CASE RecvClose(f)
  BY <1>2, RecvCloseExchanges
<1>3. CASE RecvUnknown(f)
  <2>1. Close \/ UNCHANGED closeVars
    BY <1>3 DEF RecvUnknown
  <2>2. CASE UNCHANGED closeVars
    <3>1. closeSent' = closeSent /\ closes' = closes
      BY <2>2 DEF closeVars
    <3> QED
      BY <3>1 DEF Exchanged
  <2> QED
    BY <2>1, <2>2, CloseExchanges
<1> QED
  BY <1>1, <1>2, <1>3 DEF RecvFrame

LEMMA ExchangedStep == Exchanged /\ [Next]_vars => Exchanged'
<1> SUFFICES ASSUME Exchanged, [Next]_vars PROVE Exchanged'
  OBVIOUS
<1>1. ASSUME closeSent' = closeSent, closes' = closes PROVE Exchanged'
  BY <1>1 DEF Exchanged
<1>2. ASSUME NEW op, NEW fin, NEW len, PeerSend(op, fin, len) PROVE Exchanged'
  BY <1>1, <1>2 DEF PeerSend, closeVars
<1>3. CASE LowerLost \/ Detach \/ CloseTimeout \/ Idle \/ IncomingNull
  BY <1>1, <1>3 DEF LowerLost, Detach, CloseTimeout, Idle, IncomingNull, closeVars
<1>4. ASSUME NEW t \in Closers, CloseCheck(t) \/ CloseSend(t) PROVE Exchanged'
  <2>1. CASE CloseCheck(t)
    BY <1>1, <2>1 DEF CloseCheck, closeVars
  <2>2. CASE CloseSend(t)
    BY <2>2, CloseExchanges DEF CloseSend
  <2> QED
    BY <1>4, <2>1, <2>2
<1>5. ASSUME NEW k, ProxyChunk(k) \/ IncomingChunk(k) PROVE Exchanged'
  <2>1. UNCHANGED closeVars
    BY <1>5 DEF ProxyChunk, IncomingChunk, Insert
  <2> QED
    BY <1>1, <2>1 DEF closeVars
<1>6. CASE Process
  <2>1. CASE IncomingRest \/ Skip \/ ParseEnd
    <3>1. UNCHANGED closeVars
      BY <2>1 DEF IncomingRest, Insert, Skip, ParseEnd
    <3> QED
      BY <1>1, <3>1 DEF closeVars
  <2>2. ASSUME NEW i \in 1 .. Len(frames), RecvFrame(frames[i]) PROVE Exchanged'
    BY <2>2, RecvFrameExchanges
  <2> QED
    BY <1>6, <2>1, <2>2 DEF Process
<1>7. CASE UNCHANGED vars
  BY <1>1, <1>7 DEF vars, closeVars
<1> QED
  BY <1>2, <1>3, <1>4, <1>5, <1>6, <1>7 DEF Next

\* Whichever of the application's threads, the close frame of the peer and unknown
\* opcodes close, and whatever they have tested before: the exchange of mCloseSent
\* in close() lets one of them send the close frame.
THEOREM ClosesOnce == Spec => []OneClose
<1>1. ASSUME Init PROVE Exchanged
  <2>1. closeSent = FALSE /\ closes = 0
    BY <1>1 DEF Init
  <2>2. closeSent \in BOOLEAN
    BY <2>1
  <2>3. closes \in {0, 1} /\ closes # 1
    BY <2>1
  <2> QED
    BY <2>2, <2>3 DEF Exchanged
<1>2. Exchanged => OneClose
  BY DEF Exchanged, OneClose
<1> QED
  BY <1>1, <1>2, ExchangedStep, PTL DEF Spec

-----------------------------------------------------------------------------
(* HTTP responses: what parseHttpLines() finds in a prefix                 *)

LEMMA LeastExists ==
  ASSUME NEW S, S \subseteq Nat, S # {}
  PROVE  \E x \in S : \A y \in S : x <= y
<1>1. PICK x \in S : \A y \in S : ~(<<y, x>> \in OpToRel(<, Nat))
  BY WFMin, NatLessThanWellFounded
<1>2. \A y \in S : ~(y < x)
  BY <1>1 DEF OpToRel
<1>3. \A y \in S : x <= y
  BY <1>2
<1> QED
  BY <1>3

LEMMA GreatestExists ==
  ASSUME NEW n \in Nat, NEW S, S \subseteq 0 .. n, S # {}
  PROVE  \E x \in S : \A y \in S : x >= y
<1> DEFINE T == {n - y : y \in S}
<1>1. T \subseteq Nat /\ T # {}
  OBVIOUS
<1>2. PICK t \in T : \A u \in T : t <= u
  BY <1>1, LeastExists
<1>3. PICK x \in S : t = n - x
  OBVIOUS
<1>4. ASSUME NEW y \in S PROVE x >= y
  <2>1. n - y \in T
    OBVIOUS
  <2>2. n - x <= n - y
    BY <1>2, <1>3, <2>1
  <2> QED
    BY <2>2
<1> QED
  BY <1>4

LEMMA MinIs ==
  ASSUME NEW S, S \subseteq Nat, NEW n \in S, \A y \in S : n <= y
  PROVE  Min(S) = n
<1>1. Min(S) \in S /\ \A y \in S : Min(S) <= y
  BY DEF Min
<1>2. PICK x \in Nat : x = Min(S)
  BY <1>1
<1>3. x <= n /\ n <= x
  BY <1>1, <1>2
<1>4. n \in Nat
  OBVIOUS
<1>5. x = n
  BY <1>3, <1>4
<1> QED
  BY <1>2, <1>5

\* The parts of a response, and what follows it.
Symbols == STRING \cup {"data"}

LEMMA StringsAreSymbols == ASSUME NEW s \in Seq(STRING) PROVE s \in Seq(Symbols)
<1>1. PICK n \in Nat : s \in [1 .. n -> STRING]
  BY SeqDef
<1>2. s \in [1 .. n -> Symbols]
  BY <1>1 DEF Symbols
<1> QED
  BY <1>2, SeqDef

Blanks(b) == {i \in LineEnds(b) : Line(b, i) = <<>>}

\* Two texts with the same first m symbols have the same lines there.
LEMMA SameLine ==
  ASSUME NEW b \in Seq(Symbols), NEW c \in Seq(Symbols), NEW m \in Nat, m <= Len(b), m <= Len(c),
         \A i \in 1 .. m : b[i] = c[i], NEW i \in 1 .. m
  PROVE  (i \in LineEnds(b) <=> i \in LineEnds(c)) /\ Line(b, i) = Line(c, i)
<1>1. Len(b) \in Nat /\ Len(c) \in Nat /\ DOMAIN b = 1 .. Len(b) /\ DOMAIN c = 1 .. Len(c)
  BY LenProperties
<1>2. \A j \in 1 .. m : j \in LineEnds(b) <=> j \in LineEnds(c)
  <2>1. ASSUME NEW j \in 1 .. m PROVE j \in DOMAIN b /\ j \in DOMAIN c
    BY <1>1
  <2> QED
    BY <2>1 DEF LineEnds
<1>3. LineEnds(b) \subseteq 1 .. Len(b) /\ LineEnds(c) \subseteq 1 .. Len(c)
  BY <1>1 DEF LineEnds
<1>4. {j \in LineEnds(b) : j < i} = {j \in LineEnds(c) : j < i}
  <2>1. \A j \in LineEnds(b) : j < i => j \in 1 .. m
    BY <1>1, <1>3
  <2>2. \A j \in LineEnds(c) : j < i => j \in 1 .. m
    BY <1>1, <1>3
  <2> QED
    BY <1>2, <2>1, <2>2
<1> DEFINE S == {0} \cup {j \in LineEnds(b) : j < i}
<1>5. Max(S) \in 0 .. (i - 1)
  <2>1. S \subseteq 0 .. (i - 1)
    <3>1. \A j \in LineEnds(b) : j < i => j \in 0 .. (i - 1)
      BY <1>1, <1>3
    <3>2. 0 \in 0 .. (i - 1)
      OBVIOUS
    <3> QED
      BY <3>1, <3>2
  <2>2. S # {} /\ i - 1 \in Nat
    OBVIOUS
  <2>3. \E x \in S : \A y \in S : x >= y
    BY <2>1, <2>2, GreatestExists
  <2>4. Max(S) \in S
    BY <2>3 DEF Max
  <2> QED
    BY <2>1, <2>4
<1> DEFINE hi == IF i > 1 /\ b[i - 1] = "CR" THEN i - 2 ELSE i - 1
<1>6. hi \in Int /\ hi <= i - 1
  OBVIOUS
<1>7. hi = IF i > 1 /\ c[i - 1] = "CR" THEN i - 2 ELSE i - 1
  <2>1. i > 1 => i - 1 \in 1 .. m
    OBVIOUS
  <2> QED
    BY <2>1
<1>8. Line(b, i) = SubSeq(b, 1 + Max(S), hi)
  BY DEF Line
<1>9. Line(c, i) = SubSeq(c, 1 + Max(S), hi)
  BY <1>4, <1>7 DEF Line
<1> HIDE DEF hi, S
<1>10. SubSeq(b, 1 + Max(S), hi) = SubSeq(c, 1 + Max(S), hi)
  <2>1. PICK lo \in Nat : lo = 1 + Max(S) /\ lo >= 1
    BY <1>5
  <2>2. PICK h \in Int : h = hi /\ h <= i - 1
    BY <1>6
  <2>3. \A j \in lo .. h : j \in 1 .. m
    BY <2>1, <2>2
  <2>4. \A j \in lo .. h : b[j] \in Symbols /\ c[j] \in Symbols /\ b[j] = c[j]
    <3> SUFFICES ASSUME NEW j \in lo .. h PROVE b[j] \in Symbols /\ c[j] \in Symbols /\ b[j] = c[j]
      OBVIOUS
    <3>1. j \in 1 .. m /\ j \in 1 .. Len(b) /\ j \in 1 .. Len(c)
      BY <1>1, <2>3, SMTT(30)
    <3> QED
      BY <3>1, ElementOfSeq
  <2>5. /\ SubSeq(b, lo, h) \in Seq(Symbols) /\ SubSeq(c, lo, h) \in Seq(Symbols)
        /\ Len(SubSeq(b, lo, h)) = IF lo <= h THEN h - lo + 1 ELSE 0
        /\ Len(SubSeq(c, lo, h)) = IF lo <= h THEN h - lo + 1 ELSE 0
        /\ \A j \in 1 .. h - lo + 1 : SubSeq(b, lo, h)[j] = b[lo + j - 1]
        /\ \A j \in 1 .. h - lo + 1 : SubSeq(c, lo, h)[j] = c[lo + j - 1]
    BY <2>4, SubSeqProperties, SMTT(30)
  <2>6. \A j \in 1 .. Len(SubSeq(b, lo, h)) : SubSeq(b, lo, h)[j] = SubSeq(c, lo, h)[j]
    <3> SUFFICES ASSUME NEW j \in 1 .. Len(SubSeq(b, lo, h)) PROVE SubSeq(b, lo, h)[j] = SubSeq(c, lo, h)[j]
      OBVIOUS
    <3>1. j \in 1 .. h - lo + 1
      BY <2>5
    <3>2. lo + j - 1 \in lo .. h
      BY <3>1
    <3> QED
      BY <2>4, <2>5, <3>1, <3>2
  <2>7. SubSeq(b, lo, h) = SubSeq(c, lo, h)
    BY <2>5, <2>6, SeqEqual
  <2> QED
    BY <2>1, <2>2, <2>7
<1> QED
  BY <1>2, <1>8, <1>9, <1>10

EmptyLine(b) == ParseHttpLines(b).length

\* The first empty line.
LEMMA FirstBlank ==
  ASSUME NEW b \in Seq(Symbols)
  PROVE  /\ EmptyLine(b) \in 0 .. Len(b) /\ Blanks(b) \subseteq 1 .. Len(b)
         /\ EmptyLine(b) = 0 <=> Blanks(b) = {}
         /\ EmptyLine(b) > 0 => EmptyLine(b) \in Blanks(b) /\ \A y \in Blanks(b) : EmptyLine(b) <= y
<1>1. Len(b) \in Nat /\ DOMAIN b = 1 .. Len(b)
  BY LenProperties
<1>2. Blanks(b) \subseteq 1 .. Len(b)
  BY <1>1 DEF Blanks, LineEnds
<1>3. EmptyLine(b) = IF Blanks(b) = {} THEN 0 ELSE Min(Blanks(b))
  BY DEF EmptyLine, ParseHttpLines, Blanks
<1>4. CASE Blanks(b) = {}
  BY <1>1, <1>2, <1>3, <1>4
<1>5. CASE Blanks(b) # {}
  <2>1. PICK n \in Blanks(b) : \A y \in Blanks(b) : n <= y
    BY <1>2, <1>5, LeastExists
  <2>2. Min(Blanks(b)) = n
    BY <1>2, <2>1, MinIs
  <2> QED
    BY <1>1, <1>2, <1>3, <1>5, <2>1, <2>2
<1> QED
  BY <1>4, <1>5

\* An empty line is looked for in vain in what comes before the first one.
LEMMA TooShort ==
  ASSUME NEW b \in Seq(Symbols), NEW c \in Seq(Symbols), Len(b) < EmptyLine(c),
         \A i \in 1 .. Len(b) : b[i] = c[i]
  PROVE  ProxyResponse(b) = 0 /\ WsResponse(b) = 0
<1>1. Len(b) \in Nat /\ Len(c) \in Nat /\ EmptyLine(c) \in 0 .. Len(c)
  BY LenProperties, FirstBlank
<1>2. ASSUME NEW y \in Blanks(b) PROVE FALSE
  <2>1. y \in 1 .. Len(b) /\ Len(b) <= Len(b) /\ Len(b) <= Len(c)
    BY <1>1, FirstBlank
  <2>2. y \in Blanks(c)
    BY <1>1, <2>1, SameLine, SMTT(30) DEF Blanks
  <2>3. EmptyLine(c) <= y
    BY <1>1, <2>2, FirstBlank
  <2> QED
    BY <1>1, <2>1, <2>3
<1>3. EmptyLine(b) = 0
  BY <1>2, FirstBlank
<1> QED
  BY <1>3 DEF EmptyLine, ProxyResponse, WsResponse, Parse

\* What comes after the first empty line is not looked at.
LEMMA LongEnough ==
  ASSUME NEW b \in Seq(Symbols), NEW c \in Seq(Symbols), EmptyLine(c) > 0, EmptyLine(c) <= Len(b),
         \A i \in 1 .. EmptyLine(c) : b[i] = c[i]
  PROVE  ProxyResponse(b) = ProxyResponse(c) /\ WsResponse(b) = WsResponse(c)
<1> DEFINE n == EmptyLine(c)
<1>1. /\ Len(b) \in Nat /\ Len(c) \in Nat /\ n \in Nat /\ n <= Len(b) /\ n <= Len(c)
      /\ n \in 1 .. n /\ n \in Blanks(c) /\ \A y \in Blanks(c) : n <= y
  <2>1. Len(b) \in Nat /\ Len(c) \in Nat
    BY LenProperties
  <2>2. n \in 0 .. Len(c) /\ n \in Blanks(c) /\ \A y \in Blanks(c) : n <= y
    BY FirstBlank
  <2> QED
    BY <2>1, <2>2
<1>2. \A i \in 1 .. n : b[i] = c[i]
  OBVIOUS
<1> HIDE DEF n
<1>3. \A i \in 1 .. n : (i \in LineEnds(b) <=> i \in LineEnds(c)) /\ Line(b, i) = Line(c, i)
  BY <1>1, <1>2, SameLine
<1>4. n \in Blanks(b)
  BY <1>1, <1>3 DEF Blanks
<1>5. ASSUME NEW y \in Blanks(b) PROVE n <= y
  <2>1. y \in 1 .. Len(b)
    BY FirstBlank
  <2>2. CASE y \in 1 .. n
    <3>1. y \in Blanks(c)
      BY <1>3, <2>2 DEF Blanks
    <3> QED
      BY <1>1, <3>1
  <2> QED
    BY <1>1, <2>1, <2>2
<1>6. EmptyLine(b) = n
  <2>1. Blanks(b) \subseteq Nat
    BY FirstBlank
  <2>2. Min(Blanks(b)) = n
    BY <1>4, <1>5, <2>1, MinIs
  <2> QED
    BY <1>4, <2>2 DEF EmptyLine, ParseHttpLines, Blanks
<1>7. {j \in LineEnds(b) : j < n} = {j \in LineEnds(c) : j < n}
  <2>1. LineEnds(b) \subseteq Nat \ {0} /\ LineEnds(c) \subseteq Nat \ {0}
    <3>1. DOMAIN b = 1 .. Len(b) /\ DOMAIN c = 1 .. Len(c)
      BY LenProperties
    <3> QED
      BY <1>1, <3>1 DEF LineEnds
  <2> QED
    BY <1>1, <1>3, <2>1
<1>8. ParseHttpLines(b).lines = ParseHttpLines(c).lines
  <2>1. ParseHttpLines(b).lines = {<<i, Line(b, i)>> : i \in {j \in LineEnds(b) : j < n}}
    BY <1>6 DEF EmptyLine, ParseHttpLines
  <2>2. ParseHttpLines(c).lines = {<<i, Line(c, i)>> : i \in {j \in LineEnds(c) : j < n}}
    BY DEF n, EmptyLine, ParseHttpLines
  <2>3. \A i \in {j \in LineEnds(c) : j < n} : i \in 1 .. n
    <3>1. DOMAIN c = 1 .. Len(c)
      BY LenProperties
    <3> QED
      BY <1>1, <3>1 DEF LineEnds
  <2>4. \A i \in {j \in LineEnds(c) : j < n} : Line(b, i) = Line(c, i)
    BY <1>3, <2>3
  <2> QED
    BY <1>7, <2>1, <2>2, <2>4
<1>9. ParseHttpLines(b).length = ParseHttpLines(c).length
  BY <1>6 DEF EmptyLine, n
<1> QED
  BY <1>8, <1>9 DEF ProxyResponse, WsResponse, Parse

-----------------------------------------------------------------------------
(* Bytes in a row                                                          *)

\* Bytes a + 1 to a + n.
Run(a, n) == [i \in 1 .. n |-> a + i]

LEMMA RunIs ==
  ASSUME NEW a \in Nat, NEW n \in Nat
  PROVE  Run(a, n) \in Seq(Nat) /\ Len(Run(a, n)) = n /\ \A i \in 1 .. n : Run(a, n)[i] = a + i
<1>1. Run(a, n) \in [1 .. n -> Nat]
  BY DEF Run
<1>2. Run(a, n) \in Seq(Nat)
  BY <1>1, SeqDef
<1>3. DOMAIN Run(a, n) = 1 .. n
  BY DEF Run
<1>4. Len(Run(a, n)) = n
  BY <1>2, <1>3, LenProperties
<1> QED
  BY <1>2, <1>4 DEF Run

LEMMA RunEmpty ==
  ASSUME NEW a \in Nat, NEW n \in Nat
  PROVE  Run(a, n) = <<>> <=> n = 0
<1>1. Run(a, n) \in Seq(Nat) /\ Len(Run(a, n)) = n
  BY RunIs
<1>2. Run(a, n) # <<>> => Len(Run(a, n)) \in Nat \ {0}
  BY <1>1, EmptySeq
<1>3. Len(<<>>) = 0
  BY EmptySeq
<1> QED
  BY <1>1, <1>2, <1>3

LEMMA RunConcat ==
  ASSUME NEW a \in Nat, NEW n \in Nat, NEW k \in Nat
  PROVE  Run(a, n) \o Run(a + n, k) = Run(a, n + k)
<1>1. a + n \in Nat /\ n + k \in Nat
  OBVIOUS
<1> DEFINE s == Run(a, n)
           t == Run(a + n, k)
           u == Run(a, n + k)
<1>2. s \in Seq(Nat) /\ Len(s) = n /\ \A i \in 1 .. n : s[i] = a + i
  BY RunIs
<1>3. t \in Seq(Nat) /\ Len(t) = k /\ \A i \in 1 .. k : t[i] = (a + n) + i
  BY <1>1, RunIs
<1>4. u \in Seq(Nat) /\ Len(u) = n + k /\ \A i \in 1 .. n + k : u[i] = a + i
  BY <1>1, RunIs
<1> HIDE DEF s, t, u
<1>5. /\ s \o t \in Seq(Nat) /\ Len(s \o t) = n + k
      /\ \A i \in 1 .. n + k : (s \o t)[i] = IF i <= n THEN s[i] ELSE t[i - n]
  BY <1>2, <1>3, ConcatProperties, ZenonT(40)
<1>6. ASSUME NEW i \in 1 .. n + k PROVE (s \o t)[i] = u[i]
  <2>1. CASE i <= n
    <3>1. i \in 1 .. n
      BY <2>1
    <3> QED
      BY <1>2, <1>4, <1>5, <2>1, <3>1
  <2>2. CASE ~(i <= n)
    <3>1. i - n \in 1 .. k /\ (a + n) + (i - n) = a + i
      BY <2>2
    <3> QED
      BY <1>3, <1>4, <1>5, <2>2, <3>1
  <2> QED
    BY <2>1, <2>2
<1>7. s \o t = u
  BY <1>4, <1>5, <1>6, SeqEqual
<1> QED
  BY <1>7 DEF s, t, u

\* The n positions behind the first h of a run are a run.
RunWithin(a, m, h, n) == SubSeq(Run(a, m), h + 1, h + n) = Run(a + h, n)

LEMMA RunSub ==
  ASSUME NEW a \in Nat, NEW m \in Nat, NEW h \in Nat, NEW n \in Nat, h + n <= m
  PROVE  RunWithin(a, m, h, n)
<1> DEFINE s == Run(a, m)
           t == Run(a + h, n)
<1>1. s \in Seq(Nat) /\ Len(s) = m /\ \A i \in 1 .. m : s[i] = a + i
  BY RunIs
<1>2. t \in Seq(Nat) /\ Len(t) = n /\ \A i \in 1 .. n : t[i] = (a + h) + i
  <2>1. a + h \in Nat
    OBVIOUS
  <2> QED
    BY <2>1, RunIs
<1> HIDE DEF s, t
<1>3. \A i \in (h + 1) .. (h + n) : s[i] \in Nat
  BY <1>1
<1>4. PICK lo \in Int, hi \in Int : lo = h + 1 /\ hi = h + n
  OBVIOUS
<1>5. /\ SubSeq(s, lo, hi) \in Seq(Nat) /\ Len(SubSeq(s, lo, hi)) = IF lo <= hi THEN hi - lo + 1 ELSE 0
      /\ \A i \in 1 .. hi - lo + 1 : SubSeq(s, lo, hi)[i] = s[lo + i - 1]
  BY <1>3, <1>4, SubSeqProperties
<1>6. Len(SubSeq(s, lo, hi)) = n /\ hi - lo + 1 = n
  BY <1>4, <1>5
<1>7. ASSUME NEW i \in 1 .. n PROVE SubSeq(s, lo, hi)[i] = t[i]
  <2>1. lo + i - 1 = h + i /\ h + i \in 1 .. m /\ a + (h + i) = (a + h) + i
    BY <1>4
  <2> QED
    BY <1>1, <1>2, <1>5, <1>6, <2>1
<1>8. SubSeq(s, lo, hi) = t
  BY <1>2, <1>5, <1>6, <1>7, SeqEqual
<1> QED
  BY <1>4, <1>8 DEF s, t, RunWithin

LEMMA RunDrop ==
  ASSUME NEW a \in Nat, NEW m \in Nat, NEW n \in Nat, n <= m
  PROVE  Drop(Run(a, m), n) = Run(a + n, m - n)
<1>1. m - n \in Nat /\ n + (m - n) = m
  OBVIOUS
<1>2. Len(Run(a, m)) = m
  BY RunIs
<1>3. SubSeq(Run(a, m), n + 1, n + (m - n)) = Run(a + n, m - n)
  <2>1. RunWithin(a, m, n, m - n)
    BY <1>1, RunSub
  <2> QED
    BY <2>1 DEF RunWithin
<1> QED
  BY <1>1, <1>2, <1>3 DEF Drop

LEMMA ChunkIs == \A k : Chunk(k) = Run(arrived, k)
BY DEF Chunk, Run

-----------------------------------------------------------------------------
(* What the handshakes make of the bytes that have arrived                 *)

ProxyLen == Len(setup.proxy)

ServerLen == Len(setup.response)

FirstEmpty == EmptyLine(setup.response)

ProxyAgrees ==
  LET lines == ParseHttpLines(setup.proxy).lines IN
  setup.proxy = <<>> \/ (lines # {} /\ Code(lines) = "200")

ServerAgrees ==
  LET lines == ParseHttpLines(setup.response).lines IN lines # {} /\ Upgrades(lines)

\* What the code takes, by its parts.
LEMMA AcceptsIs ==
  ASSUME setup \in Setups
  PROVE  /\ Accepts(setup) <=> ProxyAgrees /\ ServerAgrees
         /\ Accepts(setup) => EmptyLine(setup.response) = Len(setup.response)
         /\ EmptyLine(setup.proxy) = Len(setup.proxy) /\ EmptyLine(setup.response) > 0
<1>1. /\ EmptyLine(setup.proxy) = Len(setup.proxy) /\ EmptyLine(setup.response) > 0
      /\ Accepts(setup) => EmptyLine(setup.response) = Len(setup.response)
  BY AnswersAssumption DEF EmptyLine
<1>2. setup.proxy \in Seq(STRING) /\ setup.response \in Seq(STRING)
  BY WsAssumption
<1>3. Len(setup.response) \in Nat /\ Len(setup.proxy) \in Nat /\ (setup.proxy # <<>> => Len(setup.proxy) > 0)
  BY <1>2, LenProperties, EmptySeq
<1>4. EmptyLine(setup.response) \in Int
  <2>1. setup.response \in Seq(Symbols)
    BY <1>2, StringsAreSymbols
  <2> QED
    BY <1>3, <2>1, FirstBlank
<1>5. setup.proxy # <<>> => (ProxyResponse(setup.proxy) > 0 <=> ProxyAgrees)
  BY <1>1, <1>3 DEF ProxyResponse, Parse, Throws, EmptyLine, ProxyAgrees
<1>6. WsResponse(setup.response) > 0 <=> ServerAgrees
  BY <1>1, <1>4 DEF WsResponse, Parse, Throws, EmptyLine, ServerAgrees
<1>7. setup.proxy = <<>> => ProxyAgrees
  BY DEF ProxyAgrees
<1> QED
  BY <1>1, <1>5, <1>6, <1>7 DEF Accepts

LEMMA SetupIs ==
  ASSUME setup \in Setups
  PROVE  /\ setup.proxy \in Seq(Symbols) /\ setup.response \in Seq(Symbols)
         /\ ProxyLen \in Nat /\ Opening \in Nat /\ ServerLen \in Nat
         /\ Opening = ProxyLen + ServerLen
         /\ EmptyLine(setup.proxy) = ProxyLen
         /\ FirstEmpty \in 1 .. ServerLen
         /\ Accepts(setup) <=> ProxyAgrees /\ ServerAgrees
         /\ Accepts(setup) => FirstEmpty = ServerLen
<1>1. setup.proxy \in Seq(Symbols) /\ setup.response \in Seq(Symbols)
  <2>1. setup.proxy \in Seq(STRING) /\ setup.response \in Seq(STRING)
    BY WsAssumption
  <2> QED
    BY <2>1, StringsAreSymbols
<1>2. ProxyLen \in Nat /\ ServerLen \in Nat
  BY <1>1, LenProperties DEF ProxyLen, ServerLen
<1>3. ProxyLen \in Nat /\ Opening \in Nat /\ Opening = ProxyLen + ServerLen
  <2>1. Opening = ProxyLen + ServerLen
    BY DEF ProxyLen, ServerLen, Opening
  <2> QED
    BY <1>2, <2>1
<1>4. /\ EmptyLine(setup.proxy) = ProxyLen /\ EmptyLine(setup.response) > 0
      /\ Accepts(setup) => EmptyLine(setup.response) = ServerLen
  BY AcceptsIs DEF ProxyLen, ServerLen
<1>5. EmptyLine(setup.response) \in 0 .. ServerLen
  BY <1>1, FirstBlank DEF ServerLen
<1>6. Accepts(setup) <=> ProxyAgrees /\ ServerAgrees
  BY AcceptsIs
<1> QED
  BY <1>1, <1>2, <1>3, <1>4, <1>5, <1>6 DEF FirstEmpty

LEMMA TextIs ==
  ASSUME setup \in Setups, NEW a \in Nat, NEW m \in Nat
  PROVE  /\ Text(Run(a, m)) \in Seq(Symbols) /\ Len(Text(Run(a, m))) = m
         /\ \A i \in 1 .. m : a + i <= ProxyLen => Text(Run(a, m))[i] = setup.proxy[a + i]
         /\ \A i \in 1 .. m : ProxyLen < a + i /\ a + i <= Opening => Text(Run(a, m))[i] = setup.response[a + i - ProxyLen]
<1> DEFINE b == Run(a, m)
           t(i) == IF b[i] <= ProxyLen THEN setup.proxy[b[i]]
                   ELSE IF b[i] <= Opening THEN setup.response[b[i] - ProxyLen] ELSE "data"
<1>1. Len(b) = m /\ \A i \in 1 .. m : b[i] = a + i
  BY RunIs
<1>2. /\ setup.proxy \in Seq(Symbols) /\ setup.response \in Seq(Symbols)
      /\ ProxyLen \in Nat /\ Opening \in Nat /\ ServerLen \in Nat /\ Opening = ProxyLen + ServerLen
      /\ ProxyLen = Len(setup.proxy)
  BY SetupIs DEF ProxyLen
<1>2a. ServerLen = Len(setup.response)
  BY DEF ServerLen
<1> HIDE DEF b
<1>3. Text(b) = [i \in 1 .. m |-> t(i)]
  BY <1>1 DEF Text, ProxyLen
<1>4. ASSUME NEW i \in 1 .. m PROVE t(i) \in Symbols
  <2>1. b[i] = a + i /\ b[i] \in Nat \ {0}
    BY <1>1
  <2>2. CASE b[i] <= ProxyLen
    <3>1. b[i] \in 1 .. Len(setup.proxy)
      BY <1>2, <2>1, <2>2
    <3>2. setup.proxy[b[i]] \in Symbols
      BY <1>2, <3>1, ElementOfSeq
    <3> QED
      BY <2>2, <3>2
  <2>3. CASE ~(b[i] <= ProxyLen) /\ b[i] <= Opening
    <3>1. b[i] - ProxyLen \in 1 .. ServerLen
      <4>1. PICK x \in Nat, p \in Nat, r \in Nat : x = b[i] /\ p = ProxyLen /\ r = ServerLen
        BY <1>2, <2>1
      <4>2. ~(x <= p) /\ x <= p + r
        BY <1>2, <2>3, <4>1
      <4>3. x - p \in 1 .. r
        BY <4>2
      <4> QED
        BY <4>1, <4>3
    <3>2. setup.response[b[i] - ProxyLen] \in Symbols
      BY <1>2, <1>2a, <3>1, ElementOfSeq
    <3> QED
      BY <2>3, <3>2
  <2>4. CASE ~(b[i] <= ProxyLen) /\ ~(b[i] <= Opening)
    <3>1. t(i) = "data"
      BY <2>4
    <3>2. "data" \in Symbols
      BY DEF Symbols
    <3> QED
      BY <3>1, <3>2, Zenon
  <2> QED
    BY <2>2, <2>3, <2>4
<1> HIDE DEF t
<1>5. Text(b) \in [1 .. m -> Symbols]
  BY <1>3, <1>4
<1>6. Text(b) \in Seq(Symbols)
  BY <1>5, SeqDef
<1>7. Len(Text(b)) = m
  <2>1. DOMAIN Text(b) = 1 .. m
    BY <1>3
  <2> QED
    BY <1>6, <2>1, LenProperties
<1>8. ASSUME NEW i \in 1 .. m, a + i <= ProxyLen PROVE Text(b)[i] = setup.proxy[a + i]
  BY <1>1, <1>3, <1>8 DEF t
<1>9. ASSUME NEW i \in 1 .. m, ProxyLen < a + i, a + i <= Opening PROVE Text(b)[i] = setup.response[a + i - ProxyLen]
  <2>1. ~(a + i <= ProxyLen)
    BY <1>2, <1>9
  <2> QED
    <3>1. b[i] = a + i /\ Text(b)[i] = t(i)
      BY <1>1, <1>3
    <3>2. ~(b[i] <= ProxyLen) /\ b[i] <= Opening
      BY <1>9, <2>1, <3>1
    <3>3. t(i) = setup.response[b[i] - ProxyLen]
      BY <3>2 DEF t
    <3>4. b[i] - ProxyLen = a + i - ProxyLen
      BY <1>2, <3>1
    <3> QED
      BY <3>1, <3>3, <3>4, Zenon
<1> QED
  BY <1>6, <1>7, <1>8, <1>9 DEF b

\* The proxy's answer is read when all of it has arrived, and not past its end.
LEMMA ProxyReads ==
  ASSUME setup \in Setups, setup.proxy # <<>>, NEW m \in Nat
  PROVE  /\ m < ProxyLen => ProxyResponse(Text(Run(0, m))) = 0
         /\ m >= ProxyLen => ProxyResponse(Text(Run(0, m))) = IF ProxyAgrees THEN ProxyLen ELSE Throws
<1> DEFINE b == Text(Run(0, m))
<1>1. /\ setup.proxy \in Seq(Symbols) /\ ProxyLen \in Nat /\ ProxyLen = Len(setup.proxy)
      /\ EmptyLine(setup.proxy) = ProxyLen
  BY SetupIs DEF ProxyLen
<1>2. ProxyLen > 0
  BY <1>1, EmptySeq
<1>3. b \in Seq(Symbols) /\ Len(b) = m /\ \A i \in 1 .. m : i <= ProxyLen => b[i] = setup.proxy[i]
  <2>1. 0 \in Nat /\ \A i \in 1 .. m : 0 + i = i
    OBVIOUS
  <2>2. /\ b \in Seq(Symbols) /\ Len(b) = m
        /\ \A i \in 1 .. m : 0 + i <= ProxyLen => b[i] = setup.proxy[0 + i]
    BY <2>1, TextIs
  <2> HIDE DEF b
  <2> QED
    BY <2>1, <2>2
<1> HIDE DEF b
<1>4. ASSUME m < ProxyLen PROVE ProxyResponse(b) = 0
  <2>1. \A i \in 1 .. Len(b) : b[i] = setup.proxy[i]
    BY <1>1, <1>3, <1>4
  <2>2. Len(b) < EmptyLine(setup.proxy)
    BY <1>1, <1>3, <1>4
  <2> QED
    BY <1>1, <1>3, <2>1, <2>2, TooShort
<1>5. ASSUME m >= ProxyLen PROVE ProxyResponse(b) = IF ProxyAgrees THEN ProxyLen ELSE Throws
  <2>1. \A i \in 1 .. EmptyLine(setup.proxy) : b[i] = setup.proxy[i]
    BY <1>1, <1>3, <1>5
  <2>2. EmptyLine(setup.proxy) > 0 /\ EmptyLine(setup.proxy) <= Len(b)
    BY <1>1, <1>2, <1>3, <1>5
  <2>3. ProxyResponse(b) = ProxyResponse(setup.proxy)
    BY <1>1, <1>3, <2>1, <2>2, LongEnough
  <2>4. ProxyResponse(setup.proxy) = IF ProxyAgrees THEN ProxyLen ELSE Throws
    BY <1>1, <1>2 DEF ProxyResponse, Parse, ProxyAgrees, EmptyLine
  <2> QED
    BY <2>3, <2>4
<1> QED
  BY <1>4, <1>5 DEF b

\* The server's response is read when its first empty line has arrived.
LEMMA WsReads ==
  ASSUME setup \in Setups, NEW m \in Nat
  PROVE  /\ m < FirstEmpty => WsResponse(Text(Run(ProxyLen, m))) = 0
         /\ m >= FirstEmpty => WsResponse(Text(Run(ProxyLen, m))) = IF ServerAgrees THEN FirstEmpty ELSE Throws
<1> DEFINE b == Text(Run(ProxyLen, m))
<1>1. /\ setup.response \in Seq(Symbols) /\ ProxyLen \in Nat /\ Opening = ProxyLen + ServerLen
      /\ FirstEmpty \in 1 .. ServerLen /\ ServerLen \in Nat
      /\ FirstEmpty = EmptyLine(setup.response)
  BY SetupIs DEF FirstEmpty
<1>2. b \in Seq(Symbols) /\ Len(b) = m /\ \A i \in 1 .. m : i <= ServerLen => b[i] = setup.response[i]
  <2>1. /\ b \in Seq(Symbols) /\ Len(b) = m
        /\ \A i \in 1 .. m : ProxyLen < ProxyLen + i /\ ProxyLen + i <= Opening
                               => b[i] = setup.response[ProxyLen + i - ProxyLen]
    BY <1>1, TextIs
  <2>2. \A i \in 1 .. m : ProxyLen < ProxyLen + i /\ ProxyLen + i - ProxyLen = i
    BY <1>1
  <2>3. \A i \in 1 .. m : i <= ServerLen => ProxyLen + i <= Opening
    BY <1>1
  <2> HIDE DEF b
  <2> QED
    BY <2>1, <2>2, <2>3
<1> HIDE DEF b
<1>3. ASSUME m < FirstEmpty PROVE WsResponse(b) = 0
  <2>1. \A i \in 1 .. Len(b) : b[i] = setup.response[i]
    BY <1>1, <1>2, <1>3
  <2>2. Len(b) < EmptyLine(setup.response)
    BY <1>1, <1>2, <1>3
  <2> QED
    BY <1>1, <1>2, <2>1, <2>2, TooShort
<1>4. ASSUME m >= FirstEmpty PROVE WsResponse(b) = IF ServerAgrees THEN FirstEmpty ELSE Throws
  <2>1. \A i \in 1 .. EmptyLine(setup.response) : b[i] = setup.response[i]
    BY <1>1, <1>2, <1>4
  <2>2. EmptyLine(setup.response) > 0 /\ EmptyLine(setup.response) <= Len(b)
    BY <1>1, <1>2, <1>4
  <2>3. WsResponse(b) = WsResponse(setup.response)
    BY <1>1, <1>2, <2>1, <2>2, LongEnough
  <2>4. WsResponse(setup.response) = IF ServerAgrees THEN FirstEmpty ELSE Throws
    BY <2>2 DEF WsResponse, Parse, ServerAgrees, EmptyLine, FirstEmpty
  <2> QED
    BY <2>3, <2>4
<1> QED
  BY <1>3, <1>4 DEF b

-----------------------------------------------------------------------------
(* The inductive invariant of the decoder                                  *)

Frame == [op : Ops, fin : BOOLEAN, len : setup.lengths, at : Nat]

States == {"Disconnected", "Connecting", "Connected", "Failed"}

Types ==
  /\ setup \in Setups /\ frames \in Seq(Frame) /\ end \in Nat /\ arrived \in Nat /\ ignore \in Nat
  /\ state \in States /\ pstate \in States /\ pc \in {"idle", "rest", "skip", "frames"}

\* The bytes up to the end of a frame, and those before frame i, sent or not.
After(f) == f.at + HeaderLen[f.len] + f.len
Bound(i) == IF i <= Len(frames) THEN frames[i].at ELSE end

\* The frames of the peer lie in a row, behind the answers.
Layout ==
  /\ \A i \in 1 .. Len(frames) : After(frames[i]) = Bound(i + 1) /\ After(frames[i]) <= end
  /\ \A i, j \in 1 .. Len(frames) : i < j => After(frames[i]) <= frames[j].at
  /\ end < Opening => frames = <<>>
  /\ end >= Opening => Bound(1) = Opening

\* A proxy that has not answered keeps all bytes.
AtProxy ==
  pstate = "Connecting" =>
    /\ state = "Disconnected" /\ pc = "idle" /\ buf = <<>> /\ ignore = 0
    /\ setup.proxy # <<>> /\ arrived < ProxyLen /\ pbuf = Run(0, arrived)

\* A transport that is connecting has, or is about to get, all bytes behind the
\* answer of the proxy.
AtHandshake ==
  state = "Connecting" =>
    /\ pstate = "Connected" /\ pc # "frames" /\ ignore = 0
    /\ ProxyAgrees /\ end >= Opening /\ arrived >= ProxyLen
    /\ pc = "rest" => buf = <<>> /\ rest = Run(ProxyLen, arrived - ProxyLen)
    /\ pc # "rest" => buf = Run(ProxyLen, arrived - ProxyLen) /\ arrived - ProxyLen < FirstEmpty

\* Frames are parsed: the transport is connected, or was when it began to.
Open == state = "Connected" \/ pc = "frames"

\* mBuffer is the last n bytes, and what is to be skipped ends with k frames.
At(n, k) == buf = Run(arrived - n, n) /\ arrived - n + ignore = Bound(k + 1)

AtFrames ==
  Open =>
    /\ Accepts(setup) /\ arrived >= Opening /\ end >= Opening /\ pc # "rest"
    /\ \E n \in 0 .. arrived, k \in 0 .. Len(frames) : At(n, k)
    /\ pc = "frames" => ignore = 0

Decoder == Types /\ arrived <= end /\ Layout /\ AtProxy /\ AtHandshake /\ AtFrames

LEMMA ModSmall ==
  ASSUME NEW x \in Nat, NEW m \in Nat \ {0}, x < m
  PROVE  x % m = x
OBVIOUS

LEMMA FrameIs ==
  ASSUME setup \in Setups, NEW f \in Frame
  PROVE  /\ f.at \in Nat /\ f.len \in Nat /\ HeaderLen[f.len] \in Nat \ {0} /\ f.op \in Ops /\ f.fin \in BOOLEAN
         /\ After(f) \in Nat /\ After(f) = f.at + (HeaderLen[f.len] + f.len)
         /\ (HeaderLen[f.len] + f.len) % SizeMod = HeaderLen[f.len] + f.len
<1>1. f.at \in Nat /\ f.len \in setup.lengths /\ f.op \in Ops /\ f.fin \in BOOLEAN
  BY DEF Frame
<1>2. /\ f.len \in Nat /\ HeaderLen[f.len] \in Nat \ {0} /\ HeaderLen[f.len] + f.len < SizeMod
      /\ SizeMod \in Nat \ {0}
  BY <1>1, WsAssumption
<1>3. PICK a \in Nat, h \in Nat \ {0}, n \in Nat : a = f.at /\ h = HeaderLen[f.len] /\ n = f.len
  BY <1>1, <1>2
<1>4. After(f) = a + h + n
  BY <1>3 DEF After
<1>5. (h + n) % SizeMod = h + n
  <2>1. h + n \in Nat /\ h + n < SizeMod
    BY <1>2, <1>3
  <2> QED
    BY <1>2, <2>1, ModSmall
<1>6. After(f) \in Nat /\ After(f) = a + (h + n)
  BY <1>4
<1>7. After(f) \in Nat /\ After(f) = f.at + (HeaderLen[f.len] + f.len)
  BY <1>3, <1>6, Zenon
<1>8. (HeaderLen[f.len] + f.len) % SizeMod = HeaderLen[f.len] + f.len
  BY <1>3, <1>5, Zenon
<1> QED
  BY <1>1, <1>2, <1>7, <1>8, Zenon

LEMMA FramesAre ==
  ASSUME Types
  PROVE  Len(frames) \in Nat /\ \A i \in 1 .. Len(frames) : frames[i] \in Frame
BY LenProperties, ElementOfSeq DEF Types

LEMMA BoundIs ==
  ASSUME Types, NEW i \in Nat \ {0}
  PROVE  Bound(i) \in Nat
<1>1. Len(frames) \in Nat /\ end \in Nat /\ setup \in Setups
  BY FramesAre DEF Types
<1>2. CASE i <= Len(frames)
  <2>1. i \in 1 .. Len(frames)
    BY <1>1, <1>2
  <2>2. frames[i].at \in Nat
    BY <1>1, <2>1, FramesAre, FrameIs
  <2> QED
    BY <1>2, <2>2 DEF Bound
<1>3. CASE ~(i <= Len(frames))
  BY <1>1, <1>3 DEF Bound
<1> QED
  BY <1>2, <1>3

LEMMA InitDecoder == Init => Decoder
<1> SUFFICES ASSUME Init PROVE Decoder
  OBVIOUS
<1>1. /\ setup \in Setups /\ frames = <<>> /\ end = Answered /\ arrived = 0 /\ ignore = 0 /\ pc = "idle"
      /\ pbuf = <<>> /\ buf = <<>>
      /\ pstate = IF setup.proxy = <<>> THEN "Connected" ELSE "Connecting"
      /\ state = IF setup.proxy = <<>> THEN "Connecting" ELSE "Disconnected"
  BY DEF Init
<1>2. /\ ProxyLen \in Nat /\ Opening \in Nat /\ ServerLen \in Nat /\ Opening = ProxyLen + ServerLen
      /\ FirstEmpty \in 1 .. ServerLen
  BY <1>1, SetupIs
<1>3. end \in Nat /\ end <= Opening
  <2>1. setup.early \in 0 .. ServerLen
    BY <1>1, WsAssumption DEF ServerLen
  <2>2. end = Opening \/ end = ProxyLen + setup.early
    BY <1>1 DEF Answered, ProxyLen
  <2> QED
    BY <1>2, <2>1, <2>2
<1>4. setup.proxy = <<>> => ProxyLen = 0 /\ end = Opening
  BY <1>1, EmptySeq DEF ProxyLen, Answered
<1>5. setup.proxy # <<>> => ProxyLen > 0
  <2>1. setup.proxy \in Seq(Symbols)
    BY <1>1, SetupIs
  <2> QED
    BY <2>1, EmptySeq DEF ProxyLen
<1>6. Types
  <2>1. frames \in Seq(Frame)
    BY <1>1, EmptySeq
  <2> QED
    BY <1>1, <1>3, <2>1 DEF Types, States
<1>7. Layout
  <2>1. Len(frames) = 0
    BY <1>1, EmptySeq
  <2>2. Bound(1) = end
    BY <2>1 DEF Bound
  <2>3. end >= Opening => end = Opening
    BY <1>2, <1>3
  <2>4. 1 .. Len(frames) = {}
    BY <2>1
  <2> QED
    BY <1>1, <2>2, <2>3, <2>4 DEF Layout
<1>8. Run(0, 0) = <<>>
  BY RunEmpty
<1>9. AtProxy
  BY <1>1, <1>2, <1>5, <1>8 DEF AtProxy
<1>10. AtHandshake
  <2>1. CASE state = "Connecting"
    <3>1. setup.proxy = <<>> /\ ProxyLen = 0 /\ end = Opening /\ pstate = "Connected"
      BY <1>1, <1>4, <2>1
    <3>2. ProxyAgrees
      BY <3>1 DEF ProxyAgrees
    <3>3. buf = Run(ProxyLen, arrived - ProxyLen) /\ arrived - ProxyLen < FirstEmpty /\ arrived >= ProxyLen /\ end >= Opening
      BY <1>1, <1>2, <1>8, <3>1
    <3> QED
      BY <1>1, <3>1, <3>2, <3>3 DEF AtHandshake
  <2> QED
    BY <2>1 DEF AtHandshake
<1>11. AtFrames
  BY <1>1 DEF AtFrames, Open
<1>12. arrived <= end
  BY <1>1, <1>3
<1> QED
  BY <1>6, <1>7, <1>9, <1>10, <1>11, <1>12 DEF Decoder

\* Whatever the application, timers and the connection below do: a transport may
\* be closed, and incoming() may return.
Leaves ==
  /\ UNCHANGED <<setup, frames, end, arrived, ignore, pbuf, rest, buf>>
  /\ pc' = pc \/ (pc = "frames" /\ pc' = "idle")
  /\ state' \in {state, "Disconnected", "Failed"}
  /\ pstate' = pstate \/ (pstate' \in {"Failed", "Disconnected"} /\ state' # "Connecting")
  /\ state' = "Failed" => state = "Failed" \/ pstate # "Connecting"

LEMMA LeavesDecoder == ASSUME Decoder, Leaves PROVE Decoder'
<1>1. /\ setup' = setup /\ frames' = frames /\ end' = end /\ arrived' = arrived /\ ignore' = ignore
      /\ pbuf' = pbuf /\ rest' = rest /\ buf' = buf
      /\ pc' = pc \/ (pc = "frames" /\ pc' = "idle")
      /\ state' \in {state, "Disconnected", "Failed"}
      /\ pstate' = pstate \/ (pstate' \in {"Failed", "Disconnected"} /\ state' # "Connecting")
      /\ state' = "Failed" => state = "Failed" \/ pstate # "Connecting"
  BY DEF Leaves
<1>2. Types /\ Layout /\ AtProxy /\ AtHandshake /\ AtFrames /\ arrived <= end
  BY DEF Decoder
<1>3. Types'
  BY <1>1, <1>2 DEF Types, Frame, States
<1>4. Layout'
  BY <1>1, <1>2 DEF Layout, Bound, Opening
<1>5. AtProxy'
  <2>1. ASSUME pstate' = "Connecting" PROVE state' = "Disconnected" /\ pc' = "idle"
    BY <1>1, <1>2, <2>1 DEF AtProxy
  <2> QED
    BY <1>1, <1>2, <2>1 DEF AtProxy, ProxyLen
<1>6. AtHandshake'
  <2>1. ASSUME state' = "Connecting" PROVE state = "Connecting" /\ pstate' = pstate /\ pc' = pc
    BY <1>1, <1>2, <2>1 DEF AtHandshake
  <2> QED
    BY <1>1, <1>2, <2>1 DEF AtHandshake, ProxyAgrees, ProxyLen, FirstEmpty, Opening
<1>7. AtFrames'
  <2>1. Open' => Open /\ pc' # "rest"
    BY <1>1, <1>2 DEF AtFrames, Open
  <2>2. \A n, k : At(n, k) => At(n, k)'
    BY <1>1 DEF At, Bound
  <2>3. Open => \E n \in 0 .. arrived, k \in 0 .. Len(frames) : At(n, k)
    BY <1>2 DEF AtFrames
  <2>4. Open' => (\E n \in 0 .. arrived, k \in 0 .. Len(frames) : At(n, k))'
    BY <1>1, <2>1, <2>2, <2>3
  <2>5. pc' = "frames" => pc = "frames"
    BY <1>1
  <2> QED
    BY <1>1, <1>2, <2>1, <2>4, <2>5 DEF AtFrames, Open, Opening
<1> QED
  BY <1>1, <1>2, <1>3, <1>4, <1>5, <1>6, <1>7 DEF Decoder

\* One frame more, at the end of the stream.
LEMMA PeerSendDoes ==
  ASSUME Types, NEW op \in Ops, NEW fin \in BOOLEAN, NEW len \in setup.lengths, PeerSend(op, fin, len)
  PROVE  \E f \in Frame :
           /\ f = [op |-> op, fin |-> fin, len |-> len, at |-> end] /\ frames' = Append(frames, f) /\ end' = After(f)
           /\ end >= Opening /\ end \in Nat /\ end' \in Nat /\ end' > end /\ frames' \in Seq(Frame)
           /\ Len(frames) \in Nat /\ Len(frames') = Len(frames) + 1 /\ frames'[Len(frames) + 1] = f
           /\ \A i \in 1 .. Len(frames) : frames'[i] = frames[i]
           /\ setup' = setup /\ UNCHANGED <<arrived, ignore, pbuf, rest, buf, pc, state, pstate>>
<1> DEFINE f == [op |-> op, fin |-> fin, len |-> len, at |-> end]
<1>1. f \in Frame
  BY DEF Frame, Types
<1>2. frames' = Append(frames, f) /\ end' = end + HeaderLen[len] + len /\ end >= Opening
  BY DEF PeerSend
<1>3. setup' = setup /\ UNCHANGED <<arrived, ignore, pbuf, rest, buf, pc, state, pstate>>
  BY DEF PeerSend, parseVars, proxyVars
<1>4. f.at = end /\ f.len = len
  OBVIOUS
<1> HIDE DEF f
<1>5. end' = After(f)
  BY <1>2, <1>4 DEF After
<1>6. end \in Nat /\ end' \in Nat /\ end' > end
  <2>1. /\ f.at \in Nat /\ f.len \in Nat /\ HeaderLen[f.len] \in Nat \ {0}
        /\ After(f) = f.at + (HeaderLen[f.len] + f.len)
    BY <1>1, FrameIs DEF Types
  <2>2. PICK h \in Nat \ {0}, n \in Nat : h = HeaderLen[f.len] /\ n = f.len
    BY <2>1
  <2>3. end' = end + (h + n) /\ end \in Nat
    BY <1>4, <1>5, <2>1, <2>2
  <2> QED
    BY <2>3
<1>7. frames \in Seq(Frame)
  BY DEF Types
<1>8. /\ frames' \in Seq(Frame) /\ Len(frames') = Len(frames) + 1 /\ Len(frames) \in Nat
      /\ frames'[Len(frames) + 1] = f
      /\ \A i \in 1 .. Len(frames) : frames'[i] = frames[i]
  BY <1>1, <1>2, <1>7, AppendProperties, LenProperties
<1> QED
  BY <1>1, <1>2, <1>3, <1>5, <1>6, <1>8 DEF f

\* What a frame more leaves as it is, and what it adds.
LEMMA Grows ==
  ASSUME NEW f, NEW n \in Nat, f.at = end, Len(frames) = n, Len(frames') = n + 1,
         frames'[n + 1] = f, \A i \in 1 .. n : frames'[i] = frames[i]
  PROVE  /\ \A i \in 1 .. n + 1 : Bound(i)' = Bound(i)
         /\ Bound(n + 2)' = end' /\ Bound(n + 1)' = end
<1>1. n \in Nat /\ n + 1 \in Nat /\ n + 1 <= n + 1 /\ ~(n + 1 <= n) /\ ~(n + 2 <= n + 1)
  OBVIOUS
<1>2. Bound(n + 1)' = end /\ Bound(n + 1) = end
  <2>1. Bound(n + 1)' = frames'[n + 1].at
    BY <1>1 DEF Bound
  <2>2. Bound(n + 1) = end
    BY <1>1 DEF Bound
  <2> QED
    BY <2>1, <2>2
<1>3. Bound(n + 2)' = end'
  BY <1>1 DEF Bound
<1>4. ASSUME NEW i \in 1 .. n PROVE Bound(i)' = Bound(i)
  <2>1. i <= n /\ i <= n + 1
    BY <1>1
  <2>2. Bound(i)' = frames'[i].at /\ Bound(i) = frames[i].at
    BY <2>1 DEF Bound
  <2> QED
    BY <2>2
<1>5. ASSUME NEW i \in 1 .. n + 1 PROVE Bound(i)' = Bound(i)
  <2>1. CASE i \in 1 .. n
    BY <1>4, <2>1
  <2>2. CASE i = n + 1
    BY <1>2, <2>2
  <2> QED
    BY <1>1, <2>1, <2>2
<1> QED
  BY <1>2, <1>3, <1>5

LEMMA PeerSendDecoder ==
  ASSUME Decoder, NEW op \in Ops, NEW fin \in BOOLEAN, NEW len \in setup.lengths, PeerSend(op, fin, len)
  PROVE  Decoder'
<1>1. Types /\ Layout /\ AtProxy /\ AtHandshake /\ AtFrames /\ arrived <= end
  BY DEF Decoder
<1>2. PICK f \in Frame :
        /\ f = [op |-> op, fin |-> fin, len |-> len, at |-> end] /\ frames' = Append(frames, f) /\ end' = After(f)
        /\ end >= Opening /\ end \in Nat /\ end' \in Nat /\ end' > end /\ frames' \in Seq(Frame)
        /\ Len(frames) \in Nat /\ Len(frames') = Len(frames) + 1 /\ frames'[Len(frames) + 1] = f
        /\ \A i \in 1 .. Len(frames) : frames'[i] = frames[i]
        /\ setup' = setup /\ UNCHANGED <<arrived, ignore, pbuf, rest, buf, pc, state, pstate>>
  BY <1>1, PeerSendDoes
<1>3. f.at = end
  BY <1>2
<1>4. PICK n \in Nat : n = Len(frames)
  BY <1>2
<1>5. /\ \A i \in 1 .. n + 1 : Bound(i)' = Bound(i)
      /\ Bound(n + 2)' = end' /\ Bound(n + 1)' = end
  <2>1. /\ Len(frames) = n /\ Len(frames') = n + 1 /\ frames'[n + 1] = f
        /\ \A i \in 1 .. n : frames'[i] = frames[i]
    BY <1>2, <1>4
  <2> QED
    BY <1>3, <2>1, Grows
<1>6. Opening' = Opening /\ Opening \in Nat
  BY <1>1, <1>2, SetupIs DEF Opening, Types
<1>7. Types'
  <2>1. Frame' = Frame
    BY <1>2 DEF Frame
  <2> QED
    BY <1>1, <1>2, <2>1 DEF Types
<1>8. \A i \in 1 .. n : /\ After(frames[i]) = Bound(i + 1) /\ After(frames[i]) <= end /\ After(frames[i]) \in Nat
                        /\ frames'[i] = frames[i]
  <2>1. \A i \in 1 .. n : frames[i] \in Frame
    BY <1>1, <1>4, FramesAre
  <2>2. \A i \in 1 .. n : After(frames[i]) \in Nat
    BY <1>1, <2>1, FrameIs DEF Types
  <2> QED
    BY <1>1, <1>2, <1>4, <2>2 DEF Layout
<1>9. Layout'
  <2>1. ASSUME NEW i \in 1 .. n + 1 PROVE After(frames'[i]) = Bound(i + 1)' /\ After(frames'[i]) <= end'
    <3>1. CASE i \in 1 .. n
      <4>1. i + 1 \in 1 .. n + 1
        BY <3>1
      <4>2. After(frames'[i]) = Bound(i + 1)'
        BY <1>5, <1>8, <3>1, <4>1
      <4>3. After(frames'[i]) <= end'
        <5>1. PICK x \in Nat : x = After(frames'[i])
          BY <1>8, <3>1
        <5>2. x <= end
          BY <1>8, <3>1, <5>1
        <5>3. x <= end'
          BY <1>2, <5>2
        <5> QED
          BY <5>1, <5>3
      <4> QED
        BY <4>2, <4>3
    <3>2. CASE i = n + 1
      <4>1. frames'[i] = f /\ Len(frames') = n + 1 /\ ~(i + 1 <= n + 1)
        BY <1>2, <1>4, <3>2
      <4>2. Bound(i + 1)' = end'
        BY <4>1 DEF Bound
      <4> QED
        BY <1>2, <4>1, <4>2
    <3> QED
      BY <3>1, <3>2
  <2>2. ASSUME NEW i \in 1 .. n + 1, NEW j \in 1 .. n + 1, i < j PROVE After(frames'[i]) <= frames'[j].at
    <3>1. i \in 1 .. n
      BY <2>2
    <3>2. CASE j \in 1 .. n
      BY <1>1, <1>4, <1>8, <2>2, <3>1, <3>2 DEF Layout
    <3>3. CASE j = n + 1
      <4>1. frames'[j] = f
        BY <1>2, <1>4, <3>3
      <4> QED
        BY <1>3, <1>8, <3>1, <4>1
    <3> QED
      BY <3>2, <3>3
  <2>3. end' >= Opening' /\ ~(end' < Opening')
    BY <1>2, <1>6
  <2>4. Bound(1)' = Opening'
    <3>1. 1 \in 1 .. n + 1
      OBVIOUS
    <3> QED
      BY <1>1, <1>2, <1>5, <1>6, <3>1 DEF Layout
  <2>5. Len(frames') = n + 1
    BY <1>2, <1>4
  <2> QED
    BY <2>1, <2>2, <2>3, <2>4, <2>5 DEF Layout
<1>10. AtProxy'
  BY <1>1, <1>2 DEF AtProxy, ProxyLen
<1>11. AtHandshake'
  <2>1. end' >= Opening'
    BY <1>2, <1>6
  <2> QED
    BY <1>1, <1>2, <2>1 DEF AtHandshake, ProxyAgrees, ProxyLen, FirstEmpty
<1>12. AtFrames'
  <2> SUFFICES ASSUME Open' PROVE AtFrames'
    BY DEF AtFrames
  <2>1. Open
    BY <1>2 DEF Open
  <2>2. PICK m \in 0 .. arrived, k \in 0 .. n : At(m, k)
    BY <1>1, <1>4, <2>1 DEF AtFrames
  <2>3. k + 1 \in 1 .. n + 1 /\ k \in 0 .. n + 1
    BY <2>2
  <2>4. At(m, k)'
    BY <1>2, <1>5, <2>2, <2>3 DEF At
  <2>5. (\E x \in 0 .. arrived, y \in 0 .. Len(frames) : At(x, y))'
    BY <1>2, <1>4, <2>2, <2>3, <2>4
  <2>6. end' >= Opening'
    BY <1>2, <1>6
  <2> QED
    BY <1>1, <1>2, <1>6, <2>1, <2>5, <2>6 DEF AtFrames
<1>13. arrived' <= end'
  BY <1>1, <1>2 DEF Types
<1> QED
  BY <1>7, <1>9, <1>10, <1>11, <1>12, <1>13 DEF Decoder

\* What insert() does with the bytes b that are then in mBuffer.
LEMMA InsertDoes ==
  ASSUME NEW m, NEW b, b = buf \o m, Insert(m)
  PROVE  \E n \in {IF state = "Connecting" THEN WsResponse(Text(b)) ELSE 0} :
           /\ buf' = IF n > 0 THEN Drop(b, n) ELSE b
           /\ pc' = IF n = Throws THEN "idle" ELSE "skip"
           /\ n = 0 => state' = state
           /\ n = Throws /\ n # 0 => state' = IF state = "Connected" THEN "Disconnected" ELSE "Failed"
           /\ n > 0 /\ n # 0 /\ n # Throws => state' = "Connected"
           /\ UNCHANGED <<setup, frames, end, pstate, pbuf, ignore>>
<1>1. PICK n \in {IF state = "Connecting" THEN WsResponse(Text(b)) ELSE 0} :
        /\ buf' = IF n > 0 THEN Drop(b, n) ELSE b
        /\ pc' = IF n = Throws THEN "idle" ELSE "skip"
        /\ CASE n = 0      -> UNCHANGED <<state, listening>>
             [] n = Throws -> Broken
             [] n > 0      -> ChangeState("Connected")
        /\ UNCHANGED <<peerVars, up, proxyVars, ignore, msgVars, pings, closeVars, closer>>
  BY DEF Insert
<1>2. UNCHANGED <<setup, frames, end, pstate, pbuf, ignore>>
  BY <1>1 DEF peerVars, proxyVars
<1>3. ASSUME n = 0 PROVE state' = state
  <2>1. n # Throws /\ ~(n > 0)
    BY <1>3 DEF Throws
  <2> QED
    BY <1>1, <1>3, <2>1
<1>4. ASSUME n = Throws, n # 0 PROVE state' = IF state = "Connected" THEN "Disconnected" ELSE "Failed"
  <2>1. ~(n > 0)
    BY <1>4 DEF Throws
  <2>2. Broken
    BY <1>1, <1>4, <2>1
  <2> QED
    BY <2>2 DEF Broken, ChangeState
<1>5. ASSUME n > 0, n # 0, n # Throws PROVE state' = "Connected"
  <2>1. ChangeState("Connected")
    BY <1>1, <1>5
  <2> QED
    BY <2>1 DEF ChangeState
<1> QED
  BY <1>1, <1>2, <1>3, <1>4, <1>5

\* More of the server's answer, or the last of it and what came along.
LEMMA InsertConnecting ==
  ASSUME Decoder, state = "Connecting", NEW m, NEW x \in Nat, buf \o m = Run(ProxyLen, x), Insert(m),
         arrived' = ProxyLen + x, arrived' <= end
  PROVE  Decoder'
<1>1. Types /\ Layout /\ AtHandshake
  BY DEF Decoder
<1>2. /\ ProxyLen \in Nat /\ Opening \in Nat /\ ServerLen \in Nat /\ Opening = ProxyLen + ServerLen
      /\ FirstEmpty \in 1 .. ServerLen
      /\ Accepts(setup) <=> ProxyAgrees /\ ServerAgrees
      /\ Accepts(setup) => FirstEmpty = ServerLen
  BY <1>1, SetupIs DEF Types
<1>3. pstate = "Connected" /\ ignore = 0 /\ ProxyAgrees /\ end >= Opening
  BY <1>1 DEF AtHandshake
<1> DEFINE b == Run(ProxyLen, x)
<1>4. PICK n \in {WsResponse(Text(b))} :
        /\ buf' = IF n > 0 THEN Drop(b, n) ELSE b
        /\ pc' = IF n = Throws THEN "idle" ELSE "skip"
        /\ n = 0 => state' = state
        /\ n = Throws /\ n # 0 => state' = IF state = "Connected" THEN "Disconnected" ELSE "Failed"
        /\ n > 0 /\ n # 0 /\ n # Throws => state' = "Connected"
        /\ UNCHANGED <<setup, frames, end, pstate, pbuf, ignore>>
  BY InsertDoes
<1>5. /\ x < FirstEmpty => n = 0
      /\ x >= FirstEmpty => n = IF ServerAgrees THEN FirstEmpty ELSE Throws
  BY <1>1, <1>4, WsReads DEF Types
<1> HIDE DEF b
<1>6. setup' = setup /\ frames' = frames /\ end' = end /\ pstate' = pstate /\ pbuf' = pbuf /\ ignore' = ignore
  BY <1>4
<1>7. arrived' \in Nat /\ arrived' - ProxyLen = x /\ arrived' >= ProxyLen
  BY <1>2
<1>8. Layout'
  BY <1>1, <1>6 DEF Layout, Bound, Opening
<1>9. AtProxy'
  BY <1>3, <1>6 DEF AtProxy
<1>10. arrived' <= end'
  BY <1>6
<1>11. ASSUME state' \in States, pc' \in {"idle", "skip"} PROVE Types'
  BY <1>1, <1>6, <1>7, <1>11 DEF Types, Frame
<1>12. ProxyLen' = ProxyLen /\ Opening' = Opening /\ FirstEmpty' = FirstEmpty /\ (ProxyAgrees' <=> ProxyAgrees)
  BY <1>6 DEF ProxyLen, Opening, FirstEmpty, ProxyAgrees
<1>13. CASE x < FirstEmpty
  <2>1. n = 0
    BY <1>5, <1>13
  <2>2. buf' = b /\ pc' = "skip" /\ state' = "Connecting"
    BY <1>4, <2>1 DEF Throws
  <2>3. AtHandshake'
    <3>1. buf' = Run(ProxyLen', arrived' - ProxyLen') /\ arrived' - ProxyLen' < FirstEmpty' /\ arrived' >= ProxyLen'
      BY <1>7, <1>12, <1>13, <2>2 DEF b
    <3>2. pstate' = "Connected" /\ ignore' = 0 /\ ProxyAgrees' /\ end' >= Opening' /\ pc' # "frames" /\ pc' # "rest"
      BY <1>3, <1>6, <1>12, <2>2
    <3> QED
      BY <3>1, <3>2 DEF AtHandshake
  <2>4. AtFrames'
    BY <2>2 DEF AtFrames, Open
  <2>5. Types'
    BY <1>11, <2>2 DEF States
  <2> QED
    BY <1>8, <1>9, <1>10, <2>3, <2>4, <2>5 DEF Decoder
<1>14. CASE x >= FirstEmpty /\ ServerAgrees
  <2>1. n = ServerLen /\ FirstEmpty = ServerLen /\ Accepts(setup) /\ ServerLen > 0 /\ ServerLen <= x
    BY <1>2, <1>3, <1>5, <1>14
  <2>2. n > 0 /\ n # 0 /\ n # Throws
    BY <1>2, <2>1 DEF Throws
  <2>3. buf' = Drop(b, n) /\ pc' = "skip" /\ state' = "Connected"
    BY <1>4, <2>2
  <2>4. buf' = Run(ProxyLen + ServerLen, x - ServerLen)
    BY <1>2, <2>1, <2>3, RunDrop DEF b
  <2>5. PICK k \in Nat : k = x - ServerLen /\ arrived' - k = ProxyLen + ServerLen /\ k \in 0 .. arrived'
    <3>1. PICK p \in Nat, r \in Nat, z \in Nat : p = ProxyLen /\ r = ServerLen /\ z = arrived'
      BY <1>2, <1>7
    <3>2. r <= x /\ z = p + x
      BY <2>1, <3>1
    <3>3. x - r \in Nat /\ z - (x - r) = p + r /\ x - r \in 0 .. z
      BY <3>2
    <3> QED
      BY <3>1, <3>3
  <2>6. At(k, 0)'
    <3>1. Bound(0 + 1)' = Opening
      <4>1. 0 + 1 = 1
        OBVIOUS
      <4>2. Bound(1) = Opening
        BY <1>1, <1>3 DEF Layout
      <4>3. Bound(0 + 1)' = Bound(1)
        BY <1>6, <4>1 DEF Bound
      <4> QED
        BY <4>2, <4>3
    <3>2. arrived' - k + ignore' = Opening
      BY <1>2, <1>3, <1>6, <2>5
    <3> QED
      BY <2>4, <2>5, <3>1, <3>2 DEF At
  <2>7. (\E u \in 0 .. arrived, v \in 0 .. Len(frames) : At(u, v))'
    <3>1. 0 \in 0 .. Len(frames')
      BY <1>1, <1>6, FramesAre
    <3> QED
      BY <2>5, <2>6, <3>1
  <2>8. AtFrames'
    <3>1. arrived' >= Opening' /\ end' >= Opening' /\ Accepts(setup')
      BY <1>2, <1>3, <1>6, <1>12, <2>1
    <3> QED
      BY <2>3, <2>7, <3>1 DEF AtFrames
  <2>9. AtHandshake'
    BY <2>3 DEF AtHandshake
  <2>10. Types'
    BY <1>11, <2>3 DEF States
  <2> QED
    BY <1>8, <1>9, <1>10, <2>8, <2>9, <2>10 DEF Decoder
<1>15. CASE x >= FirstEmpty /\ ~ServerAgrees
  <2>1. n = Throws /\ n # 0
    BY <1>5, <1>15 DEF Throws
  <2>2. pc' = "idle" /\ state' = "Failed"
    BY <1>4, <2>1
  <2>3. Types' /\ AtHandshake' /\ AtFrames'
    BY <1>11, <2>2 DEF States, AtHandshake, AtFrames, Open
  <2> QED
    BY <1>8, <1>9, <1>10, <2>3 DEF Decoder
<1> QED
  BY <1>2, <1>13, <1>14, <1>15

\* A chunk for a transport that is connected, or that was closed.
LEMMA InsertOther ==
  ASSUME Decoder, state # "Connecting", pstate # "Connecting", NEW m, Insert(m), NEW d \in Nat, arrived' = arrived + d,
         arrived' <= end, state = "Connected" => m = Run(arrived, d)
  PROVE  Decoder'
<1>1. Types /\ Layout /\ AtFrames
  BY DEF Decoder
<1>1a. arrived \in Nat /\ arrived' \in Nat
  <2>1. arrived \in Nat
    BY <1>1 DEF Types
  <2> QED
    BY <2>1
<1>2. /\ buf' = IF 0 > 0 THEN Drop(buf \o m, 0) ELSE buf \o m
      /\ pc' = IF 0 = Throws THEN "idle" ELSE "skip"
      /\ state' = state /\ UNCHANGED <<setup, frames, end, pstate, pbuf, ignore>>
  <2>1. PICK b : b = buf \o m
    OBVIOUS
  <2>2. PICK n \in {IF state = "Connecting" THEN WsResponse(Text(b)) ELSE 0} :
           /\ buf' = IF n > 0 THEN Drop(b, n) ELSE b
           /\ pc' = IF n = Throws THEN "idle" ELSE "skip"
           /\ n = 0 => state' = state
           /\ n = Throws /\ n # 0 => state' = IF state = "Connected" THEN "Disconnected" ELSE "Failed"
           /\ n > 0 /\ n # 0 /\ n # Throws => state' = "Connected"
           /\ UNCHANGED <<setup, frames, end, pstate, pbuf, ignore>>
    BY <2>1, InsertDoes, SMTT(30)
  <2>3. n = 0
    BY <2>2
  <2> QED
    BY <2>1, <2>2, <2>3
<1>3. buf' = buf \o m /\ pc' = "skip" /\ state' = state
  BY <1>2 DEF Throws
<1>4. setup' = setup /\ frames' = frames /\ end' = end /\ pstate' = pstate /\ pbuf' = pbuf /\ ignore' = ignore
  BY <1>2
<1>5. Types'
  BY <1>1, <1>1a, <1>3, <1>4 DEF Types, Frame
<1>6. Layout'
  BY <1>1, <1>4 DEF Layout, Bound, Opening
<1>7. AtProxy' /\ AtHandshake'
  BY <1>3, <1>4 DEF AtProxy, AtHandshake
<1>8. AtFrames'
  <2> SUFFICES ASSUME Open' PROVE AtFrames'
    BY DEF AtFrames
  <2>1. state = "Connected" /\ Open
    BY <1>3 DEF Open
  <2>2. PICK n \in 0 .. arrived, k \in 0 .. Len(frames) : At(n, k)
    BY <1>1, <2>1 DEF AtFrames
  <2>3. PICK x \in Nat, a \in Nat : x = arrived /\ a = x - n /\ x = a + n /\ n \in Nat
    BY <1>1a, <2>2
  <2>4. arrived' = a + (n + d) /\ n + d \in Nat /\ a + (n + d) - (n + d) = a /\ n + d \in 0 .. a + (n + d)
    BY <2>3
  <2>5. buf = Run(a, n) /\ m = Run(a + n, d) /\ a + ignore = Bound(k + 1)
    BY <2>1, <2>2, <2>3 DEF At
  <2>6. buf' = Run(a, n + d)
    BY <1>3, <2>3, <2>5, RunConcat, ZenonT(40)
  <2>7. At(n + d, k)'
    <3>1. Bound(k + 1)' = Bound(k + 1) /\ ignore' = ignore
      BY <1>4 DEF Bound
    <3> QED
      BY <2>4, <2>5, <2>6, <3>1 DEF At
  <2>8. (\E u \in 0 .. arrived, v \in 0 .. Len(frames) : At(u, v))'
    BY <1>4, <2>2, <2>4, <2>7
  <2>9. Accepts(setup) /\ arrived >= Opening /\ end >= Opening
    BY <1>1, <2>1 DEF AtFrames
  <2>10. arrived' >= Opening' /\ end' >= Opening'
    <3>1. Opening' = Opening /\ Opening \in Nat
      BY <1>1, <1>4, SetupIs DEF Opening, Types
    <3>2. arrived + d >= Opening
      BY <1>1a, <2>9, <3>1
    <3> QED
      BY <1>4, <2>9, <3>1, <3>2
  <2> QED
    BY <1>3, <1>4, <2>8, <2>9, <2>10 DEF AtFrames
<1> QED
  BY <1>4, <1>5, <1>6, <1>7, <1>8 DEF Decoder

\* While the transport is connecting, mBuffer then has all bytes behind the answer
\* of the proxy.
HandshakeBytes(m) ==
  \E x \in Nat : buf \o m = Run(ProxyLen, x) /\ Insert(m) /\ arrived' = ProxyLen + x /\ arrived' <= end

LEMMA ChunkSees ==
  ASSUME Decoder, state = "Connecting", NEW k \in Nat, IncomingChunk(k)
  PROVE  HandshakeBytes(Chunk(k))
<1>1. pc = "idle" /\ arrived + k <= end /\ arrived' = arrived + k /\ Insert(Chunk(k))
  BY DEF IncomingChunk
<1>2. Chunk(k) = Run(arrived, k)
  BY ChunkIs
<1>3. arrived \in Nat /\ setup \in Setups
  BY DEF Decoder, Types
<1>4. ProxyLen \in Nat
  BY <1>3, SetupIs
<1>5. arrived >= ProxyLen /\ buf = Run(ProxyLen, arrived - ProxyLen)
  BY <1>1 DEF Decoder, AtHandshake
<1>6. PICK y \in Nat : y = arrived - ProxyLen /\ arrived = ProxyLen + y
  BY <1>3, <1>4, <1>5
<1>7. buf \o Chunk(k) = Run(ProxyLen, y + k)
  <2>1. buf = Run(ProxyLen, y) /\ Chunk(k) = Run(ProxyLen + y, k)
    BY <1>2, <1>5, <1>6
  <2>2. Run(ProxyLen, y) \o Run(ProxyLen + y, k) = Run(ProxyLen, y + k)
    BY <1>4, RunConcat, ZenonT(40)
  <2> QED
    BY <2>1, <2>2
<1>8. y + k \in Nat /\ arrived' = ProxyLen + (y + k) /\ arrived' <= end
  BY <1>1, <1>4, <1>6
<1> QED
  BY <1>1, <1>7, <1>8 DEF HandshakeBytes

LEMMA RestSees ==
  ASSUME Decoder, state = "Connecting", IncomingRest
  PROVE  HandshakeBytes(rest)
<1>1. pc = "rest" /\ Insert(rest) /\ arrived' = arrived
  BY DEF IncomingRest
<1>2. arrived \in Nat /\ arrived' <= end /\ setup \in Setups
  BY <1>1 DEF Decoder, Types
<1>3. ProxyLen \in Nat
  BY <1>2, SetupIs
<1>4. arrived >= ProxyLen /\ buf = <<>> /\ rest = Run(ProxyLen, arrived - ProxyLen)
  BY <1>1 DEF Decoder, AtHandshake
<1>5. PICK y \in Nat : y = arrived - ProxyLen /\ arrived = ProxyLen + y
  BY <1>2, <1>3, <1>4
<1>6. buf \o rest = Run(ProxyLen, y)
  <2>1. Run(ProxyLen, y) \in Seq(Nat)
    BY <1>3, RunIs
  <2> QED
    BY <1>4, <1>5, <2>1, ConcatEmptySeq
<1> QED
  BY <1>1, <1>2, <1>5, <1>6 DEF HandshakeBytes

LEMMA IncomingChunkDecoder ==
  ASSUME Decoder, NEW k \in Nat, IncomingChunk(k)
  PROVE  Decoder'
<1>1. /\ arrived + k <= end /\ arrived' = arrived + k /\ pstate = "Connected"
      /\ state \in {"Connecting", "Connected"} /\ Insert(Chunk(k))
  BY DEF IncomingChunk
<1>2. Chunk(k) = Run(arrived, k) /\ arrived' <= end
  BY <1>1, ChunkIs
<1>3. CASE state = "Connected"
  BY <1>1, <1>2, <1>3, InsertOther
<1>4. CASE state = "Connecting"
  BY <1>4, ChunkSees, InsertConnecting DEF HandshakeBytes
<1> QED
  BY <1>1, <1>3, <1>4

LEMMA IncomingRestDecoder ==
  ASSUME Decoder, IncomingRest
  PROVE  Decoder'
<1>1. pc = "rest" /\ Insert(rest) /\ arrived' = arrived
  BY DEF IncomingRest
<1>2. Types /\ AtProxy /\ AtHandshake /\ AtFrames /\ arrived <= end
  BY DEF Decoder
<1>3. CASE state = "Connecting"
  BY <1>3, RestSees, InsertConnecting DEF HandshakeBytes
<1>4. CASE state # "Connecting"
  <2>1. 0 \in Nat /\ arrived' = arrived + 0 /\ arrived' <= end
    BY <1>1, <1>2 DEF Types
  <2>2. pstate # "Connecting" /\ state # "Connected"
    BY <1>1, <1>2 DEF AtProxy, AtFrames, Open
  <2> QED
    BY <1>1, <1>4, <2>1, <2>2, InsertOther
<1> QED
  BY <1>3, <1>4

\* What the proxy's HTTP transport does with the bytes it has then.
LEMMA ProxyChunkDoes ==
  ASSUME NEW k, NEW b, b = pbuf \o Chunk(k), ProxyChunk(k)
  PROVE  \E n \in {ProxyResponse(Text(b))} :
           /\ pstate = "Connecting" /\ pc = "idle" /\ arrived + k <= end /\ arrived' = arrived + k
           /\ rest' = IF n > 0 /\ listening THEN Drop(b, n) ELSE <<>>
           /\ pc' = IF rest' = <<>> THEN "idle" ELSE "rest"
           /\ pbuf' = IF n > 0 THEN <<>> ELSE b
           /\ pstate' = CASE n = 0 -> pstate [] n = Throws -> "Failed" [] n > 0 -> "Connected"
           /\ n > 0 /\ listening => state' = "Connecting" /\ end' = Max2(end, Opening)
           /\ ~(n > 0 /\ listening) => state' = state /\ end' = end
           /\ setup' = setup /\ frames' = frames /\ buf' = buf /\ ignore' = ignore
BY DEF ProxyChunk, StartWs, SendHttpRequest

\* It then has all bytes that have arrived, and reads them when the answer is there.
LEMMA ProxySees ==
  ASSUME Decoder, NEW k \in Nat, ProxyChunk(k)
  PROVE  \E z \in Nat, n \in {0, ProxyLen, Throws} :
           /\ arrived' = z /\ z <= end /\ z = arrived + k
           /\ rest' = IF n > 0 /\ listening THEN Drop(Run(0, z), n) ELSE <<>>
           /\ pc' = IF rest' = <<>> THEN "idle" ELSE "rest"
           /\ pbuf' = IF n > 0 THEN <<>> ELSE Run(0, z)
           /\ pstate' = CASE n = 0 -> pstate [] n = Throws -> "Failed" [] n > 0 -> "Connected"
           /\ n > 0 /\ listening => state' = "Connecting" /\ end' = Max2(end, Opening)
           /\ ~(n > 0 /\ listening) => state' = state /\ end' = end
           /\ setup' = setup /\ frames' = frames /\ buf' = buf /\ ignore' = ignore
           /\ z < ProxyLen => n = 0
           /\ z >= ProxyLen => n = IF ProxyAgrees THEN ProxyLen ELSE Throws
<1>1. Types /\ AtProxy
  BY DEF Decoder
<1>2. pstate = "Connecting"
  BY DEF ProxyChunk
<1>3. setup.proxy # <<>> /\ pbuf = Run(0, arrived)
  BY <1>1, <1>2 DEF AtProxy
<1>4. setup \in Setups /\ arrived \in Nat
  BY <1>1 DEF Types
<1>5. PICK z \in Nat : z = arrived + k
  BY <1>4
<1>6. pbuf \o Chunk(k) = Run(0, z)
  <2>1. 0 + arrived = arrived /\ 0 \in Nat
    BY <1>4
  <2>2. Run(0, arrived) \o Run(0 + arrived, k) = Run(0, arrived + k)
    BY <1>4, <2>1, RunConcat
  <2>3. Chunk(k) = Run(0 + arrived, k)
    BY <2>1, ChunkIs
  <2> QED
    BY <1>3, <1>5, <2>2, <2>3
<1> DEFINE b == Run(0, z)
<1>7. PICK n \in {ProxyResponse(Text(b))} :
        /\ pstate = "Connecting" /\ pc = "idle" /\ arrived + k <= end /\ arrived' = arrived + k
        /\ rest' = IF n > 0 /\ listening THEN Drop(b, n) ELSE <<>>
        /\ pc' = IF rest' = <<>> THEN "idle" ELSE "rest"
        /\ pbuf' = IF n > 0 THEN <<>> ELSE b
        /\ pstate' = CASE n = 0 -> pstate [] n = Throws -> "Failed" [] n > 0 -> "Connected"
        /\ n > 0 /\ listening => state' = "Connecting" /\ end' = Max2(end, Opening)
        /\ ~(n > 0 /\ listening) => state' = state /\ end' = end
        /\ setup' = setup /\ frames' = frames /\ buf' = buf /\ ignore' = ignore
  BY <1>6, ProxyChunkDoes
<1>8. /\ z < ProxyLen => n = 0
      /\ z >= ProxyLen => n = IF ProxyAgrees THEN ProxyLen ELSE Throws
  BY <1>3, <1>4, <1>7, ProxyReads
<1>9. ProxyLen \in Nat
  BY <1>4, SetupIs
<1>10. n \in {0, ProxyLen, Throws}
  BY <1>5, <1>8, <1>9
<1> QED
  BY <1>5, <1>7, <1>8, <1>10

LEMMA ProxyChunkDecoder ==
  ASSUME Decoder, NEW k \in Nat, ProxyChunk(k)
  PROVE  Decoder'
<1>1. Types /\ Layout /\ AtProxy /\ AtHandshake /\ AtFrames /\ arrived <= end
  BY DEF Decoder
<1>2. pstate = "Connecting"
  BY DEF ProxyChunk
<1>3. /\ state = "Disconnected" /\ pc = "idle" /\ buf = <<>> /\ ignore = 0
      /\ setup.proxy # <<>> /\ arrived < ProxyLen /\ pbuf = Run(0, arrived)
  BY <1>1, <1>2 DEF AtProxy
<1>4. /\ ProxyLen \in Nat /\ Opening \in Nat /\ ServerLen \in Nat /\ Opening = ProxyLen + ServerLen
      /\ FirstEmpty \in 1 .. ServerLen /\ setup \in Setups /\ arrived \in Nat /\ end \in Nat
  BY <1>1, SetupIs DEF Types
<1>7. PICK z \in Nat, n \in {0, ProxyLen, Throws} :
        /\ arrived' = z /\ z <= end /\ z = arrived + k
        /\ rest' = IF n > 0 /\ listening THEN Drop(Run(0, z), n) ELSE <<>>
        /\ pc' = IF rest' = <<>> THEN "idle" ELSE "rest"
        /\ pbuf' = IF n > 0 THEN <<>> ELSE Run(0, z)
        /\ pstate' = CASE n = 0 -> pstate [] n = Throws -> "Failed" [] n > 0 -> "Connected"
        /\ n > 0 /\ listening => state' = "Connecting" /\ end' = Max2(end, Opening)
        /\ ~(n > 0 /\ listening) => state' = state /\ end' = end
        /\ setup' = setup /\ frames' = frames /\ buf' = buf /\ ignore' = ignore
        /\ z < ProxyLen => n = 0
        /\ z >= ProxyLen => n = IF ProxyAgrees THEN ProxyLen ELSE Throws
  BY ProxySees
<1> DEFINE b == Run(0, z)
<1>8. /\ z < ProxyLen => n = 0
      /\ z >= ProxyLen => n = IF ProxyAgrees THEN ProxyLen ELSE Throws
  BY <1>7
<1> HIDE DEF b
<1>9. arrived' = z /\ z <= end
  BY <1>7
<1>10. ProxyLen' = ProxyLen /\ Opening' = Opening /\ FirstEmpty' = FirstEmpty /\ (ProxyAgrees' <=> ProxyAgrees)
  BY <1>7 DEF ProxyLen, Opening, FirstEmpty, ProxyAgrees
<1>11. setup' = setup /\ frames' = frames /\ buf' = <<>> /\ ignore' = 0
  BY <1>3, <1>7
<1>12. ASSUME end' \in Nat, state' \in States, pstate' \in States, pc' \in {"idle", "rest"} PROVE Types'
  BY <1>1, <1>9, <1>11, <1>12 DEF Types, Frame
<1>13. ASSUME end' = end PROVE Layout' /\ arrived' <= end'
  <2>1. Layout'
    BY <1>1, <1>11, <1>13 DEF Layout, Bound, Opening
  <2> QED
    BY <1>9, <1>13, <2>1
<1>14. CASE z < ProxyLen
  <2>1. n = 0 /\ ~(n > 0)
    BY <1>8, <1>14
  <2>2. rest' = <<>> /\ pc' = "idle" /\ pbuf' = b /\ pstate' = "Connecting" /\ state' = "Disconnected" /\ end' = end
    <3>1. rest' = <<>> /\ pbuf' = b /\ state' = "Disconnected" /\ end' = end
      BY <1>3, <1>7, <2>1 DEF b
    <3>2. n # Throws
      BY <2>1 DEF Throws
    <3>3. pstate' = "Connecting"
      BY <1>2, <1>7, <2>1, <3>2
    <3>4. pc' = "idle"
      BY <1>7, <3>1
    <3> QED
      BY <3>1, <3>3, <3>4
  <2>3. Types' /\ Layout' /\ arrived' <= end'
    BY <1>4, <1>12, <1>13, <2>2 DEF States
  <2>4. AtProxy'
    BY <1>3, <1>9, <1>10, <1>11, <1>14, <2>2 DEF AtProxy, b
  <2>5. AtHandshake' /\ AtFrames'
    BY <2>2 DEF AtHandshake, AtFrames, Open
  <2> QED
    BY <2>3, <2>4, <2>5 DEF Decoder
<1>15. CASE z >= ProxyLen /\ ~(ProxyAgrees /\ listening)
  <2>1. /\ ~(n > 0 /\ listening)
        /\ (n > 0 /\ n # 0 /\ n # Throws) \/ (n = Throws /\ n # 0 /\ ~(n > 0))
    <3>1. ProxyLen > 0
      BY <1>3, <1>4
    <3>2. CASE ProxyAgrees
      <4>1. n = ProxyLen /\ ~listening
        BY <1>8, <1>15, <3>2
      <4>2. n > 0 /\ n # 0 /\ n # Throws
        BY <1>4, <3>1, <4>1 DEF Throws
      <4> QED
        BY <4>1, <4>2
    <3>3. CASE ~ProxyAgrees
      BY <1>8, <1>15, <3>3 DEF Throws
    <3> QED
      BY <3>2, <3>3
  <2>2. rest' = <<>> /\ pc' = "idle" /\ state' = "Disconnected" /\ end' = end
    BY <1>3, <1>7, <2>1
  <2>3. pstate' \in {"Failed", "Connected"}
    <3>1. CASE n = Throws /\ n # 0 /\ ~(n > 0)
      BY <1>7, <3>1
    <3>2. CASE n > 0 /\ n # 0 /\ n # Throws
      BY <1>7, <3>2
    <3> QED
      BY <2>1, <3>1, <3>2
  <2>4. Types' /\ Layout' /\ arrived' <= end'
    BY <1>4, <1>12, <1>13, <2>2, <2>3 DEF States
  <2>5. AtProxy' /\ AtHandshake' /\ AtFrames'
    BY <2>2, <2>3 DEF AtProxy, AtHandshake, AtFrames, Open
  <2> QED
    BY <2>4, <2>5 DEF Decoder
<1>16. CASE z >= ProxyLen /\ ProxyAgrees /\ listening
  <2>1. n = ProxyLen /\ n > 0 /\ n # 0 /\ n # Throws
    BY <1>3, <1>4, <1>8, <1>16 DEF Throws
  <2>2. rest' = Drop(b, n) /\ state' = "Connecting" /\ end' = Max2(end, Opening)
    BY <1>7, <1>16, <2>1 DEF b
  <2>3. pstate' = "Connected"
    BY <1>7, <2>1
  <2>4. PICK x \in Nat : x = z - ProxyLen /\ z = ProxyLen + x
    BY <1>4, <1>16
  <2>5. rest' = Run(ProxyLen, x)
    <3>1. 0 + ProxyLen = ProxyLen /\ ProxyLen <= z /\ 0 \in Nat
      BY <1>4, <1>16
    <3>2. Drop(Run(0, z), ProxyLen) = Run(0 + ProxyLen, z - ProxyLen)
      BY <1>4, <3>1, RunDrop
    <3> QED
      BY <2>1, <2>2, <2>4, <3>1, <3>2 DEF b
  <2>6. end' \in Nat /\ end' >= Opening /\ end' >= end /\ (end' = end \/ (end < Opening /\ end' = Opening))
    BY <1>4, <2>2 DEF Max2
  <2>7. Types'
    <3>1. pc' \in {"idle", "rest"}
      BY <1>7
    <3> QED
      BY <1>12, <2>2, <2>3, <2>6, <3>1 DEF States
  <2>8. Layout'
    <3>1. CASE end' = end
      BY <1>13, <3>1
    <3>2. CASE end < Opening /\ end' = Opening
      <4>1. frames' = <<>> /\ Len(frames') = 0
        BY <1>1, <1>11, <3>2, EmptySeq DEF Layout
      <4>2. 1 .. Len(frames') = {} /\ Bound(1)' = end'
        BY <4>1 DEF Bound
      <4>3. ~(end' < Opening') /\ end' = Opening'
        BY <1>4, <1>10, <3>2
      <4> QED
        BY <4>1, <4>2, <4>3 DEF Layout
    <3> QED
      BY <2>6, <3>1, <3>2
  <2>9. arrived' <= end'
    BY <1>4, <1>9, <2>6
  <2>10. AtProxy' /\ AtFrames'
    <3>1. pc' # "frames"
      BY <1>7
    <3> QED
      BY <2>2, <2>3, <3>1 DEF AtProxy, AtFrames, Open
  <2>11. AtHandshake'
    <3>1. /\ pstate' = "Connected" /\ ignore' = 0 /\ ProxyAgrees' /\ end' >= Opening' /\ pc' # "frames"
      BY <1>7, <1>10, <1>11, <1>16, <2>3, <2>6
    <3>2. arrived' >= ProxyLen' /\ arrived' - ProxyLen' = x
      BY <1>4, <1>9, <1>10, <1>16, <2>4
    <3>3. pc' = "rest" => buf' = <<>> /\ rest' = Run(ProxyLen', arrived' - ProxyLen')
      BY <1>10, <1>11, <2>5, <3>2
    <3>4. ASSUME pc' # "rest"
          PROVE  buf' = Run(ProxyLen', arrived' - ProxyLen') /\ arrived' - ProxyLen' < FirstEmpty'
      <4>1. rest' = <<>>
        BY <1>7, <3>4
      <4>2. x = 0
        BY <1>4, <2>5, <4>1, RunEmpty
      <4>3. 0 < FirstEmpty
        BY <1>4
      <4> QED
        BY <1>10, <1>11, <2>5, <3>2, <4>1, <4>2, <4>3
    <3> QED
      BY <3>1, <3>2, <3>3, <3>4 DEF AtHandshake
  <2> QED
    BY <2>7, <2>8, <2>9, <2>10, <2>11 DEF Decoder
<1> QED
  BY <1>4, <1>14, <1>15, <1>16

LEMMA SkipDecoder == ASSUME Decoder, Skip PROVE Decoder'
<1> DEFINE n == Min2(ignore, Len(buf))
<1>1. /\ pc = "skip"
      /\ buf' = IF state = "Connected" THEN Drop(buf, n) ELSE buf
      /\ ignore' = IF state = "Connected" THEN ignore - n ELSE ignore
      /\ pc' = IF state = "Connected" /\ ignore = n THEN "frames" ELSE "idle"
  BY DEF Skip
<1>2. /\ setup' = setup /\ frames' = frames /\ end' = end /\ arrived' = arrived /\ pstate' = pstate
      /\ pbuf' = pbuf /\ rest' = rest /\ state' = state
  BY DEF Skip, peerVars, proxyVars
<1>3. Types /\ Layout /\ AtProxy /\ AtHandshake /\ AtFrames /\ arrived <= end
  BY DEF Decoder
<1>4. Layout'
  BY <1>2, <1>3 DEF Layout, Bound, Opening
<1>5. AtProxy'
  BY <1>1, <1>2, <1>3 DEF AtProxy
<1>6. arrived' <= end'
  BY <1>2, <1>3
<1>7. CASE state # "Connected"
  <2>1. buf' = buf /\ ignore' = ignore /\ pc' = "idle"
    BY <1>1, <1>7
  <2>2. Types'
    BY <1>2, <1>3, <2>1 DEF Types, Frame
  <2>3. AtHandshake'
    BY <1>1, <1>2, <1>3, <2>1 DEF AtHandshake, ProxyAgrees, ProxyLen, FirstEmpty, Opening
  <2>4. AtFrames'
    BY <1>2, <1>7, <2>1 DEF AtFrames, Open
  <2> QED
    BY <1>4, <1>5, <1>6, <2>2, <2>3, <2>4 DEF Decoder
<1>8. CASE state = "Connected"
  <2>1. PICK m \in 0 .. arrived, k \in 0 .. Len(frames) : At(m, k)
    BY <1>3, <1>8 DEF AtFrames, Open
  <2>2. arrived \in Nat /\ ignore \in Nat /\ Len(frames) \in Nat
    BY <1>3, FramesAre DEF Types
  <2>3. PICK x \in Nat, a \in Nat, g \in Nat : x = arrived /\ a = x - m /\ x = a + m /\ m \in Nat /\ g = ignore
    BY <2>1, <2>2
  <2>4. buf = Run(a, m) /\ a + g = Bound(k + 1)
    BY <2>1, <2>3 DEF At
  <2>5. Len(buf) = m
    BY <2>3, <2>4, RunIs
  <2>6. PICK j \in Nat : j = n /\ j <= m /\ j <= g /\ (j = m \/ j = g)
    BY <2>3, <2>5 DEF Min2
  <2> HIDE DEF n
  <2>7. buf' = Run(a + j, m - j) /\ ignore' = g - j /\ pc' = IF g = j THEN "frames" ELSE "idle"
    BY <1>1, <1>8, <2>3, <2>4, <2>6, RunDrop
  <2>8. At(m - j, k)'
    <3>1. x - (m - j) = a + j /\ (a + j) + (g - j) = a + g
      BY <2>3, <2>6
    <3>2. Bound(k + 1)' = Bound(k + 1)
      BY <1>2 DEF Bound
    <3> QED
      BY <1>2, <2>3, <2>4, <2>7, <3>1, <3>2 DEF At
  <2>9. (\E u \in 0 .. arrived, v \in 0 .. Len(frames) : At(u, v))'
    <3>1. m - j \in 0 .. x
      BY <2>3, <2>6
    <3> QED
      BY <1>2, <2>1, <2>3, <2>8, <3>1
  <2>10. ignore' \in Nat /\ pc' \in {"frames", "idle"} /\ (pc' = "frames" => ignore' = 0)
    BY <2>6, <2>7
  <2>11. Types'
    BY <1>2, <1>3, <2>10 DEF Types, Frame
  <2>12. AtFrames'
    BY <1>2, <1>3, <1>8, <2>9, <2>10 DEF AtFrames, Open, Opening
  <2>13. AtHandshake'
    BY <1>2, <1>8 DEF AtHandshake
  <2> QED
    BY <1>4, <1>5, <1>6, <2>11, <2>12, <2>13 DEF Decoder
<1> QED
  BY <1>7, <1>8

LEMMA Sizes ==
  /\ MaxMessageSize \in Nat /\ MaxFrameLength \in Nat /\ MaxMessageSize <= MaxFrameLength
  /\ \A x, y \in Nat : Min2(x, y) \in Nat /\ Min2(x, y) <= x /\ Min2(x, y) <= y
<1>1. MaxMessageSize \in Nat /\ MaxControlLength \in Nat
  BY WsAssumption
<1>2. MaxFrameLength \in Nat /\ MaxMessageSize <= MaxFrameLength
  BY <1>1 DEF MaxFrameLength, Max2
<1> QED
  BY <1>1, <1>2 DEF Min2

\* A frame that parseFrame() finds is the one that begins behind the bytes taken,
\* and what it passes on is in mBuffer.
LEMMA ParsedIs ==
  ASSUME Decoder, NEW i \in 1 .. Len(frames), Parsed(frames[i])
  PROVE  \E m \in Nat \ {0}, a \in Nat, h \in Nat \ {0}, l \in Nat, k \in 0 .. Len(frames) :
           /\ arrived = a + m /\ buf = Run(a, m) /\ Len(buf) = m /\ Bound(k + 1) = a
           /\ frames[i].at = a /\ HeaderLen[frames[i].len] = h /\ frames[i].len = l
           /\ h + Min2(l, MaxFrameLength) <= m
           /\ (h + l) % SizeMod = h + l /\ a + (h + l) = Bound(i + 1)
           /\ pc = "frames" /\ ignore = 0
<1>1. Types /\ Layout /\ AtFrames
  BY DEF Decoder
<1> DEFINE f == frames[i]
<1>2. /\ pc = "frames" /\ buf # <<>> /\ Head(buf) = f.at + 1
      /\ HeaderLen[f.len] + Min2(f.len, MaxFrameLength) <= Len(buf)
  BY DEF Parsed
<1>3. ignore = 0
  BY <1>1, <1>2 DEF AtFrames, Open
<1>4. PICK m \in 0 .. arrived, k \in 0 .. Len(frames) : At(m, k)
  BY <1>1, <1>2 DEF AtFrames, Open
<1>5. arrived \in Nat /\ setup \in Setups /\ f \in Frame
  BY <1>1, FramesAre DEF Types
<1>6. PICK a \in Nat : a = arrived - m /\ arrived = a + m /\ m \in Nat
  BY <1>4, <1>5
<1>7. buf = Run(a, m) /\ a = Bound(k + 1)
  <2>1. buf = Run(a, m) /\ a + 0 = Bound(k + 1)
    BY <1>3, <1>4, <1>6 DEF At
  <2> QED
    BY <1>6, <2>1
<1>8. Len(buf) = m /\ m # 0 /\ buf[1] = a + 1 /\ buf \in Seq(Nat)
  <2>1. m # 0
    BY <1>2, <1>6, <1>7, RunEmpty
  <2>2. 1 \in 1 .. m
    BY <1>6, <2>1
  <2> QED
    BY <1>6, <1>7, <2>1, <2>2, RunIs
<1>9. PICK h \in Nat \ {0}, l \in Nat, y \in Nat : h = HeaderLen[f.len] /\ l = f.len /\ y = f.at
  BY <1>5, FrameIs
<1>10. y = a
  <2>1. Head(buf) = buf[1]
    BY <1>2, <1>8
  <2>2. y + 1 = a + 1
    BY <1>2, <1>8, <1>9, <2>1
  <2> QED
    BY <1>6, <1>9, <2>2
<1>11. (h + l) % SizeMod = h + l /\ After(f) = y + (h + l)
  BY <1>5, <1>9, FrameIs
<1>12. After(f) = Bound(i + 1)
  BY <1>1 DEF Layout
<1> QED
  BY <1>2, <1>3, <1>4, <1>6, <1>7, <1>8, <1>9, <1>10, <1>11, <1>12

\* The bytes of the frame are taken out of mBuffer, or all there are.
LEMMA EraseDoes ==
  ASSUME NEW f, NEW a \in Nat, NEW m \in Nat, NEW n \in Nat, arrived = a + m, buf = Run(a, m), Len(buf) = m, ignore = 0,
         pc = "frames", (HeaderLen[f.len] + f.len) % SizeMod = n, Erase(f), arrived' = arrived
  PROVE  \E j \in 0 .. arrived :
           /\ buf' = Run(arrived - j, j) /\ arrived - j + ignore' = a + n
           /\ ignore' \in Nat /\ pc' \in {"idle", "frames"} /\ (pc' = "frames" => ignore' = 0)
           /\ arrived - j = Min2(arrived, a + n) /\ (ignore' > 0 => j = 0)
           /\ (pc' = "idle" => j = 0)
<1>1. CASE n > m
  <2>1. ignore' = n - m /\ buf' = <<>> /\ pc' = "idle"
    BY <1>1 DEF Erase
  <2>2. buf' = Run(a + m, 0)
    BY <2>1, RunEmpty
  <2>3. 0 \in 0 .. a + m /\ a + m - 0 = a + m /\ (a + m) + (n - m) = a + n /\ n - m \in Nat /\ Min2(a + m, a + n) = a + m
    BY <1>1 DEF Min2
  <2> QED
    BY <2>1, <2>2, <2>3
<1>2. CASE ~(n > m)
  <2>1. buf' = Drop(buf, n) /\ ignore' = 0 /\ pc' = "frames"
    BY <1>2 DEF Erase
  <2>2. buf' = Run(a + n, m - n)
    BY <1>2, <2>1, RunDrop
  <2>3. /\ m - n \in 0 .. a + m /\ a + m - (m - n) = a + n /\ a + m - (m - n) + 0 = a + n
        /\ Min2(a + m, a + n) = a + n
    BY <1>2 DEF Min2
  <2> QED
    BY <2>1, <2>2, <2>3
<1> QED
  BY <1>1, <1>2

\* How the handlers of frames take them, and what else of the decoder they touch.
LEMMA RecvFrameDoes ==
  ASSUME NEW f, RecvFrame(f)
  PROVE  /\ Parsed(f)
         /\ setup' = setup /\ frames' = frames /\ end' = end /\ arrived' = arrived /\ rest' = rest
         /\ pstate' = pstate /\ pbuf' = pbuf /\ messages' = messages
         /\ Erase(f) \/ (/\ pc' = "idle" /\ buf' = buf /\ ignore' = ignore /\ state' \in {"Disconnected", "Failed"} /\ ~up
                         /\ f.op = "PING")
         /\ state' \in {state, "Disconnected", "Failed"}
<1>1. /\ Parsed(f)
      /\ setup' = setup /\ frames' = frames /\ end' = end /\ arrived' = arrived /\ rest' = rest
      /\ pstate' = pstate /\ pbuf' = pbuf /\ messages' = messages
  BY DEF RecvFrame, RecvData, RecvContinuation, RecvPing, RecvPong, RecvClose, RecvUnknown, peerVars, proxyVars
<1>2. CASE RecvPing(f)
  <2>1. CASE up
    BY <1>1, <1>2, <2>1 DEF RecvPing
  <2>2. CASE ~up
    <3>1. Broken /\ pc' = "idle" /\ buf' = buf /\ ignore' = ignore /\ f.op = "PING"
      BY <1>2, <2>2 DEF RecvPing
    <3>2. state' \in {"Disconnected", "Failed"}
      BY <3>1 DEF Broken, ChangeState
    <3> QED
      BY <1>1, <2>2, <3>1, <3>2
  <2> QED
    BY <2>1, <2>2
<1>3. CASE RecvUnknown(f)
  <2>1. Erase(f) /\ (Close \/ state' = state)
    BY <1>3 DEF RecvUnknown
  <2>2. Close => state' \in {state, "Disconnected"}
    BY DEF Close, ChangeState
  <2> QED
    BY <1>1, <2>1, <2>2
<1>4. CASE RecvClose(f)
  <2>1. Erase(f) /\ state' = "Disconnected"
    BY <1>4 DEF RecvClose, ChangeState
  <2> QED
    BY <1>1, <2>1
<1>5. CASE RecvData(f) \/ RecvContinuation(f) \/ RecvPong(f)
  <2>1. Erase(f) /\ state' = state
    BY <1>5 DEF RecvData, RecvContinuation, RecvPong
  <2> QED
    BY <1>1, <2>1
<1> QED
  BY <1>2, <1>3, <1>4, <1>5 DEF RecvFrame

LEMMA RecvFrameDecoder ==
  ASSUME Decoder, NEW i \in 1 .. Len(frames), RecvFrame(frames[i])
  PROVE  Decoder'
<1> DEFINE f == frames[i]
<1>1. /\ Parsed(f)
      /\ setup' = setup /\ frames' = frames /\ end' = end /\ arrived' = arrived /\ rest' = rest
      /\ pstate' = pstate /\ pbuf' = pbuf
      /\ Erase(f) \/ (pc' = "idle" /\ buf' = buf /\ ignore' = ignore /\ state' \in {"Disconnected", "Failed"})
      /\ state' \in {state, "Disconnected", "Failed"}
  BY RecvFrameDoes
<1>2. Types /\ Layout /\ AtProxy /\ AtHandshake /\ AtFrames /\ arrived <= end
  BY DEF Decoder
<1>3. PICK m \in Nat \ {0}, a \in Nat, h \in Nat \ {0}, l \in Nat, k \in 0 .. Len(frames) :
        /\ arrived = a + m /\ buf = Run(a, m) /\ Len(buf) = m /\ Bound(k + 1) = a
        /\ f.at = a /\ HeaderLen[f.len] = h /\ f.len = l
        /\ h + Min2(l, MaxFrameLength) <= m
        /\ (h + l) % SizeMod = h + l /\ a + (h + l) = Bound(i + 1)
        /\ pc = "frames" /\ ignore = 0
  BY <1>1, ParsedIs
<1>4. pstate # "Connecting" /\ state # "Connecting" /\ state' # "Connecting"
  BY <1>1, <1>2, <1>3 DEF AtProxy, AtHandshake
<1>5. CASE pc' = "idle" /\ buf' = buf /\ ignore' = ignore /\ state' \in {"Disconnected", "Failed"}
  BY <1>1, <1>3, <1>4, <1>5, LeavesDecoder DEF Leaves
<1>6. CASE Erase(f)
  <2>1. PICK j \in 0 .. arrived :
          /\ buf' = Run(arrived - j, j) /\ arrived - j + ignore' = a + (h + l)
          /\ ignore' \in Nat /\ pc' \in {"idle", "frames"} /\ (pc' = "frames" => ignore' = 0)
    <3>1. h + l \in Nat /\ (HeaderLen[f.len] + f.len) % SizeMod = h + l /\ m \in Nat
      BY <1>3, SMTT(30)
    <3>2. PICK n \in Nat : n = h + l
      BY <3>1
    <3> HIDE DEF f
    <3>3. /\ arrived = a + m /\ buf = Run(a, m) /\ Len(buf) = m /\ ignore = 0 /\ pc = "frames" /\ arrived' = arrived
          /\ (HeaderLen[f.len] + f.len) % SizeMod = n /\ Erase(f) /\ m \in Nat
      BY <1>1, <1>3, <1>6, <3>1, <3>2
    <3>4. \E j \in 0 .. arrived :
            /\ buf' = Run(arrived - j, j) /\ arrived - j + ignore' = a + n
            /\ ignore' \in Nat /\ pc' \in {"idle", "frames"} /\ (pc' = "frames" => ignore' = 0)
      BY <3>3, EraseDoes
    <3> QED
      BY <3>2, <3>4
  <2>2. Len(frames) \in Nat /\ i \in 0 .. Len(frames)
    BY <1>2, FramesAre
  <2>3. At(j, i)'
    <3>1. Bound(i + 1)' = Bound(i + 1)
      BY <1>1 DEF Bound
    <3> QED
      BY <1>1, <1>3, <2>1, <3>1 DEF At
  <2>4. (\E u \in 0 .. arrived, v \in 0 .. Len(frames) : At(u, v))'
    BY <1>1, <2>1, <2>2, <2>3
  <2>5. Types'
    BY <1>1, <1>2, <2>1 DEF Types, Frame, States
  <2>6. Layout'
    BY <1>1, <1>2 DEF Layout, Bound, Opening
  <2>7. AtProxy' /\ AtHandshake'
    BY <1>1, <1>4 DEF AtProxy, AtHandshake
  <2>8. AtFrames'
    BY <1>1, <1>2, <1>3, <2>1, <2>4 DEF AtFrames, Open, Opening
  <2>9. arrived' <= end'
    BY <1>1, <1>2
  <2> QED
    BY <2>5, <2>6, <2>7, <2>8, <2>9 DEF Decoder
<1> QED
  BY <1>1, <1>5, <1>6

\* What the other actions do to the decoder.
LEMMA OthersLeave ==
  ASSUME Decoder,
         \/ LowerLost \/ Detach \/ CloseTimeout \/ Idle \/ IncomingNull \/ ParseEnd \/ UNCHANGED vars
         \/ \E t \in Closers : CloseCheck(t) \/ CloseSend(t)
  PROVE  Leaves
<1>0. state \in States /\ pstate \in States /\ (pstate = "Connecting" => state = "Disconnected")
  BY DEF Decoder, Types, AtProxy
<1>1. CASE LowerLost \/ Detach \/ (\E t \in Closers : CloseCheck(t)) \/ UNCHANGED vars
  BY <1>1 DEF LowerLost, Detach, CloseCheck, Leaves, vars, peerVars, parseVars, proxyVars
<1>2. CASE CloseTimeout
  BY <1>2 DEF CloseTimeout, ChangeState, Leaves, peerVars, parseVars, proxyVars
<1>3. CASE \E t \in Closers : CloseSend(t)
  <2>1. Close /\ UNCHANGED <<peerVars, proxyVars, parseVars>>
    BY <1>3 DEF CloseSend
  <2>2. state' \in {state, "Disconnected"}
    BY <2>1 DEF Close, ChangeState
  <2> QED
    BY <2>1, <2>2 DEF Leaves, peerVars, parseVars, proxyVars
<1>4. CASE Idle
  <2>1. state = "Connected" /\ UNCHANGED <<peerVars, proxyVars, parseVars>>
    BY <1>4 DEF Idle
  <2>2. state' \in {state, "Disconnected", "Failed"}
    BY <1>4 DEF Idle, Broken, ChangeState
  <2> QED
    BY <1>0, <2>1, <2>2 DEF Leaves, peerVars, parseVars, proxyVars
<1>5. CASE IncomingNull
  <2>1. UNCHANGED <<peerVars, parseVars, pbuf>>
    BY <1>5 DEF IncomingNull
  <2>2. \/ pstate = "Connecting" /\ pstate' = "Failed" /\ state' = state
        \/ /\ pstate = "Connected" /\ pstate' \in {pstate, "Disconnected"}
           /\ state' \in {"Disconnected", "Failed"}
    BY <1>5 DEF IncomingNull, Broken, ChangeState
  <2> QED
    BY <1>0, <2>1, <2>2 DEF Leaves, peerVars, parseVars
<1>6. CASE ParseEnd
  BY <1>6 DEF ParseEnd, Leaves, peerVars, proxyVars
<1> QED
  BY <1>1, <1>2, <1>3, <1>4, <1>5, <1>6

LEMMA DecoderStep == Decoder /\ [Next]_vars => Decoder'
<1> SUFFICES ASSUME Decoder, [Next]_vars PROVE Decoder'
  OBVIOUS
<1>1. ASSUME NEW op \in Ops, NEW fin \in BOOLEAN, NEW len \in setup.lengths, PeerSend(op, fin, len) PROVE Decoder'
  BY <1>1, PeerSendDecoder
<1>2. CASE \/ LowerLost \/ Detach \/ CloseTimeout \/ Idle \/ IncomingNull \/ ParseEnd \/ UNCHANGED vars
           \/ \E t \in Closers : CloseCheck(t) \/ CloseSend(t)
  BY <1>2, OthersLeave, LeavesDecoder
<1>3. ASSUME NEW k \in 1 .. end - arrived, ProxyChunk(k) \/ IncomingChunk(k) PROVE Decoder'
  <2>1. k \in Nat
    BY DEF Decoder, Types
  <2> QED
    BY <1>3, <2>1, ProxyChunkDecoder, IncomingChunkDecoder
<1>4. CASE IncomingRest \/ Skip
  BY <1>4, IncomingRestDecoder, SkipDecoder
<1>5. ASSUME NEW i \in 1 .. Len(frames), RecvFrame(frames[i]) PROVE Decoder'
  BY <1>5, RecvFrameDecoder
<1> QED
  BY <1>1, <1>2, <1>3, <1>4, <1>5 DEF Next, Process

LEMMA DecoderHolds == Spec => []Decoder
BY InitDecoder, DecoderStep, PTL DEF Spec

\* However TCP cuts the stream into chunks, whatever lengths the frames have and
\* wherever they are cut off at the maximal size: mBuffer has no gap, what is to be
\* skipped ends where a frame begins, and the next header is looked for there.
THEOREM StaysAligned == Spec => []Aligned
<1>1. ASSUME Decoder PROVE Aligned
  <2> SUFFICES ASSUME state = "Connected", pc # "rest"
               PROVE  /\ buf = [i \in 1 .. Len(buf) |-> arrived - Len(buf) + i]
                      /\ (IF buf = <<>> THEN arrived + 1 ELSE Head(buf)) + ignore - 1 \in Boundaries
                      /\ pc = "frames" => ignore = 0
    BY DEF Aligned
  <2>1. Types /\ AtFrames /\ Open
    BY <1>1 DEF Decoder, Open
  <2>2. PICK m \in 0 .. arrived, k \in 0 .. Len(frames) : At(m, k)
    BY <2>1 DEF AtFrames
  <2>3. arrived \in Nat /\ ignore \in Nat /\ Len(frames) \in Nat
    BY <2>1, FramesAre DEF Types
  <2>4. PICK a \in Nat : a = arrived - m /\ arrived = a + m /\ m \in Nat
    BY <2>2, <2>3
  <2>5. buf = Run(a, m) /\ a + ignore = Bound(k + 1)
    BY <2>2, <2>4 DEF At
  <2>6. Len(buf) = m /\ buf \in Seq(Nat) /\ \A i \in 1 .. m : buf[i] = a + i
    BY <2>4, <2>5, RunIs
  <2>7. buf = [i \in 1 .. Len(buf) |-> arrived - Len(buf) + i]
    BY <2>4, <2>5, <2>6 DEF Run
  <2>8. (IF buf = <<>> THEN arrived + 1 ELSE Head(buf)) = a + 1
    <3>1. CASE m = 0
      BY <2>4, <2>5, <3>1, RunEmpty
    <3>2. CASE m # 0
      <4>1. buf # <<>> /\ 1 \in 1 .. m
        BY <2>4, <2>5, <3>2, RunEmpty
      <4>2. Head(buf) = buf[1]
        BY <2>6, <4>1
      <4> QED
        BY <2>6, <4>1, <4>2
    <3> QED
      BY <3>1, <3>2
  <2>9. Bound(k + 1) \in Boundaries
    <3>1. CASE k + 1 <= Len(frames)
      <4>1. k + 1 \in 1 .. Len(frames)
        BY <2>3, <3>1
      <4> QED
        BY <3>1, <4>1 DEF Bound, Boundaries
    <3>2. CASE ~(k + 1 <= Len(frames))
      BY <3>2 DEF Bound, Boundaries
    <3> QED
      BY <3>1, <3>2
  <2>10. (a + 1) + ignore - 1 = Bound(k + 1)
    BY <2>3, <2>4, <2>5
  <2>11. pc = "frames" => ignore = 0
    BY <2>1 DEF AtFrames
  <2> QED
    BY <2>7, <2>8, <2>9, <2>10, <2>11
<1> QED
  BY <1>1, DecoderHolds, PTL

-----------------------------------------------------------------------------
(* The handshake                                                           *)

Undisturbed == Accepts(setup) /\ ~setup.faults /\ setup.pings = 0

\* With good answers, no fault and any number of pings nothing fails.
Healthy == Undisturbed => up /\ state # "Failed" /\ pstate # "Failed"

\* The answer of the server cannot be what fails.
LEMMA GoodResponse ==
  ASSUME Decoder, Undisturbed, state = "Connecting", NEW m, HandshakeBytes(m)
  PROVE  state' # "Failed"
<1>1. setup \in Setups
  BY DEF Decoder, Types
<1>2. FirstEmpty \in Nat \ {0} /\ ServerAgrees
  BY <1>1, SetupIs DEF Undisturbed
<1>3. PICK x \in Nat : buf \o m = Run(ProxyLen, x) /\ Insert(m)
  BY DEF HandshakeBytes
<1>4. PICK n \in {WsResponse(Text(Run(ProxyLen, x)))} :
        /\ n = 0 => state' = state
        /\ n > 0 /\ n # 0 /\ n # Throws => state' = "Connected"
  BY <1>3, InsertDoes
<1>5. n = 0 \/ n = FirstEmpty
  BY <1>1, <1>2, <1>4, WsReads
<1>6. CASE n = 0
  BY <1>4, <1>6
<1>7. CASE n = FirstEmpty
  <2>1. n > 0 /\ n # 0 /\ n # Throws
    BY <1>2, <1>7 DEF Throws
  <2> QED
    BY <1>4, <2>1
<1> QED
  BY <1>5, <1>6, <1>7

LEMMA GoodAnswer ==
  ASSUME Decoder, Undisturbed, NEW k \in Nat, ProxyChunk(k), state # "Failed"
  PROVE  pstate' # "Failed" /\ state' # "Failed"
<1>1. setup \in Setups /\ pstate = "Connecting" /\ setup.proxy # <<>>
  BY DEF Decoder, Types, ProxyChunk, AtProxy
<1>2. ProxyLen \in Nat /\ ProxyAgrees /\ setup.proxy \in Seq(Symbols)
  BY <1>1, SetupIs DEF Undisturbed
<1>3. ProxyLen \in Nat \ {0}
  BY <1>1, <1>2, EmptySeq DEF ProxyLen
<1>4. PICK z \in Nat, n \in {0, ProxyLen, Throws} :
        /\ pstate' = CASE n = 0 -> pstate [] n = Throws -> "Failed" [] n > 0 -> "Connected"
        /\ n > 0 /\ listening => state' = "Connecting" /\ end' = Max2(end, Opening)
        /\ ~(n > 0 /\ listening) => state' = state /\ end' = end
        /\ z < ProxyLen => n = 0
        /\ z >= ProxyLen => n = IF ProxyAgrees THEN ProxyLen ELSE Throws
  BY ProxySees
<1>5. n = 0 \/ n = ProxyLen
  BY <1>2, <1>4
<1>6. state' # "Failed"
  BY <1>4
<1>7. CASE n = 0
  <2>1. n # Throws /\ ~(n > 0)
    BY <1>7 DEF Throws
  <2> QED
    BY <1>1, <1>4, <1>6, <1>7, <2>1
<1>8. CASE n = ProxyLen
  <2>1. n > 0 /\ n # 0 /\ n # Throws
    BY <1>3, <1>8 DEF Throws
  <2> QED
    BY <1>4, <1>6, <2>1
<1> QED
  BY <1>5, <1>7, <1>8

LEMMA HealthyStep == Decoder /\ Healthy /\ [Next]_vars => Healthy'
<1> SUFFICES ASSUME Decoder, Healthy, [Next]_vars, Undisturbed' PROVE up' /\ state' # "Failed" /\ pstate' # "Failed"
  BY DEF Healthy
<1>1. setup' = setup
  BY ZenonT(40) DEF Next, Process, RecvFrame, vars, peerVars, PeerSend, LowerLost, Detach, CloseTimeout, Idle, IncomingNull, CloseCheck,
         CloseSend, ProxyChunk, IncomingChunk, Insert, IncomingRest, Skip, RecvData, RecvContinuation, RecvPing, RecvPong,
         RecvClose, RecvUnknown, ParseEnd
<1>2. Undisturbed
  BY <1>1 DEF Undisturbed
<1>3. up /\ state # "Failed" /\ pstate # "Failed"
  BY <1>2 DEF Healthy
<1>4. ~setup.faults /\ setup.pings = 0 /\ ~(setup.pings > 0)
  BY <1>2 DEF Undisturbed
<1>5. ASSUME NEW op, NEW fin, NEW len, PeerSend(op, fin, len) PROVE up' /\ state' # "Failed" /\ pstate' # "Failed"
  BY <1>3, <1>5 DEF PeerSend, proxyVars
<1>6. CASE LowerLost \/ Detach \/ IncomingNull
  BY <1>3, <1>4, <1>6 DEF LowerLost, Detach, IncomingNull
<1>7. CASE CloseTimeout
  BY <1>3, <1>7 DEF CloseTimeout, ChangeState, proxyVars
<1>8. CASE Idle
  <2>1. up' = up /\ pstate' = pstate /\ state' = state
    BY <1>3, <1>4, <1>8 DEF Idle, proxyVars
  <2> QED
    BY <1>3, <2>1
<1>9. ASSUME NEW t \in Closers, CloseCheck(t) \/ CloseSend(t) PROVE up' /\ state' # "Failed" /\ pstate' # "Failed"
  <2>1. CASE CloseCheck(t)
    BY <1>4, <2>1 DEF CloseCheck
  <2>2. CASE CloseSend(t)
    <3>1. Close /\ up' = up /\ pstate' = pstate
      BY <2>2 DEF CloseSend, proxyVars
    <3>2. state' \in {state, "Disconnected"}
      BY <3>1 DEF Close, ChangeState
    <3> QED
      BY <1>3, <3>1, <3>2
  <2> QED
    BY <1>9, <2>1, <2>2
<1>10. ASSUME NEW k \in Nat, ProxyChunk(k) PROVE up' /\ state' # "Failed" /\ pstate' # "Failed"
  <2>1. up' = up
    BY <1>10 DEF ProxyChunk
  <2> QED
    BY <1>2, <1>3, <1>10, <2>1, GoodAnswer
<1>11. ASSUME NEW m, Insert(m), state = "Connecting" => state' # "Failed" PROVE up' /\ state' # "Failed" /\ pstate' # "Failed"
  <2>1. up' = up /\ pstate' = pstate
    BY <1>11 DEF Insert, proxyVars
  <2>2. CASE state # "Connecting"
    <3>1. PICK b : b = buf \o m
      OBVIOUS
    <3>2. PICK n \in {IF state = "Connecting" THEN WsResponse(Text(b)) ELSE 0} : n = 0 => state' = state
      BY <1>11, <3>1, InsertDoes
    <3>3. n = 0
      BY <2>2, <3>2
    <3> QED
      BY <1>3, <2>1, <3>2, <3>3
  <2> QED
    BY <1>3, <1>11, <2>1, <2>2
<1>12. ASSUME NEW k \in Nat, IncomingChunk(k) PROVE up' /\ state' # "Failed" /\ pstate' # "Failed"
  <2>1. Insert(Chunk(k))
    BY <1>12 DEF IncomingChunk
  <2>2. state = "Connecting" => state' # "Failed"
    BY <1>2, <1>12, ChunkSees, GoodResponse
  <2> QED
    BY <1>11, <2>1, <2>2
<1>13. CASE IncomingRest
  <2>1. Insert(rest)
    BY <1>13 DEF IncomingRest
  <2>2. state = "Connecting" => state' # "Failed"
    BY <1>2, <1>13, RestSees, GoodResponse
  <2> QED
    BY <1>11, <2>1, <2>2
<1>14. CASE Skip \/ ParseEnd \/ UNCHANGED vars
  BY <1>3, <1>14 DEF Skip, ParseEnd, vars, proxyVars
<1>15. ASSUME NEW f, RecvFrame(f) PROVE up' /\ state' # "Failed" /\ pstate' # "Failed"
  <2>1. CASE RecvPing(f)
    BY <1>3, <2>1 DEF RecvPing, proxyVars
  <2>2. CASE RecvUnknown(f)
    <3>1. up' = up /\ pstate' = pstate /\ (Close \/ state' = state)
      BY <2>2 DEF RecvUnknown, proxyVars
    <3>2. Close => state' \in {state, "Disconnected"}
      BY DEF Close, ChangeState
    <3> QED
      BY <1>3, <3>1, <3>2
  <2>3. CASE RecvData(f) \/ RecvContinuation(f) \/ RecvPong(f) \/ RecvClose(f)
    BY <1>3, <2>3 DEF RecvData, RecvContinuation, RecvPong, RecvClose, ChangeState, proxyVars
  <2> QED
    BY <1>15, <2>1, <2>2, <2>3 DEF RecvFrame
<1>16. \A k \in 1 .. end - arrived : k \in Nat
  BY DEF Decoder, Types
<1> QED
  BY <1>5, <1>6, <1>7, <1>8, <1>9, <1>10, <1>12, <1>13, <1>14, <1>15, <1>16 DEF Next, Process

Found(b, name) == {x \in ParseHttpLines(b).lines : Name(x[2]) = name}

\* First() picks a line, the one that comes first.
LEMMA FirstIs ==
  ASSUME NEW b \in Seq(Symbols), NEW L, L \subseteq ParseHttpLines(b).lines, L # {}
  PROVE  \E i \in LineEnds(b) : /\ First(L) = Line(b, i) /\ <<i, Line(b, i)>> \in L
                               /\ \A y \in L : i <= y[1]
<1>1. \A x \in L : \E i \in LineEnds(b) : x = <<i, Line(b, i)>>
  BY DEF ParseHttpLines
<1>2. LineEnds(b) \subseteq Nat
  BY LenProperties DEF LineEnds
<1> DEFINE P == {x[1] : x \in L}
<1>3. P \subseteq Nat /\ P # {}
  BY <1>1, <1>2
<1>4. PICK n \in P : \A p \in P : n <= p
  BY <1>3, LeastExists
<1>5. \E x \in L : \A y \in L : x[1] <= y[1]
  BY <1>4
<1>6. PICK x : x \in L /\ (\A y \in L : x[1] <= y[1]) /\ First(L) = x[2]
  BY <1>5 DEF First
<1>7. PICK i \in LineEnds(b) : x = <<i, Line(b, i)>>
  BY <1>1, <1>6
<1> QED
  BY <1>6, <1>7

\* The first two symbols of a line stand next to each other, at the beginning if
\* the line is the first.
LEMMA LineBegins ==
  ASSUME NEW b \in Seq(Symbols), NEW i \in LineEnds(b), ~(Len(Line(b, i)) < 2)
  PROVE  \E lo \in 1 .. Len(b) - 1 :
           /\ b[lo] = Line(b, i)[1] /\ b[lo + 1] = Line(b, i)[2]
           /\ (\A j \in LineEnds(b) : i <= j) => lo = 1
<1>1. Len(b) \in Nat /\ LineEnds(b) \subseteq 1 .. Len(b) /\ i \in 1 .. Len(b)
  BY LenProperties DEF LineEnds
<1> DEFINE S == {0} \cup {j \in LineEnds(b) : j < i}
           end_ == IF i > 1 /\ b[i - 1] = "CR" THEN i - 2 ELSE i - 1
<1>2. Max(S) \in S /\ \A y \in S : Max(S) >= y
  <2>1. S \subseteq 0 .. (i - 1) /\ S # {} /\ i - 1 \in Nat
    BY <1>1
  <2>2. \E x \in S : \A y \in S : x >= y
    BY <2>1, GreatestExists
  <2> QED
    BY <2>2 DEF Max
<1>3. \E lo \in Nat, hi \in Int : lo = 1 + Max(S) /\ hi = end_ /\ lo >= 1 /\ hi <= i - 1
  <2>1. S \subseteq Nat /\ i \in Nat
    BY <1>1
  <2>2. Max(S) \in Nat
    BY <1>2, <2>1
  <2>3. end_ \in Int /\ end_ <= i - 1
    BY <2>1
  <2> HIDE DEF S, end_
  <2>4. 1 + Max(S) \in Nat /\ 1 + Max(S) >= 1
    BY <2>2
  <2> QED
    BY <2>3, <2>4
<1>3a. PICK lo \in Nat, hi \in Int : lo = 1 + Max(S) /\ hi = end_ /\ lo >= 1 /\ hi <= i - 1
  BY <1>3, Zenon
<1>4. Line(b, i) = SubSeq(b, lo, hi)
  BY <1>3a DEF Line
<1>5. (\A j \in LineEnds(b) : i <= j) => lo = 1
  <2> SUFFICES ASSUME \A j \in LineEnds(b) : i <= j PROVE lo = 1
    OBVIOUS
  <2>1. S = {0}
    BY <1>1
  <2> QED
    BY <1>2, <1>3a, <2>1
<1> HIDE DEF S, end_
<1>6. \A j \in lo .. hi : b[j] \in Symbols
  <2> SUFFICES ASSUME NEW j \in lo .. hi PROVE b[j] \in Symbols
    OBVIOUS
  <2>1. j \in 1 .. Len(b)
    BY <1>1, <1>3a
  <2> QED
    BY <2>1, ElementOfSeq
<1>7. /\ Len(SubSeq(b, lo, hi)) = IF lo <= hi THEN hi - lo + 1 ELSE 0
      /\ \A j \in 1 .. hi - lo + 1 : SubSeq(b, lo, hi)[j] = b[lo + j - 1]
  BY <1>6, SubSeqProperties, SMTT(30)
<1>8. hi - lo + 1 >= 2
  BY <1>4, <1>7
<1>9. 1 \in 1 .. hi - lo + 1 /\ 2 \in 1 .. hi - lo + 1 /\ lo \in 1 .. Len(b) - 1
  BY <1>1, <1>3a, <1>8
<1>10. Line(b, i)[1] = b[lo + 1 - 1] /\ Line(b, i)[2] = b[lo + 2 - 1]
  BY <1>4, <1>7, <1>9
<1>11. lo + 1 - 1 = lo /\ lo + 2 - 1 = lo + 1
  OBVIOUS
<1> QED
  BY <1>5, <1>9, <1>10, <1>11

\* A header that is found with a value says so in the response.
LEMMA ValueSays ==
  ASSUME NEW b \in Seq(Symbols), NEW name, Value(ParseHttpLines(b).lines, name) # ""
  PROVE  \E n : /\ Says(b, n, Value(ParseHttpLines(b).lines, name))
                /\ name = "upgrade" => n \in {"upgrade", "UPGRADE"}
                /\ name # "upgrade" => n = name
<1>1. /\ Found(b, name) # {} /\ ~(Len(First(Found(b, name))) < 2)
      /\ Value(ParseHttpLines(b).lines, name) = First(Found(b, name))[2]
  BY DEF Value, Found
<1>2. PICK i \in LineEnds(b) : First(Found(b, name)) = Line(b, i) /\ <<i, Line(b, i)>> \in Found(b, name)
  BY <1>1, FirstIs DEF Found
<1>3. Name(Line(b, i)) = name
  BY <1>2 DEF Found
<1>4. PICK lo \in 1 .. Len(b) - 1 : b[lo] = Line(b, i)[1] /\ b[lo + 1] = Line(b, i)[2]
  BY <1>1, <1>2, LineBegins
<1>5. Says(b, b[lo], Value(ParseHttpLines(b).lines, name))
  BY <1>1, <1>2, <1>4 DEF Says
<1>6. name \in {"upgrade", b[lo]} /\ (name = "upgrade" => b[lo] \in {"upgrade", "UPGRADE"})
  <2>1. Name(Line(b, i)) = IF Len(Line(b, i)) = 2 /\ b[lo] = "UPGRADE" THEN "upgrade" ELSE b[lo]
    BY <1>4 DEF Name
  <2> QED
    BY <1>3, <2>1
<1> QED
  BY <1>5, <1>6

\* A response that is taken upgrades, as one reads it without the parser.
LEMMA TakenUpgrades ==
  ASSUME NEW b \in Seq(Symbols), ParseHttpLines(b).lines # {}, Upgrades(ParseHttpLines(b).lines)
  PROVE  Upgraded(b)
<1> DEFINE lines == ParseHttpLines(b).lines
<1>1. /\ Code(lines) = "101" /\ Value(lines, "accept") = "good"
      /\ Value(lines, "upgrade") \in {"websocket", "WebSocket"}
  BY DEF Upgrades, AcceptKey
<1>2. Len(b) > 1 /\ b[2] = "101"
  <2>1. PICK i \in LineEnds(b) : First(lines) = Line(b, i) /\ \A y \in lines : i <= y[1]
    BY FirstIs
  <2>2. ~(Len(Line(b, i)) < 2) /\ Line(b, i)[2] = "101"
    BY <1>1, <2>1 DEF Code
  <2>3. \A j \in LineEnds(b) : i <= j
    <3>1. LineEnds(b) \subseteq Nat /\ Len(b) \in Nat
      BY LenProperties DEF LineEnds
    <3>2. PICK last \in Nat : lines = {<<j, Line(b, j)>> : j \in {k \in LineEnds(b) : k < last}}
      <4>1. EmptyLine(b) \in 0 .. Len(b)
        BY FirstBlank
      <4>2. EmptyLine(b) \in Nat
        BY <3>1, <4>1
      <4>3. lines = {<<j, Line(b, j)>> : j \in {k \in LineEnds(b) : k < EmptyLine(b)}}
        BY DEF EmptyLine, ParseHttpLines
      <4> QED
        BY <4>2, <4>3
    <3>3. PICK k \in LineEnds(b) : k < last
      BY <3>2
    <3>4. \A j \in LineEnds(b) : j < last => i <= j
      <4> SUFFICES ASSUME NEW j \in LineEnds(b), j < last PROVE i <= j
        OBVIOUS
      <4>1. <<j, Line(b, j)>> \in lines
        BY <3>2
      <4> HIDE DEF lines
      <4> QED
        BY <2>1, <4>1
    <3> QED
      BY <3>1, <3>3, <3>4
  <2>4. PICK lo \in 1 .. Len(b) - 1 : b[lo + 1] = "101" /\ lo = 1
    BY <2>2, <2>3, LineBegins
  <2>5. Len(b) \in Nat
    BY LenProperties
  <2> QED
    BY <2>4, <2>5
<1>3. Says(b, "accept", AcceptKey)
  <2>1. PICK name : name = "accept"
    OBVIOUS
  <2>2. Value(lines, name) # "" /\ name # "upgrade"
    BY <1>1, <2>1
  <2> HIDE DEF lines
  <2>2a. name # "upgrade" /\ Value(ParseHttpLines(b).lines, name) # ""
    BY <2>2 DEF lines
  <2>2b. \E n : /\ Says(b, n, Value(ParseHttpLines(b).lines, name))
                /\ name = "upgrade" => n \in {"upgrade", "UPGRADE"}
                /\ name # "upgrade" => n = name
    BY <2>2a, ValueSays
  <2>3. PICK n : Says(b, n, Value(lines, name)) /\ n = name
    BY <2>2a, <2>2b DEF lines
  <2> QED
    BY <1>1, <2>1, <2>3 DEF AcceptKey
<1>4. \E name \in {"upgrade", "UPGRADE"}, value \in {"websocket", "WebSocket"} : Says(b, name, value)
  <2>1. PICK n : Says(b, n, Value(lines, "upgrade")) /\ n \in {"upgrade", "UPGRADE"}
    BY <1>1, ValueSays
  <2> QED
    BY <1>1, <2>1
<1> QED
  BY <1>2, <1>3, <1>4 DEF Upgraded

\* The WebSocket opens only on a response that has the code 101, the upgrade to
\* websocket and the answer that belongs to its key, and not before all of it is
\* there; it has decided by then; and on answers that it takes it does not fail for
\* another reason: for any answers of proxy and server, however they are cut.
THEOREM Decides == Spec => []HandshakeDecides
<1>1. ASSUME Init PROVE Healthy
  <2>1. up = TRUE /\ state # "Failed" /\ pstate # "Failed"
    BY <1>1 DEF Init
  <2> QED
    BY <2>1 DEF Healthy
<1>2. ASSUME Decoder, Healthy PROVE HandshakeDecides
  <2>1. setup \in Setups /\ arrived \in Nat
    BY <1>2 DEF Decoder, Types
  <2>2. /\ ProxyLen \in Nat /\ Opening \in Nat /\ ServerLen \in Nat /\ Opening = ProxyLen + ServerLen
        /\ FirstEmpty \in 1 .. ServerLen
    BY <2>1, SetupIs
  <2>3. state = "Connected" => Upgraded(setup.response) /\ arrived >= Opening
    <3>1. state = "Connected" => Accepts(setup) /\ arrived >= Opening
      BY <1>2 DEF Decoder, AtFrames, Open
    <3>2. Accepts(setup) => Upgraded(setup.response)
      BY <2>1, SetupIs, TakenUpgrades DEF ServerAgrees
    <3> QED
      BY <3>1, <3>2
  <2>4. ASSUME pc = "idle", arrived >= Opening, state = "Connecting" PROVE FALSE
    <3>1. arrived >= ProxyLen /\ arrived - ProxyLen < FirstEmpty
      BY <1>2, <2>4 DEF Decoder, AtHandshake
    <3> QED
      BY <2>1, <2>2, <2>4, <3>1
  <2>5. ASSUME arrived >= Opening, pstate = "Connecting" PROVE FALSE
    <3>1. arrived < ProxyLen
      BY <1>2, <2>5 DEF Decoder, AtProxy
    <3> QED
      BY <2>1, <2>2, <2>5, <3>1
  <2>6. Undisturbed => state # "Failed" /\ pstate # "Failed"
    BY <1>2 DEF Healthy
  <2> QED
    BY <2>3, <2>4, <2>5, <2>6 DEF HandshakeDecides, Undisturbed
<1> QED
  BY <1>1, <1>2, HealthyStep, DecoderHolds, PTL DEF Spec

-----------------------------------------------------------------------------
(* What is delivered                                                       *)

\* The bytes that are taken, the ones to be skipped included: where the next frame is.
Position == arrived - Len(buf) + ignore

LEMMA ContentIs ==
  ASSUME NEW f, NEW a \in Nat, NEW m \in Nat, NEW h \in Nat, NEW n \in Nat, buf = Run(a, m), HeaderLen[f.len] = h, h + n <= m
  PROVE  Content(f, n) = Run(a + h, n)
<1>1. SubSeq(Run(a, m), h + 1, h + n) = Run(a + h, n)
  <2>1. RunWithin(a, m, h, n)
    BY RunSub
  <2> QED
    BY <2>1 DEF RunWithin
<1>2. Content(f, n) = SubSeq(buf, h + 1, h + n)
  BY DEF Content
<1> QED
  BY <1>1, <1>2

\* What a frame that is found makes of the buffer, and what its payload is there.
LEMMA Takes ==
  ASSUME Decoder, NEW i \in 1 .. Len(frames), Parsed(frames[i]), Erase(frames[i]), arrived' = arrived
  PROVE  \E a \in Nat, h \in Nat \ {0}, l \in Nat :
           /\ frames[i].at = a /\ HeaderLen[frames[i].len] = h /\ frames[i].len = l
           /\ Position = a /\ Position' = a + (h + l) /\ Bound(i + 1) = a + (h + l)
           /\ pc' = "idle" => buf' = <<>>
           /\ \A n \in Nat : n <= l /\ n <= MaxFrameLength => Content(frames[i], n) = Run(a + h, n)
<1> DEFINE f == frames[i]
<1>1. PICK m \in Nat \ {0}, a \in Nat, h \in Nat \ {0}, l \in Nat, k \in 0 .. Len(frames) :
        /\ arrived = a + m /\ buf = Run(a, m) /\ Len(buf) = m /\ Bound(k + 1) = a
        /\ f.at = a /\ HeaderLen[f.len] = h /\ f.len = l
        /\ h + Min2(l, MaxFrameLength) <= m
        /\ (h + l) % SizeMod = h + l /\ a + (h + l) = Bound(i + 1)
        /\ pc = "frames" /\ ignore = 0
  BY ParsedIs
<1>2. PICK n \in Nat : n = h + l
  BY <1>1
<1> HIDE DEF f
<1>3. /\ arrived = a + m /\ buf = Run(a, m) /\ Len(buf) = m /\ ignore = 0 /\ pc = "frames" /\ arrived' = arrived
      /\ (HeaderLen[f.len] + f.len) % SizeMod = n /\ Erase(f) /\ m \in Nat
  BY <1>1, <1>2 DEF f
<1>4. \E j \in 0 .. arrived :
        /\ buf' = Run(arrived - j, j) /\ arrived - j + ignore' = a + n
        /\ ignore' \in Nat /\ pc' \in {"idle", "frames"} /\ (pc' = "frames" => ignore' = 0)
        /\ arrived - j = Min2(arrived, a + n) /\ (ignore' > 0 => j = 0)
        /\ (pc' = "idle" => j = 0)
  BY <1>3, EraseDoes
<1>5. PICK j \in 0 .. arrived :
        /\ buf' = Run(arrived - j, j) /\ arrived - j + ignore' = a + n
        /\ ignore' \in Nat /\ (pc' = "idle" => j = 0)
  BY <1>4
<1>6. PICK z \in Nat : z = arrived - j /\ j \in Nat
  BY <1>1, <1>5
<1>7. Len(buf') = j /\ (j = 0 => buf' = <<>>)
  BY <1>5, <1>6, RunIs, RunEmpty
<1>8. Position' = a + n
  BY <1>3, <1>5, <1>7 DEF Position
<1>9. Position = a
  BY <1>1 DEF Position
<1>10. ASSUME NEW y \in Nat, y <= l, y <= MaxFrameLength
       PROVE  Content(f, y) = Run(a + h, y)
  <2>1. MaxFrameLength \in Nat
    BY Sizes
  <2>2. PICK x \in Nat : x = Min2(l, MaxFrameLength) /\ y <= x
    BY <1>10, <2>1 DEF Min2
  <2>3. h + x <= m
    BY <1>1, <2>2
  <2>4. h + y <= m
    BY <2>2, <2>3
  <2> QED
    BY <1>1, <2>4, ContentIs, SMTT(30)
<1>11. Position = a /\ Position' = a + (h + l)
  BY <1>2, <1>8, <1>9
<1>12. pc' = "idle" => buf' = <<>>
  BY <1>5, <1>7
<1>13. \A y \in Nat : y <= l /\ y <= MaxFrameLength => Content(f, y) = Run(a + h, y)
  BY <1>10
<1>14. f.at = a /\ HeaderLen[f.len] = h /\ f.len = l /\ Bound(i + 1) = a + (h + l)
  BY <1>1
<1> QED
  BY <1>11, <1>12, <1>13, <1>14, Zenon DEF f

Msgs == [type : DataOps, data : Seq(Nat)]

InPayload(p) ==
  \E j \in 1 .. Len(frames) :
    /\ frames[j].op \in DataOps \cup {"CONTINUATION"}
    /\ p \in frames[j].at + HeaderLen[frames[j].len] + 1 ..
             frames[j].at + HeaderLen[frames[j].len] + frames[j].len

Payloads(s)   == \A i \in 1 .. Len(s) : InPayload(s[i])
Increasing(s) == \A i, k \in 1 .. Len(s) : k < i => s[k] < s[i]
Below(s, p)   == \A i \in 1 .. Len(s) : s[i] <= p
Beyond(s, p)  == \A i \in 1 .. Len(s) : p < s[i]
Apart(s, t)   == \A i \in 1 .. Len(s) : \A k \in 1 .. Len(t) : s[i] < t[k]

\* Bytes of payloads in order, up to p.
Fine(s, p) == s \in Seq(Nat) /\ Payloads(s) /\ Increasing(s) /\ Below(s, p)

\* Messages ds, and after them the bytes s of a message not finished.
Row(ds, s, p) ==
  /\ ds \in Seq(Msgs) /\ \A d \in 1 .. Len(ds) : Fine(ds[d].data, p)
  /\ \A d, e \in 1 .. Len(ds) : e < d => Apart(ds[e].data, ds[d].data)
  /\ Fine(s, p) /\ \A d \in 1 .. Len(ds) : Apart(ds[d].data, s)

LEMMA FineMore ==
  ASSUME NEW s, NEW p \in Nat, NEW q \in Nat, p <= q, Fine(s, p)
  PROVE  Fine(s, q)
<1>1. s \in Seq(Nat) /\ Below(s, p)
  BY DEF Fine
<1>2. \A i \in 1 .. Len(s) : s[i] \in Nat
  BY <1>1, ElementOfSeq
<1>3. Below(s, q)
  BY <1>1, <1>2 DEF Below
<1> QED
  BY <1>3 DEF Fine

LEMMA FineEmpty ==
  ASSUME NEW p
  PROVE  Fine(<<>>, p) /\ \A s : Apart(s, <<>>)
<1>1. <<>> \in Seq(Nat) /\ Len(<<>>) = 0
  BY EmptySeq
<1>2. 1 .. Len(<<>>) = {}
  BY <1>1
<1> QED
  BY <1>1, <1>2 DEF Fine, Payloads, Increasing, Below, Apart

LEMMA BeyondApart ==
  ASSUME NEW p \in Nat, NEW s \in Seq(Nat), NEW t \in Seq(Nat), Below(s, p), Beyond(t, p)
  PROVE  Apart(s, t)
<1>1. (\A i \in 1 .. Len(s) : s[i] \in Nat) /\ \A i \in 1 .. Len(t) : t[i] \in Nat
  BY ElementOfSeq
<1> SUFFICES ASSUME NEW i \in 1 .. Len(s), NEW k \in 1 .. Len(t) PROVE s[i] < t[k]
  BY DEF Apart
<1>2. PICK x \in Nat, y \in Nat : x = s[i] /\ y = t[k]
  BY <1>1
<1>3. x <= p /\ p < y
  BY <1>2 DEF Below, Beyond
<1>4. x < y
  BY <1>3
<1> QED
  BY <1>2, <1>4

\* Fine bytes, and fine bytes beyond them.
LEMMA FineConcat ==
  ASSUME NEW p \in Nat, NEW q \in Nat, p <= q, NEW s, NEW t, Fine(s, p), Fine(t, q), Beyond(t, p)
  PROVE  Fine(s \o t, q)
<1>1. s \in Seq(Nat) /\ t \in Seq(Nat)
  BY DEF Fine
<1>2. Fine(s, q) /\ Apart(s, t)
  BY <1>1, FineMore, BeyondApart DEF Fine
<1> DEFINE u == s \o t
<1>3. /\ u \in Seq(Nat) /\ Len(u) = Len(s) + Len(t) /\ Len(s) \in Nat /\ Len(t) \in Nat
      /\ \A i \in 1 .. Len(s) + Len(t) : u[i] = IF i <= Len(s) THEN s[i] ELSE t[i - Len(s)]
  BY <1>1, ConcatProperties, LenProperties
<1> HIDE DEF u
<1>4. ASSUME NEW i \in 1 .. Len(u)
      PROVE  \/ i \in 1 .. Len(s) /\ u[i] = s[i]
             \/ i > Len(s) /\ i - Len(s) \in 1 .. Len(t) /\ u[i] = t[i - Len(s)]
  BY <1>3
<1>5. Payloads(u)
  BY <1>2, <1>4 DEF Fine, Payloads
<1>6. Below(u, q)
  BY <1>2, <1>4 DEF Fine, Below
<1>7. ASSUME NEW i \in 1 .. Len(u), NEW k \in 1 .. Len(u), k < i PROVE u[k] < u[i]
  <2>1. CASE i \in 1 .. Len(s) /\ u[i] = s[i]
    <3>1. k \in 1 .. Len(s) /\ ~(k > Len(s))
      BY <1>3, <1>7, <2>1
    <3>2. u[k] = s[k]
      BY <1>4, <3>1
    <3> QED
      BY <1>2, <1>7, <2>1, <3>1, <3>2 DEF Fine, Increasing
  <2>2. CASE i > Len(s) /\ i - Len(s) \in 1 .. Len(t) /\ u[i] = t[i - Len(s)]
    <3>1. CASE k \in 1 .. Len(s) /\ u[k] = s[k]
      BY <1>2, <2>2, <3>1 DEF Apart
    <3>2. CASE k > Len(s) /\ k - Len(s) \in 1 .. Len(t) /\ u[k] = t[k - Len(s)]
      <4>1. k - Len(s) < i - Len(s)
        BY <1>3, <1>7
      <4> QED
        BY <1>2, <2>2, <3>2, <4>1 DEF Fine, Increasing
    <3> QED
      BY <1>4, <3>1, <3>2
  <2> QED
    BY <1>4, <2>1, <2>2
<1>8. Increasing(u)
  BY <1>7 DEF Increasing
<1> QED
  BY <1>3, <1>5, <1>6, <1>8 DEF Fine, u

LEMMA PrefixOf ==
  ASSUME NEW s \in Seq(Nat), NEW n \in Nat, n <= Len(s)
  PROVE  /\ SubSeq(s, 1, n) \in Seq(Nat) /\ Len(SubSeq(s, 1, n)) = n
         /\ \A i \in 1 .. n : SubSeq(s, 1, n)[i] = s[i]
<1>1. Len(s) \in Nat /\ \A i \in 1 .. Len(s) : s[i] \in Nat
  BY LenProperties, ElementOfSeq
<1>2. \A i \in 1 .. n : s[i] \in Nat
  BY <1>1
<1>3. 1 \in Int /\ n \in Int /\ n - 1 + 1 = n
  OBVIOUS
<1>4. /\ SubSeq(s, 1, n) \in Seq(Nat) /\ Len(SubSeq(s, 1, n)) = IF 1 <= n THEN n - 1 + 1 ELSE 0
      /\ \A i \in 1 .. n - 1 + 1 : SubSeq(s, 1, n)[i] = s[1 + i - 1]
  BY <1>2, <1>3, SubSeqProperties
<1>5. Len(SubSeq(s, 1, n)) = n
  BY <1>4
<1>6. \A i \in 1 .. n : 1 + i - 1 = i
  OBVIOUS
<1> QED
  BY <1>3, <1>4, <1>5, <1>6

LEMMA FinePrefix ==
  ASSUME NEW s, NEW p, Fine(s, p), NEW n \in Nat, n <= Len(s)
  PROVE  Fine(SubSeq(s, 1, n), p) /\ \A r : Apart(r, s) => Apart(r, SubSeq(s, 1, n))
<1>1. s \in Seq(Nat)
  BY DEF Fine
<1> DEFINE t == SubSeq(s, 1, n)
<1>2. t \in Seq(Nat) /\ Len(t) = n /\ \A i \in 1 .. n : t[i] = s[i]
  BY <1>1, PrefixOf
<1>3. \A i \in 1 .. n : i \in 1 .. Len(s)
  BY <1>1, LenProperties
<1> HIDE DEF t
<1>4. Payloads(t) /\ Increasing(t) /\ Below(t, p)
  BY <1>2, <1>3 DEF Fine, Payloads, Increasing, Below
<1>5. ASSUME NEW r, Apart(r, s) PROVE Apart(r, t)
  BY <1>2, <1>3, <1>5 DEF Apart
<1> QED
  BY <1>2, <1>4, <1>5 DEF Fine, t

LEMMA RowMore ==
  ASSUME NEW ds, NEW s, NEW p \in Nat, NEW q \in Nat, p <= q, Row(ds, s, p)
  PROVE  Row(ds, s, q)
BY FineMore DEF Row

\* The message not finished is delivered, and another one begins.
LEMMA RowNext ==
  ASSUME NEW ds, NEW s, NEW t, NEW p \in Nat, NEW q \in Nat, p <= q, NEW type \in DataOps, Row(ds, s, p),
         Fine(t, q), Beyond(t, p) \/ t = <<>>
  PROVE  Row(Append(ds, [type |-> type, data |-> s]), t, q)
<1> DEFINE m == [type |-> type, data |-> s]
           es == Append(ds, m)
<1>1. m \in Msgs /\ m.data = s /\ ds \in Seq(Msgs) /\ Fine(s, p)
  BY DEF Msgs, Row, Fine
<1> HIDE DEF m
<1>2. /\ es \in Seq(Msgs) /\ Len(es) = Len(ds) + 1 /\ es[Len(ds) + 1] = m /\ Len(ds) \in Nat
      /\ \A d \in 1 .. Len(ds) : es[d] = ds[d]
  BY <1>1, AppendProperties, LenProperties
<1> HIDE DEF es
<1>3. \A d \in 1 .. Len(es) : d \in 1 .. Len(ds) \/ d = Len(ds) + 1
  BY <1>2
<1>4. ASSUME NEW r, Fine(r, p) PROVE Apart(r, t)
  <2>1. CASE t = <<>>
    BY <2>1, FineEmpty
  <2>2. CASE Beyond(t, p)
    BY <1>4, <2>2, BeyondApart DEF Fine
  <2> QED
    BY <2>1, <2>2
<1>5. ASSUME NEW d \in 1 .. Len(es) PROVE Fine(es[d].data, q) /\ Apart(es[d].data, t)
  <2>1. Fine(es[d].data, p)
    BY <1>1, <1>2, <1>3 DEF Row
  <2> QED
    BY <1>4, <2>1, FineMore
<1>6. ASSUME NEW d \in 1 .. Len(es), NEW e \in 1 .. Len(es), e < d PROVE Apart(es[e].data, es[d].data)
  <2>1. e \in 1 .. Len(ds)
    BY <1>2, <1>6
  <2>2. CASE d \in 1 .. Len(ds)
    BY <1>2, <1>6, <2>1, <2>2 DEF Row
  <2>3. CASE d = Len(ds) + 1
    BY <1>1, <1>2, <2>1, <2>3 DEF Row
  <2> QED
    BY <1>3, <2>2, <2>3
<1> QED
  BY <1>2, <1>5, <1>6 DEF Row, es, m

-----------------------------------------------------------------------------
(* Steps that take no frame and send none                                  *)

Early == state = "Connecting" \/ pstate = "Connecting"

Keeps ==
  /\ setup' = setup /\ frames' = frames /\ messages' = messages
  /\ partial' = partial /\ partialOp' = partialOp /\ delivered' = delivered
  /\ listening' => listening

\* The next frame stays where it is, or is the first one.
Quiet ==
  /\ Keeps /\ (Early' => Early)
  /\ Open' => /\ end' = end
              /\ (Open /\ Position' = Position) \/ (Early /\ Position' = Opening)

LEMMA StopsListening ==
  ASSUME (\E s : ChangeState(s)) \/ Broken \/ listening' = listening
  PROVE  listening' => listening
<1>1. ASSUME NEW s, ChangeState(s) PROVE listening' => listening
  BY <1>1 DEF ChangeState
<1>2. Broken => \E s : ChangeState(s)
  BY DEF Broken
<1> QED
  BY <1>1, <1>2

LEMMA InsertKeeps ==
  ASSUME Decoder, NEW m, Insert(m), state = "Connecting" => HandshakeBytes(m)
  PROVE  Keeps /\ pstate' = pstate /\ end' = end
<1>1. setup' = setup /\ frames' = frames /\ messages' = messages /\ pstate' = pstate /\ end' = end
  BY DEF Insert, peerVars, proxyVars
<1>2. partial' = partial /\ partialOp' = partialOp /\ delivered' = delivered
  BY DEF Insert, msgVars
<1>3. PICK b, n : /\ b = buf \o m /\ n = IF state = "Connecting" THEN WsResponse(Text(b)) ELSE 0
                  /\ CASE n = 0      -> UNCHANGED <<state, listening>>
                       [] n = Throws -> Broken
                       [] n > 0      -> ChangeState("Connected")
  BY DEF Insert
<1>4. CASE state # "Connecting"
  <2>1. n = 0 /\ n # Throws /\ ~(n > 0)
    BY <1>3, <1>4 DEF Throws
  <2>2. listening' = listening
    BY <1>3, <2>1
  <2> QED
    BY <1>1, <1>2, <2>2 DEF Keeps
<1>5. CASE state = "Connecting"
  <2>1. PICK x \in Nat : buf \o m = Run(ProxyLen, x)
    BY <1>5 DEF HandshakeBytes
  <2>2. setup \in Setups
    BY DEF Decoder, Types
  <2>3. FirstEmpty \in 1 .. ServerLen /\ ServerLen \in Nat
    BY <2>2, SetupIs
  <2>4. n \in {0, FirstEmpty, Throws}
    BY <1>3, <1>5, <2>1, <2>2, <2>3, WsReads
  <2>5. n = 0 \/ n = Throws \/ n > 0
    BY <2>3, <2>4
  <2>6. listening' = listening \/ Broken \/ ChangeState("Connected")
    BY <1>3, <2>5
  <2>7. listening' => listening
    BY <2>6, StopsListening
  <2> QED
    BY <1>1, <1>2, <2>7 DEF Keeps
<1> QED
  BY <1>4, <1>5

LEMMA OthersKeep ==
  ASSUME \/ LowerLost \/ Detach \/ CloseTimeout \/ Idle \/ IncomingNull \/ ParseEnd \/ Skip \/ UNCHANGED vars
         \/ \E t \in Closers : CloseCheck(t) \/ CloseSend(t)
         \/ \E k \in 1 .. end - arrived : ProxyChunk(k)
  PROVE  Keeps
<1>1. setup' = setup /\ frames' = frames /\ messages' = messages
  BY DEF LowerLost, Detach, CloseTimeout, Idle, IncomingNull, ParseEnd, Skip, vars, CloseCheck, CloseSend, ProxyChunk, peerVars
<1>2. partial' = partial /\ partialOp' = partialOp /\ delivered' = delivered
  BY DEF LowerLost, Detach, CloseTimeout, Idle, IncomingNull, ParseEnd, Skip, vars, CloseCheck, CloseSend, ProxyChunk, msgVars
<1>3. ASSUME LowerLost \/ CloseTimeout \/ ParseEnd \/ Skip \/ UNCHANGED vars \/ \E t \in Closers : CloseCheck(t)
      PROVE  listening' => listening
  <2>1. ChangeState("Disconnected") \/ listening' = listening
    BY <1>3 DEF LowerLost, CloseTimeout, ParseEnd, Skip, vars, CloseCheck
  <2> QED
    BY <2>1, StopsListening
<1>4. ASSUME Detach PROVE listening' => listening
  BY <1>4 DEF Detach
<1>5. ASSUME Idle PROVE listening' => listening
  <2>1. Broken \/ ChangeState("Failed") \/ listening' = listening
    BY <1>5 DEF Idle
  <2> QED
    BY <2>1, StopsListening
<1>6. ASSUME IncomingNull PROVE listening' => listening
  <2>1. Broken \/ listening' = FALSE
    BY <1>6 DEF IncomingNull
  <2> QED
    BY <2>1, StopsListening
<1>7. ASSUME NEW t \in Closers, CloseSend(t) PROVE listening' => listening
  <2>1. Close
    BY <1>7 DEF CloseSend
  <2>2. ChangeState("Disconnected") \/ listening' = listening
    <3>1. CASE closeSent
      BY <2>1, <3>1 DEF Close
    <3>2. CASE ~closeSent /\ up
      BY <2>1, <3>2 DEF Close
    <3>3. CASE ~closeSent /\ ~up
      BY <2>1, <3>3 DEF Close
    <3> QED
      BY <3>1, <3>2, <3>3
  <2> QED
    BY <2>2, StopsListening
<1>8. ASSUME NEW k, ProxyChunk(k) PROVE listening' => listening
  <2>1. PICK n : listening' = (listening /\ n # Throws)
    BY <1>8 DEF ProxyChunk
  <2> QED
    BY <2>1
<1>9. listening' => listening
  BY <1>3, <1>4, <1>5, <1>6, <1>7, <1>8
<1> QED
  BY <1>1, <1>2, <1>9 DEF Keeps

\* Where mBuffer and what is to be skipped are, once frames are parsed.
LEMMA PositionIs ==
  ASSUME Decoder, Open
  PROVE  \E m \in Nat, a \in Nat, g \in Nat, k \in 0 .. Len(frames) :
           /\ buf = Run(a, m) /\ Len(buf) = m /\ arrived = a + m /\ ignore = g
           /\ Position = a + g /\ Bound(k + 1) = a + g
<1>1. Types /\ AtFrames
  BY DEF Decoder
<1>2. PICK m \in 0 .. arrived, k \in 0 .. Len(frames) : At(m, k)
  BY <1>1 DEF AtFrames
<1>3. arrived \in Nat /\ ignore \in Nat
  BY <1>1 DEF Types
<1>4. PICK a \in Nat, g \in Nat : a = arrived - m /\ arrived = a + m /\ m \in Nat /\ g = ignore
  BY <1>2, <1>3
<1>5. buf = Run(a, m) /\ a + g = Bound(k + 1)
  BY <1>2, <1>4 DEF At
<1>6. Len(buf) = m
  BY <1>4, <1>5, RunIs
<1>7. Position = a + g
  BY <1>4, <1>6 DEF Position
<1> QED
  BY <1>2, <1>4, <1>5, <1>6, <1>7

\* The answer of the server is complete: what follows it is the first frame.
LEMMA HandshakeQuiet ==
  ASSUME Decoder, state = "Connecting", NEW m, HandshakeBytes(m)
  PROVE  Open' => Position' = Opening
<1>2. /\ ProxyLen \in Nat /\ ServerLen \in Nat /\ Opening = ProxyLen + ServerLen /\ FirstEmpty \in 1 .. ServerLen
      /\ Accepts(setup) <=> ProxyAgrees /\ ServerAgrees
      /\ Accepts(setup) => FirstEmpty = ServerLen
      /\ setup \in Setups /\ ignore = 0 /\ ProxyAgrees
  BY SetupIs DEF Decoder, Types, AtHandshake
<1>3. PICK x \in Nat : buf \o m = Run(ProxyLen, x) /\ Insert(m) /\ arrived' = ProxyLen + x
  BY DEF HandshakeBytes
<1> DEFINE b == Run(ProxyLen, x)
<1>4. PICK n \in {WsResponse(Text(b))} :
        /\ buf' = IF n > 0 THEN Drop(b, n) ELSE b
        /\ pc' = IF n = Throws THEN "idle" ELSE "skip"
        /\ n = 0 => state' = state
        /\ n = Throws /\ n # 0 => state' = IF state = "Connected" THEN "Disconnected" ELSE "Failed"
        /\ n > 0 /\ n # 0 /\ n # Throws => state' = "Connected"
        /\ UNCHANGED <<setup, frames, end, pstate, pbuf, ignore>>
  BY <1>3, InsertDoes
<1>5. /\ x < FirstEmpty => n = 0
      /\ x >= FirstEmpty => n = IF ServerAgrees THEN FirstEmpty ELSE Throws
  BY <1>2, <1>4, WsReads
<1> HIDE DEF b
<1>6. CASE n = 0
  <2>1. state' = "Connecting" /\ pc' # "frames"
    BY <1>4, <1>6
  <2> QED
    BY <2>1 DEF Open
<1>7. CASE n = Throws
  <2>1. Throws # 0
    BY DEF Throws
  <2>2. state' = "Failed" /\ pc' = "idle"
    BY <1>4, <1>7, <2>1
  <2> QED
    BY <2>2 DEF Open
<1>8. CASE n = FirstEmpty /\ x >= FirstEmpty /\ ServerAgrees
  <2>1. n = ServerLen /\ ServerLen > 0 /\ ServerLen <= x
    BY <1>2, <1>8
  <2>2. n > 0
    BY <2>1
  <2>3. buf' = Drop(b, ServerLen) /\ ignore' = 0
    BY <1>2, <1>4, <2>1, <2>2
  <2>4. buf' = Run(ProxyLen + ServerLen, x - ServerLen)
    BY <1>2, <2>1, <2>3, RunDrop DEF b
  <2>5. PICK p \in Nat, r \in Nat, y \in Nat : p = ProxyLen /\ r = ServerLen /\ y = x - r /\ x = r + y
    BY <1>2, <2>1
  <2>6. Len(buf') = y
    <3>1. p + r \in Nat /\ buf' = Run(p + r, y)
      BY <2>4, <2>5
    <3> QED
      BY <3>1, RunIs
  <2>7. Position' = (p + x) - y + 0
    BY <1>3, <2>3, <2>5, <2>6 DEF Position
  <2>8. Position' = p + r
    BY <2>5, <2>7
  <2> QED
    BY <1>2, <2>5, <2>8
<1> QED
  BY <1>2, <1>5, <1>6, <1>7, <1>8

LEMMA IncomingChunkQuiet ==
  ASSUME Decoder, NEW k \in Nat, IncomingChunk(k)
  PROVE  Quiet
<1>1. /\ arrived' = arrived + k /\ pstate = "Connected"
      /\ state \in {"Connecting", "Connected"} /\ Insert(Chunk(k))
  BY DEF IncomingChunk
<1>2. state = "Connecting" => HandshakeBytes(Chunk(k))
  BY ChunkSees
<1>3. Keeps /\ pstate' = pstate /\ end' = end
  BY <1>1, <1>2, InsertKeeps
<1>4. CASE state = "Connecting"
  BY <1>2, <1>3, <1>4, HandshakeQuiet DEF Quiet, Early
<1>5. CASE state = "Connected"
  <2>1. PICK m \in Nat, a \in Nat, g \in Nat :
           /\ buf = Run(a, m) /\ Len(buf) = m /\ arrived = a + m /\ ignore = g
           /\ Position = a + g
    BY <1>5, PositionIs DEF Open
  <2>2. buf' = buf \o Chunk(k) /\ state' = state /\ ignore' = ignore
    <3>0. PICK c : c = Chunk(k) /\ Insert(c)
      BY <1>1
    <3>1. PICK b : b = buf \o c
      OBVIOUS
    <3>2. PICK n \in {IF state = "Connecting" THEN WsResponse(Text(b)) ELSE 0} :
             /\ buf' = IF n > 0 THEN Drop(b, n) ELSE b
             /\ pc' = IF n = Throws THEN "idle" ELSE "skip"
             /\ n = 0 => state' = state
             /\ n = Throws /\ n # 0 => state' = IF state = "Connected" THEN "Disconnected" ELSE "Failed"
             /\ n > 0 /\ n # 0 /\ n # Throws => state' = "Connected"
             /\ UNCHANGED <<setup, frames, end, pstate, pbuf, ignore>>
      BY <3>0, <3>1, InsertDoes
    <3>3. n = 0 /\ ~(n > 0)
      BY <1>5, <3>2
    <3> QED
      BY <3>0, <3>1, <3>2, <3>3
  <2>3. buf' = Run(a, m + k)
    BY <2>1, <2>2, ChunkIs, RunConcat
  <2>4. m + k \in Nat
    BY <2>1
  <2>5. Len(buf') = m + k
    BY <2>3, <2>4, RunIs
  <2>6. Position' = (a + m + k) - (m + k) + g
    BY <1>1, <2>1, <2>2, <2>5 DEF Position
  <2>7. Position' = Position
    BY <2>1, <2>6
  <2>8. Early' => Early
    BY <1>3, <2>2 DEF Early
  <2>9. Open
    BY <1>5 DEF Open
  <2> QED
    BY <1>3, <2>7, <2>8, <2>9 DEF Quiet
<1> QED
  BY <1>1, <1>4, <1>5

LEMMA IncomingRestQuiet == ASSUME Decoder, IncomingRest PROVE Quiet
<1>1. pc = "rest" /\ Insert(rest)
  BY DEF IncomingRest
<1>2. state = "Connecting" => HandshakeBytes(rest)
  BY RestSees
<1>3. Keeps /\ pstate' = pstate /\ end' = end
  BY <1>1, <1>2, InsertKeeps
<1>4. CASE state = "Connecting"
  BY <1>2, <1>3, <1>4, HandshakeQuiet DEF Quiet, Early
<1>5. CASE state # "Connecting"
  <2>1. ~Open
    BY <1>1 DEF Decoder, AtFrames
  <2>2. PICK b : b = buf \o rest
    OBVIOUS
  <2>3. PICK n \in {IF state = "Connecting" THEN WsResponse(Text(b)) ELSE 0} :
           /\ pc' = IF n = Throws THEN "idle" ELSE "skip"
           /\ n = 0 => state' = state
    BY <1>1, <2>2, InsertDoes
  <2>4. state' = state /\ pc' # "frames"
    BY <1>5, <2>3
  <2> QED
    BY <1>3, <2>1, <2>4 DEF Quiet, Open, Early
<1> QED
  BY <1>4, <1>5

LEMMA SkipQuiet == ASSUME Decoder, Skip PROVE Quiet
<1> DEFINE n == Min2(ignore, Len(buf))
<1>1. /\ pc = "skip" /\ state' = state /\ pstate' = pstate /\ arrived' = arrived /\ end' = end
      /\ buf' = IF state = "Connected" THEN Drop(buf, n) ELSE buf
      /\ ignore' = IF state = "Connected" THEN ignore - n ELSE ignore
      /\ pc' = IF state = "Connected" /\ ignore = n THEN "frames" ELSE "idle"
  BY DEF Skip, proxyVars, peerVars
<1>2. Keeps
  BY OthersKeep
<1>3. CASE state # "Connected"
  BY <1>1, <1>2, <1>3 DEF Quiet, Open, Early
<1>4. CASE state = "Connected"
  <2>1. PICK m \in Nat, a \in Nat, g \in Nat :
           /\ buf = Run(a, m) /\ Len(buf) = m /\ arrived = a + m /\ ignore = g
           /\ Position = a + g
    BY <1>4, PositionIs DEF Open
  <2>2. PICK j \in Nat : j = n /\ j <= m /\ j <= g
    BY <2>1 DEF Min2
  <2> HIDE DEF n
  <2>3. buf' = Run(a + j, m - j) /\ ignore' = g - j
    BY <1>1, <1>4, <2>1, <2>2, RunDrop
  <2>4. a + j \in Nat /\ m - j \in Nat
    BY <2>2
  <2>5. Len(buf') = m - j
    BY <2>3, <2>4, RunIs
  <2>6. Position' = (a + m) - (m - j) + (g - j)
    BY <1>1, <2>1, <2>3, <2>5 DEF Position
  <2>7. Position' = Position
    BY <2>1, <2>2, <2>6
  <2> QED
    BY <1>1, <1>2, <1>4, <2>7 DEF Quiet, Open, Early
<1> QED
  BY <1>3, <1>4

LEMMA ProxyChunkQuiet ==
  ASSUME Decoder, NEW k \in Nat, k \in 1 .. end - arrived, ProxyChunk(k)
  PROVE  Quiet
<1>1. Keeps
  BY OthersKeep
<1>2. pstate = "Connecting"
  BY DEF ProxyChunk
<1>3. state = "Disconnected"
  BY <1>2 DEF Decoder, AtProxy
<1>4. /\ pc' = IF rest' = <<>> THEN "idle" ELSE "rest"
      /\ state' = "Connecting" \/ state' = state
  BY DEF ProxyChunk, StartWs
<1>5. ~Open'
  BY <1>3, <1>4 DEF Open
<1> QED
  BY <1>1, <1>2, <1>5 DEF Quiet, Early

LEMMA OthersQuiet ==
  ASSUME Decoder,
         \/ LowerLost \/ Detach \/ CloseTimeout \/ Idle \/ IncomingNull \/ ParseEnd \/ UNCHANGED vars
         \/ \E t \in Closers : CloseCheck(t) \/ CloseSend(t)
  PROVE  Quiet
<1>1. Keeps
  BY OthersKeep
<1>2. /\ end' = end /\ arrived' = arrived /\ ignore' = ignore /\ buf' = buf
      /\ pc' = pc \/ (pc = "frames" /\ pc' = "idle")
      /\ state' \in {state, "Disconnected", "Failed"}
      /\ pstate' = pstate \/ (pstate' \in {"Failed", "Disconnected"} /\ state' # "Connecting")
  BY OthersLeave DEF Leaves
<1>3. Position' = Position
  BY <1>2 DEF Position
<1>4. (Open' => Open) /\ (Early' => Early)
  BY <1>2 DEF Open, Early
<1> QED
  BY <1>1, <1>2, <1>3, <1>4 DEF Quiet

\* The frame is not counted as taken by a handler that throws; nothing is looked
\* at after that.
LEMMA ThrowsQuiet ==
  ASSUME Decoder, NEW f, RecvFrame(f), ~Erase(f)
  PROVE  Quiet
<1>1. RecvPing(f)
  BY DEF RecvFrame, RecvData, RecvContinuation, RecvPong, RecvClose, RecvUnknown
<1>2. Broken /\ pc' = "idle" /\ UNCHANGED <<peerVars, proxyVars, msgVars>>
  BY <1>1 DEF RecvPing
<1>3. state' \in {"Disconnected", "Failed"}
  BY <1>2 DEF Broken, ChangeState
<1>4. listening' => listening
  BY <1>2, StopsListening
<1>5. Keeps
  BY <1>2, <1>4 DEF Keeps, peerVars, msgVars
<1>6. pstate' = pstate
  BY <1>2 DEF proxyVars
<1> QED
  BY <1>2, <1>3, <1>5, <1>6 DEF Quiet, Open, Early

\* What a step is, for the messages.
LEMMA StepIs ==
  ASSUME Decoder, [Next]_vars
  PROVE  \/ Quiet
         \/ \E op \in Ops, fin \in BOOLEAN, len \in setup.lengths : PeerSend(op, fin, len)
         \/ \E i \in 1 .. Len(frames) : RecvFrame(frames[i]) /\ Parsed(frames[i]) /\ Erase(frames[i]) /\ arrived' = arrived
<1>1. ASSUME NEW k \in 1 .. end - arrived, ProxyChunk(k) \/ IncomingChunk(k) PROVE Quiet
  <2>1. k \in Nat
    BY DEF Decoder, Types
  <2> QED
    BY <1>1, <2>1, ProxyChunkQuiet, IncomingChunkQuiet
<1>2. CASE IncomingRest \/ Skip
  BY <1>2, IncomingRestQuiet, SkipQuiet
<1>3. ASSUME NEW i \in 1 .. Len(frames), RecvFrame(frames[i])
      PROVE  Quiet \/ (Parsed(frames[i]) /\ Erase(frames[i]) /\ arrived' = arrived)
  BY <1>3, ThrowsQuiet, RecvFrameDoes
<1>4. CASE \/ LowerLost \/ Detach \/ CloseTimeout \/ Idle \/ IncomingNull \/ ParseEnd \/ UNCHANGED vars
           \/ \E t \in Closers : CloseCheck(t) \/ CloseSend(t)
  BY <1>4, OthersQuiet
<1> QED
  BY <1>1, <1>2, <1>3, <1>4 DEF Next, Process

-----------------------------------------------------------------------------
(* Bytes are delivered in order                                            *)

\* What is delivered and collected are bytes of payloads in order, and all of them
\* before the next frame.
Ordered ==
  /\ partialOp \in DataOps
  /\ Early => delivered = <<>> /\ partial = <<>>
  /\ \E p \in Nat : Row(delivered, partial, p) /\ (Open => p <= Position)

LEMMA RowEmpty == \A p : Row(<<>>, <<>>, p)
<1>1. <<>> \in Seq(Msgs) /\ 1 .. Len(<<>>) = {}
  BY EmptySeq
<1> QED
  BY <1>1, FineEmpty DEF Row

\* Other bytes are collected, beyond those delivered.
LEMMA RowReplace ==
  ASSUME NEW ds, NEW s, NEW t, NEW p \in Nat, NEW q \in Nat, p <= q, Row(ds, s, p),
         Fine(t, q), Beyond(t, p) \/ t = <<>>
  PROVE  Row(ds, t, q)
<1>1. ASSUME NEW r, Fine(r, p) PROVE Fine(r, q) /\ Apart(r, t)
  <2>1. CASE t = <<>>
    BY <1>1, <2>1, FineEmpty, FineMore
  <2>2. CASE Beyond(t, p)
    <3>1. r \in Seq(Nat) /\ t \in Seq(Nat) /\ Below(r, p)
      BY <1>1 DEF Fine
    <3> QED
      BY <1>1, <2>2, <3>1, BeyondApart, FineMore
  <2> QED
    BY <2>1, <2>2
<1> QED
  BY <1>1 DEF Row

\* The message collected is delivered.
LEMMA RowClose ==
  ASSUME NEW ds, NEW s, NEW q \in Nat, NEW type \in DataOps, Row(ds, s, q)
  PROVE  Row(Append(ds, [type |-> type, data |-> s]), <<>>, q) /\ Row(ds, <<>>, q)
<1>1. q <= q /\ Fine(<<>>, q)
  BY FineEmpty
<1> QED
  BY <1>1, RowNext, RowReplace

LEMMA ApartConcat ==
  ASSUME NEW r, NEW s \in Seq(Nat), NEW t \in Seq(Nat), Apart(r, s), Apart(r, t)
  PROVE  Apart(r, s \o t)
<1> DEFINE u == s \o t
<1>1. /\ Len(u) = Len(s) + Len(t) /\ Len(s) \in Nat /\ Len(t) \in Nat
      /\ \A i \in 1 .. Len(s) + Len(t) : u[i] = IF i <= Len(s) THEN s[i] ELSE t[i - Len(s)]
  BY ConcatProperties, LenProperties
<1> HIDE DEF u
<1>2. ASSUME NEW i \in 1 .. Len(u)
      PROVE  (i \in 1 .. Len(s) /\ u[i] = s[i]) \/ (i - Len(s) \in 1 .. Len(t) /\ u[i] = t[i - Len(s)])
  BY <1>1
<1>3. Apart(r, u)
  BY <1>2 DEF Apart
<1> QED
  BY <1>3 DEF u

\* More bytes are collected.
LEMMA RowExtend ==
  ASSUME NEW ds, NEW s, NEW t, NEW p \in Nat, NEW q \in Nat, p <= q, Row(ds, s, p),
         Fine(t, q), Beyond(t, p)
  PROVE  Row(ds, s \o t, q)
<1>1. Fine(s, p) /\ s \in Seq(Nat) /\ t \in Seq(Nat)
  BY DEF Row, Fine
<1>2. Row(ds, t, q) /\ Row(ds, s, q)
  BY RowReplace, RowMore
<1>3. Fine(s \o t, q)
  BY <1>1, FineConcat
<1>4. \A d \in 1 .. Len(ds) : Apart(ds[d].data, s \o t)
  BY <1>1, <1>2, ApartConcat DEF Row
<1> QED
  BY <1>2, <1>3, <1>4 DEF Row

LEMMA RowCut ==
  ASSUME NEW ds, NEW s, NEW p, Row(ds, s, p), NEW n \in Nat, n <= Len(s)
  PROVE  Row(ds, SubSeq(s, 1, n), p)
<1>1. Fine(s, p) /\ \A d \in 1 .. Len(ds) : Apart(ds[d].data, s)
  BY DEF Row
<1>2. Fine(SubSeq(s, 1, n), p) /\ \A d \in 1 .. Len(ds) : Apart(ds[d].data, SubSeq(s, 1, n))
  BY <1>1, FinePrefix
<1> QED
  BY <1>2 DEF Row

\* The bytes that a data frame has in mBuffer.
LEMMA RunFine ==
  ASSUME NEW i \in 1 .. Len(frames), frames[i].op \in DataOps \cup {"CONTINUATION"},
         NEW a \in Nat, NEW h \in Nat, NEW l \in Nat, NEW n \in Nat, n <= l,
         frames[i].at = a, HeaderLen[frames[i].len] = h, frames[i].len = l
  PROVE  Fine(Run(a + h, n), a + (h + l)) /\ \A p \in Nat : p <= a => Beyond(Run(a + h, n), p)
<1> DEFINE r == Run(a + h, n)
<1>1. a + h \in Nat
  OBVIOUS
<1>2. r \in Seq(Nat) /\ Len(r) = n /\ \A j \in 1 .. n : r[j] = (a + h) + j
  BY <1>1, RunIs
<1> HIDE DEF r
<1>3. Payloads(r)
  <2> SUFFICES ASSUME NEW j \in 1 .. n PROVE InPayload(r[j])
    BY <1>2 DEF Payloads
  <2>1. r[j] = a + h + j /\ r[j] \in a + h + 1 .. a + h + l
    BY <1>2, SMTT(30)
  <2>2. r[j] \in frames[i].at + HeaderLen[frames[i].len] + 1 .. frames[i].at + HeaderLen[frames[i].len] + frames[i].len
    BY <2>1
  <2> QED
    BY <2>2 DEF InPayload
<1>4. Increasing(r) /\ Below(r, a + (h + l))
  BY <1>2 DEF Increasing, Below
<1>5. \A p \in Nat : p <= a => Beyond(r, p)
  BY <1>2 DEF Beyond
<1> QED
  BY <1>2, <1>3, <1>4, <1>5 DEF Fine, r

LEMMA RowKept ==
  ASSUME NEW ds, NEW s, NEW p, Row(ds, s, p), \A x : InPayload(x) => InPayload(x)'
  PROVE  Row(ds, s, p)'
<1>1. ASSUME NEW t, Fine(t, p) PROVE Fine(t, p)'
  <2>1. t \in Seq(Nat) /\ Payloads(t) /\ Increasing(t) /\ Below(t, p)
    BY <1>1 DEF Fine
  <2>2. Payloads(t)'
    BY <2>1 DEF Payloads
  <2> QED
    BY <2>1, <2>2 DEF Fine, Increasing, Below
<1> QED
  BY <1>1 DEF Row, Apart

LEMMA Appended ==
  ASSUME NEW T, NEW s \in Seq(T), NEW x \in T, NEW y \in T
  PROVE  /\ s \o (<<>> \o <<>>) = s /\ s \o (<<>> \o <<y>>) = Append(s, y)
         /\ s \o (<<x>> \o <<>>) = Append(s, x) /\ s \o (<<x>> \o <<y>>) = Append(Append(s, x), y)
         /\ s \o <<>> = s /\ s \o <<y>> = Append(s, y)
<1>1. <<>> \in Seq(T) /\ <<x>> \in Seq(T) /\ <<y>> \in Seq(T)
  OBVIOUS
<1>2. s \o <<>> = s /\ <<>> \o <<>> = <<>> /\ <<>> \o <<y>> = <<y>> /\ <<x>> \o <<>> = <<x>>
  BY <1>1, ConcatEmptySeq
<1>3. s \o <<x>> = Append(s, x) /\ s \o <<y>> = Append(s, y) /\ Append(s, x) \in Seq(T)
  BY AppendIsConcat, AppendProperties
<1>4. Append(s, x) \o <<y>> = Append(Append(s, x), y)
  BY <1>3, AppendIsConcat
<1>5. s \o (<<x>> \o <<y>>) = (s \o <<x>>) \o <<y>>
  BY <1>1, ConcatAssociative
<1> QED
  BY <1>2, <1>3, <1>4, <1>5

LEMMA QuietOrdered ==
  ASSUME Decoder, Ordered, Quiet
  PROVE  Ordered'
<1>1. /\ setup' = setup /\ frames' = frames /\ partial' = partial /\ partialOp' = partialOp /\ delivered' = delivered
      /\ Early' => Early
      /\ Open' => (Open /\ Position' = Position) \/ (Early /\ Position' = Opening)
  BY DEF Quiet, Keeps
<1>2. PICK p \in Nat : Row(delivered, partial, p) /\ (Open => p <= Position)
  BY DEF Ordered
<1>3. \A x : InPayload(x) => InPayload(x)'
  BY <1>1 DEF InPayload
<1>4. ASSUME NEW q \in Nat, Row(delivered, partial, q) PROVE Row(delivered, partial, q)'
  BY <1>1, <1>3, <1>4, RowKept
<1>5. partialOp' \in DataOps /\ (Early' => delivered' = <<>> /\ partial' = <<>>)
  BY <1>1 DEF Ordered
<1>6. CASE Early
  <2>1. Row(delivered, partial, 0)
    BY <1>6, RowEmpty DEF Ordered
  <2>2. Row(delivered, partial, 0)'
    BY <1>4, <2>1
  <2>3. ~Open
    BY <1>6 DEF Early, Open, Decoder, AtProxy, AtHandshake
  <2>4. Opening \in Nat
    BY SetupIs DEF Decoder, Types
  <2>5. Open' => 0 <= Position'
    BY <1>1, <2>3, <2>4
  <2> QED
    BY <1>5, <2>2, <2>5 DEF Ordered
<1>7. CASE ~Early
  <2>1. Row(delivered, partial, p)'
    BY <1>2, <1>4
  <2>2. Open' => p <= Position'
    BY <1>1, <1>2, <1>7
  <2> QED
    BY <1>5, <2>1, <2>2 DEF Ordered
<1> QED
  BY <1>6, <1>7

LEMMA PeerSendOrdered ==
  ASSUME Decoder, Ordered, NEW op \in Ops, NEW fin \in BOOLEAN, NEW len \in setup.lengths, PeerSend(op, fin, len)
  PROVE  Ordered'
<1>1. /\ Len(frames) \in Nat /\ Len(frames') = Len(frames) + 1
      /\ \A i \in 1 .. Len(frames) : frames'[i] = frames[i]
      /\ UNCHANGED <<arrived, ignore, buf, pc, state, pstate>>
  BY PeerSendDoes DEF Decoder
<1>2. UNCHANGED <<partial, partialOp, delivered>>
  BY DEF PeerSend, msgVars
<1>3. PICK p \in Nat : Row(delivered, partial, p) /\ (Open => p <= Position)
  BY DEF Ordered
<1>4. ASSUME NEW x, InPayload(x) PROVE InPayload(x)'
  <2>1. PICK j \in 1 .. Len(frames) :
          /\ frames[j].op \in DataOps \cup {"CONTINUATION"}
          /\ x \in frames[j].at + HeaderLen[frames[j].len] + 1 ..
                   frames[j].at + HeaderLen[frames[j].len] + frames[j].len
    BY <1>4 DEF InPayload
  <2>2. j \in 1 .. Len(frames') /\ frames'[j] = frames[j]
    BY <1>1
  <2> QED
    BY <2>1, <2>2 DEF InPayload
<1>5. Row(delivered, partial, p)'
  BY <1>2, <1>3, <1>4, RowKept
<1>6. Position' = Position /\ (Open' <=> Open) /\ (Early' <=> Early)
  BY <1>1 DEF Position, Open, Early
<1> QED
  BY <1>2, <1>3, <1>5, <1>6 DEF Ordered

\* What is delivered and collected after a frame is taken.
LEMMA TakenOrdered ==
  ASSUME Decoder, NEW i \in 1 .. Len(frames), RecvFrame(frames[i]), Parsed(frames[i]), partialOp' \in DataOps,
         NEW q \in Nat, Row(delivered', partial', q), q <= Position'
  PROVE  Ordered'
<1>1. /\ pc = "frames" /\ frames' = frames /\ pstate' = pstate /\ state' \in {state, "Disconnected", "Failed"}
  BY RecvFrameDoes DEF Parsed
<1>2. ~Early'
  BY <1>1 DEF Early, Decoder, AtProxy, AtHandshake
<1>3. \A x : InPayload(x) => InPayload(x)'
  BY <1>1 DEF InPayload
<1>4. PICK ds, s : ds = delivered' /\ s = partial' /\ Row(ds, s, q)
  OBVIOUS
<1>5. Row(ds, s, q)'
  BY <1>3, <1>4, RowKept
<1>6. Row(delivered, partial, q)'
  BY <1>4, <1>5
<1> QED
  BY <1>2, <1>6 DEF Ordered

LEMMA ControlOrdered ==
  ASSUME Decoder, Ordered, NEW i \in 1 .. Len(frames), Parsed(frames[i]), Erase(frames[i]), arrived' = arrived,
         \/ RecvPing(frames[i]) \/ RecvPong(frames[i]) \/ RecvClose(frames[i]) \/ RecvUnknown(frames[i])
  PROVE  Ordered'
<1>1. partial' = partial /\ partialOp' = partialOp /\ delivered' = delivered
  BY DEF RecvPing, RecvPong, RecvClose, RecvUnknown, msgVars
<1>2. PICK a \in Nat, h \in Nat \ {0}, l \in Nat : Position = a /\ Position' = a + (h + l)
  BY Takes
<1>3. Open
  BY DEF Open, Parsed
<1>4. PICK p \in Nat : Row(delivered, partial, p) /\ p <= Position
  BY <1>3 DEF Ordered
<1>5. p <= Position' /\ Row(delivered', partial', p) /\ partialOp' \in DataOps
  BY <1>1, <1>2, <1>4 DEF Ordered
<1> QED
  BY <1>5, TakenOrdered DEF RecvFrame

LEMMA RecvDataOrdered ==
  ASSUME Decoder, Ordered, NEW i \in 1 .. Len(frames), arrived' = arrived, RecvData(frames[i])
  PROVE  Ordered'
<1> DEFINE f == frames[i]
           n == Min2(f.len, MaxMessageSize)
           c == Content(f, n)
           old == [type |-> partialOp, data |-> partial]
           new == [type |-> f.op, data |-> c]
<1>1. /\ f.op \in DataOps /\ Parsed(f) /\ Erase(f)
      /\ Deliver((IF partial = <<>> THEN <<>> ELSE <<old>>) \o (IF f.fin THEN <<new>> ELSE <<>>))
      /\ partial' = IF f.fin THEN <<>> ELSE c
      /\ partialOp' = f.op
  BY DEF RecvData
<1>2. PICK a \in Nat, h \in Nat \ {0}, l \in Nat :
        /\ f.at = a /\ HeaderLen[f.len] = h /\ f.len = l
        /\ Position = a /\ Position' = a + (h + l)
        /\ \A y \in Nat : y <= l /\ y <= MaxFrameLength => Content(f, y) = Run(a + h, y)
  BY <1>1, Takes, ZenonT(40)
<1>3. n \in Nat /\ n <= l /\ n <= MaxFrameLength
  BY <1>2, Sizes DEF Min2
<1>4. c = Run(a + h, n)
  BY <1>2, <1>3
<1>5. PICK q \in Nat : q = a + (h + l) /\ q = Position' /\ a <= q
  BY <1>2
<1>6. Fine(c, q) /\ \A p \in Nat : p <= a => Beyond(c, p)
  <2>1. h \in Nat /\ f.op \in DataOps \cup {"CONTINUATION"}
    BY <1>1, <1>2
  <2>2. Fine(Run(a + h, n), a + (h + l)) /\ \A p \in Nat : p <= a => Beyond(Run(a + h, n), p)
    BY <1>2, <1>3, <2>1, RunFine
  <2> QED
    BY <1>4, <1>5, <2>2
<1>7. PICK p \in Nat : Row(delivered, partial, p) /\ p <= a /\ p <= q
  <2>1. PICK p \in Nat : Row(delivered, partial, p) /\ p <= Position
    BY <1>1 DEF Ordered, Open, Parsed
  <2> QED
    BY <1>2, <1>5, <2>1
<1>8. delivered \in Seq(Msgs) /\ old \in Msgs /\ new \in Msgs
  <2>1. c \in Seq(Nat) /\ partial \in Seq(Nat) /\ delivered \in Seq(Msgs)
    BY <1>6, <1>7 DEF Row, Fine
  <2> QED
    BY <1>1, <2>1 DEF Msgs, Ordered
<1> HIDE DEF c, n
\* The message that was collected is delivered, and the one of this frame begins.
<1>9. ASSUME NEW ds, ds = delivered \/ (ds = Append(delivered, old)) PROVE Row(ds, c, q) /\ Row(ds, <<>>, q)
  <2>1. Beyond(c, p) /\ Fine(<<>>, q)
    BY <1>6, <1>7, FineEmpty
  <2>2. CASE ds = delivered
    BY <1>6, <1>7, <2>1, <2>2, RowReplace
  <2>3. CASE ds = Append(delivered, old)
    <3>1. partialOp \in DataOps
      BY DEF Ordered
    <3> QED
      BY <1>6, <1>7, <2>1, <2>3, <3>1, RowNext
  <2> QED
    BY <1>9, <2>2, <2>3
<1>10. ASSUME NEW ds, ds = delivered \/ (ds = Append(delivered, old)) PROVE Row(Append(ds, new), <<>>, q)
  <2>1. Row(ds, c, q)
    BY <1>9, <1>10
  <2> QED
    BY <1>1, <2>1, RowClose
<1>11. PICK ds : /\ ds = delivered \/ (ds = Append(delivered, old))
                 /\ delivered' = IF f.fin /\ listening THEN Append(ds, new) ELSE ds
  <2>1. CASE ~listening
    BY <1>1, <2>1 DEF Deliver
  <2>2. CASE listening
    <3>1. delivered' = delivered \o ((IF partial = <<>> THEN <<>> ELSE <<old>>) \o (IF f.fin THEN <<new>> ELSE <<>>))
      BY <1>1, <2>2 DEF Deliver
    <3> HIDE DEF old, new, f
    <3>2. /\ delivered \o (<<>> \o <<>>) = delivered /\ delivered \o (<<>> \o <<new>>) = Append(delivered, new)
          /\ delivered \o (<<old>> \o <<>>) = Append(delivered, old)
          /\ delivered \o (<<old>> \o <<new>>) = Append(Append(delivered, old), new)
      BY <1>8, Appended
    <3>3. CASE partial = <<>> /\ f.fin
      <4>1. delivered' = Append(delivered, new)
        BY <3>1, <3>2, <3>3
      <4> QED
        BY <2>2, <3>3, <4>1
    <3>4. CASE partial = <<>> /\ ~f.fin
      <4>1. delivered' = delivered
        BY <3>1, <3>2, <3>4
      <4> QED
        BY <3>4, <4>1
    <3>5. CASE partial # <<>> /\ f.fin
      <4>1. delivered' = Append(Append(delivered, old), new)
        BY <3>1, <3>2, <3>5
      <4> QED
        BY <2>2, <3>5, <4>1
    <3>6. CASE partial # <<>> /\ ~f.fin
      <4>1. delivered' = Append(delivered, old)
        BY <3>1, <3>2, <3>6
      <4> QED
        BY <3>6, <4>1
    <3> QED
      BY <3>3, <3>4, <3>5, <3>6
  <2> QED
    BY <2>1, <2>2
<1>12. Row(delivered', partial', q)
  BY <1>1, <1>9, <1>10, <1>11
<1>13. q <= Position' /\ partialOp' \in DataOps
  BY <1>1, <1>5
<1> QED
  BY <1>1, <1>12, <1>13, TakenOrdered DEF RecvFrame, f

LEMMA RecvContinuationOrdered ==
  ASSUME Decoder, Ordered, NEW i \in 1 .. Len(frames), arrived' = arrived, RecvContinuation(frames[i])
  PROVE  Ordered'
<1> DEFINE f == frames[i]
           n == Min2(f.len, MaxFrameLength)
           c == Content(f, n)
           s == partial \o c
           all == SubSeq(s, 1, Min2(Len(s), MaxMessageSize))
           m == [type |-> partialOp, data |-> all]
<1>1. /\ f.op = "CONTINUATION" /\ Parsed(f) /\ Erase(f)
      /\ Deliver(IF f.fin THEN <<m>> ELSE <<>>)
      /\ partial' = IF f.fin THEN <<>> ELSE all
      /\ partialOp' = partialOp
  BY DEF RecvContinuation
<1>2. PICK a \in Nat, h \in Nat \ {0}, l \in Nat :
        /\ f.at = a /\ HeaderLen[f.len] = h /\ f.len = l
        /\ Position = a /\ Position' = a + (h + l)
        /\ \A y \in Nat : y <= l /\ y <= MaxFrameLength => Content(f, y) = Run(a + h, y)
  BY <1>1, Takes, ZenonT(40)
<1>3. n \in Nat /\ n <= l /\ n <= MaxFrameLength
  BY <1>2, Sizes DEF Min2
<1>4. c = Run(a + h, n)
  BY <1>2, <1>3
<1>5. PICK q \in Nat : q = a + (h + l) /\ q = Position' /\ a <= q
  BY <1>2
<1>6. Fine(c, q) /\ \A p \in Nat : p <= a => Beyond(c, p)
  <2>1. h \in Nat /\ f.op \in DataOps \cup {"CONTINUATION"}
    BY <1>1, <1>2
  <2>2. Fine(Run(a + h, n), a + (h + l)) /\ \A p \in Nat : p <= a => Beyond(Run(a + h, n), p)
    BY <1>2, <1>3, <2>1, RunFine
  <2> QED
    BY <1>4, <1>5, <2>2
<1>7. PICK p \in Nat : Row(delivered, partial, p) /\ p <= a /\ p <= q
  <2>1. PICK p \in Nat : Row(delivered, partial, p) /\ p <= Position
    BY <1>1 DEF Ordered, Open, Parsed
  <2> QED
    BY <1>2, <1>5, <2>1
<1> HIDE DEF c, n
<1>8. Row(delivered, s, q)
  BY <1>6, <1>7, RowExtend
<1>9. Row(delivered, all, q)
  <2>1. s \in Seq(Nat)
    BY <1>8 DEF Row, Fine
  <2>2. Len(s) \in Nat /\ MaxMessageSize \in Nat
    BY <2>1, Sizes, LenProperties
  <2>3. Min2(Len(s), MaxMessageSize) \in Nat /\ Min2(Len(s), MaxMessageSize) <= Len(s)
    BY <2>2, Sizes
  <2> QED
    BY <1>8, <2>3, RowCut
<1>10. delivered \in Seq(Msgs) /\ m \in Msgs /\ Fine(<<>>, q) /\ partialOp \in DataOps
  BY <1>9, FineEmpty DEF Row, Fine, Msgs, Ordered
<1> HIDE DEF all
<1>11. Row(Append(delivered, m), <<>>, q) /\ Row(delivered, <<>>, q)
  BY <1>9, <1>10, RowClose
<1> HIDE DEF m
<1>12. delivered' = IF f.fin /\ listening THEN Append(delivered, m) ELSE delivered
  BY <1>1, <1>10, Appended, ZenonT(40) DEF Deliver
<1>13. Row(delivered', partial', q)
  BY <1>1, <1>9, <1>11, <1>12
<1>14. q <= Position' /\ partialOp' \in DataOps
  BY <1>1, <1>5, <1>10
<1> QED
  BY <1>1, <1>13, <1>14, TakenOrdered DEF RecvFrame, f

LEMMA OrderedStep == Decoder /\ Ordered /\ [Next]_vars => Ordered'
<1> SUFFICES ASSUME Decoder, Ordered, [Next]_vars PROVE Ordered'
  OBVIOUS
<1>1. ASSUME NEW i \in 1 .. Len(frames), RecvFrame(frames[i]), Parsed(frames[i]), Erase(frames[i]), arrived' = arrived
      PROVE  Ordered'
  BY <1>1, RecvDataOrdered, RecvContinuationOrdered, ControlOrdered DEF RecvFrame
<1> QED
  BY <1>1, StepIs, QuietOrdered, PeerSendOrdered

\* Whatever the peer sends and however it is cut: every byte delivered is a byte of
\* a payload, later in the stream than all that were delivered before it.
THEOREM BytesOrdered == Spec => []BytesInOrder
<1>1. ASSUME Init PROVE Ordered
  <2>1. partialOp \in DataOps /\ delivered = <<>> /\ partial = <<>>
    BY <1>1 DEF Init
  <2>2. ~Open
    BY <1>1 DEF Init, Open
  <2> QED
    BY <2>1, <2>2, RowEmpty DEF Ordered
<1>2. ASSUME Ordered PROVE BytesInOrder
  <2>1. PICK p \in Nat : Row(delivered, partial, p)
    BY <1>2 DEF Ordered
  <2> SUFFICES ASSUME NEW d \in 1 .. Len(delivered), NEW i \in 1 .. Len(delivered[d].data)
               PROVE  /\ InPayload(delivered[d].data[i])
                      /\ \A e \in 1 .. d : \A k \in 1 .. Len(delivered[e].data) :
                           (e < d \/ k < i) => delivered[e].data[k] < delivered[d].data[i]
    BY DEF BytesInOrder, InPayload
  <2>2. Fine(delivered[d].data, p)
    BY <2>1 DEF Row
  <2>3. InPayload(delivered[d].data[i])
    BY <2>2 DEF Fine, Payloads
  <2>4. ASSUME NEW e \in 1 .. d, NEW k \in 1 .. Len(delivered[e].data), e < d \/ k < i
        PROVE  delivered[e].data[k] < delivered[d].data[i]
    <3>1. e \in 1 .. Len(delivered)
      BY <2>1, LenProperties DEF Row
    <3>2. CASE e < d
      BY <2>1, <3>1, <3>2 DEF Row, Apart
    <3>3. CASE ~(e < d)
      <4>1. e = d /\ k < i
        BY <2>4, <3>3
      <4> QED
        BY <2>2, <4>1 DEF Fine, Increasing
    <3> QED
      BY <3>2, <3>3
  <2> QED
    BY <2>3, <2>4
<1> QED
  BY <1>1, <1>2, OrderedStep, DecoderHolds, PTL DEF Spec

-----------------------------------------------------------------------------
(* The messages of an orderly peer                                         *)

Sent == [type : Ops, fin : BOOLEAN, data : Seq(Nat)]

Unfin(s) == s # <<>> /\ ~s[Len(s)].fin

\* The last message of s, longer by the payload of f.
Longer(s, f) == [type |-> s[Len(s)].type, fin |-> f.fin, data |-> s[Len(s)].data \o Payload(f, f.len)]

\* Messages s are messages t after frame f.
Adds(s, f, t) ==
  \/ f.op \in ControlOps /\ t = s
  \/ /\ f.op \in DataOps /\ ~Unfin(s)
     /\ t = Append(s, [type |-> f.op, fin |-> f.fin, data |-> Payload(f, f.len)])
  \/ f.op = "CONTINUATION" /\ Unfin(s) /\ t = [s EXCEPT ![Len(s)] = Longer(s, f)]

\* Finished messages of s are messages of t.
Stay(s, t) == Len(s) <= Len(t) /\ \A d \in 1 .. Len(s) : s[d].fin => t[d] = s[d]

Cut(s) == SubSeq(s, 1, Min2(Len(s), MaxMessageSize))

\* What is delivered are the first messages of s.
Agrees(ds, s) ==
  /\ Len(ds) <= Len(s)
  /\ \A d \in 1 .. Len(ds) : s[d].fin /\ ds[d].type = s[d].type /\ ds[d].data = Cut(s[d].data)

\* And the one that is collected, if there is one, is the last.
Collects(s, ds, p, op) ==
  /\ Agrees(ds, s)
  /\ \/ Len(s) = Len(ds) /\ p = <<>>
     \/ Len(s) = Len(ds) + 1 /\ Unfin(s) /\ p = Cut(s[Len(s)].data) /\ op = s[Len(s)].type

LEMMA StayTransitive ==
  ASSUME NEW r \in Seq(Sent), NEW s \in Seq(Sent), NEW t \in Seq(Sent), Stay(r, s), Stay(s, t)
  PROVE  Stay(r, t)
<1>1. Len(r) \in Nat /\ Len(s) \in Nat /\ Len(t) \in Nat
  BY LenProperties
<1>2. Len(r) <= Len(s) /\ Len(s) <= Len(t)
  BY DEF Stay
<1>3. ASSUME NEW d \in 1 .. Len(r), r[d].fin PROVE t[d] = r[d]
  <2>1. d \in 1 .. Len(s) /\ s[d] = r[d]
    BY <1>1, <1>2, <1>3 DEF Stay
  <2> QED
    BY <1>3, <2>1 DEF Stay
<1> QED
  BY <1>1, <1>2, <1>3 DEF Stay

LEMMA AgreesStay ==
  ASSUME NEW ds \in Seq(Msgs), NEW s \in Seq(Sent), NEW t \in Seq(Sent), Agrees(ds, s), Stay(s, t)
  PROVE  Agrees(ds, t)
<1>1. Len(ds) \in Nat /\ Len(s) \in Nat /\ Len(t) \in Nat
  BY LenProperties
<1>2. Len(ds) <= Len(s) /\ Len(s) <= Len(t)
  BY DEF Stay, Agrees
<1>3. ASSUME NEW d \in 1 .. Len(ds)
      PROVE  t[d].fin /\ ds[d].type = t[d].type /\ ds[d].data = Cut(t[d].data)
  <2>1. d \in 1 .. Len(s) /\ s[d].fin /\ ds[d].type = s[d].type /\ ds[d].data = Cut(s[d].data)
    BY <1>1, <1>2 DEF Agrees
  <2>2. t[d] = s[d]
    BY <2>1 DEF Stay
  <2> QED
    BY <2>1, <2>2
<1> QED
  BY <1>1, <1>2, <1>3 DEF Agrees

LEMMA PayloadIs ==
  ASSUME NEW f, NEW a \in Nat, NEW h \in Nat, NEW l \in Nat, f.at = a, HeaderLen[f.len] = h, f.len = l
  PROVE  Payload(f, f.len) = Run(a + h, l) /\ Payload(f, f.len) \in Seq(Nat)
<1>1. Payload(f, f.len) = Run(a + h, l)
  BY DEF Payload, Run
<1>2. a + h \in Nat
  OBVIOUS
<1> QED
  BY <1>1, <1>2, RunIs

\* The shapes of Adds, on sequences.
LEMMA AppendShape ==
  ASSUME NEW s \in Seq(Sent), NEW m \in Sent, NEW t, t = Append(s, m)
  PROVE  /\ t \in Seq(Sent) /\ Len(s) \in Nat /\ Len(t) = Len(s) + 1 /\ t[Len(s) + 1] = m
         /\ \A d \in 1 .. Len(s) : t[d] = s[d]
BY AppendProperties, LenProperties

LEMMA LongerShape ==
  ASSUME NEW s \in Seq(Sent), s # <<>>, NEW m \in Sent, NEW t, t = [s EXCEPT ![Len(s)] = m]
  PROVE  /\ t \in Seq(Sent) /\ Len(s) \in Nat \ {0} /\ Len(t) = Len(s) /\ t[Len(s)] = m
         /\ \A d \in 1 .. Len(s) : d # Len(s) => t[d] = s[d]
<1>1. Len(s) \in Nat \ {0}
  BY EmptySeq, LenProperties
<1>2. Len(s) \in 1 .. Len(s)
  BY <1>1
<1>3. PICK n : n = Len(s) /\ n \in 1 .. Len(s)
  BY <1>2
<1>4. /\ [s EXCEPT ![n] = m] \in Seq(Sent) /\ Len([s EXCEPT ![n] = m]) = Len(s)
      /\ \A j \in 1 .. Len(s) : [s EXCEPT ![n] = m][j] = IF j = n THEN m ELSE s[j]
  BY <1>3, ExceptSeq
<1>5. t \in Seq(Sent) /\ Len(t) = Len(s) /\ \A j \in 1 .. Len(s) : t[j] = IF j = n THEN m ELSE s[j]
  BY <1>3, <1>4
<1> QED
  BY <1>1, <1>2, <1>3, <1>5

LEMMA LastIs ==
  ASSUME NEW s \in Seq(Sent), s # <<>>
  PROVE  Len(s) \in 1 .. Len(s) /\ s[Len(s)] \in Sent /\ s[Len(s)].data \in Seq(Nat)
<1>1. Len(s) \in Nat \ {0}
  BY EmptySeq, LenProperties
<1>2. Len(s) \in 1 .. Len(s)
  BY <1>1
<1>3. s[Len(s)] \in Sent
  BY <1>2, ElementOfSeq
<1> QED
  BY <1>2, <1>3 DEF Sent

LEMMA AddsStay ==
  ASSUME NEW f, f.op \in Ops, f.fin \in BOOLEAN, Payload(f, f.len) \in Seq(Nat),
         NEW s \in Seq(Sent), NEW t, Adds(s, f, t)
  PROVE  t \in Seq(Sent) /\ Stay(s, t)
<1>1. CASE t = s
  BY <1>1, LenProperties DEF Stay
<1>2. CASE f.op \in DataOps /\ t = Append(s, [type |-> f.op, fin |-> f.fin, data |-> Payload(f, f.len)])
  <2>1. [type |-> f.op, fin |-> f.fin, data |-> Payload(f, f.len)] \in Sent
    BY DEF Sent
  <2>2. /\ t \in Seq(Sent) /\ Len(s) \in Nat /\ Len(t) = Len(s) + 1
        /\ \A d \in 1 .. Len(s) : t[d] = s[d]
    BY <1>2, <2>1, AppendShape
  <2> QED
    BY <2>2 DEF Stay
<1>3. CASE Unfin(s) /\ t = [s EXCEPT ![Len(s)] = Longer(s, f)]
  <2>1. s # <<>> /\ ~s[Len(s)].fin
    BY <1>3 DEF Unfin
  <2>2. Longer(s, f) \in Sent
    <3>1. s[Len(s)] \in Sent /\ s[Len(s)].data \in Seq(Nat)
      BY <2>1, LastIs
    <3>2. s[Len(s)].data \o Payload(f, f.len) \in Seq(Nat) /\ s[Len(s)].type \in Ops
      BY <3>1, ConcatProperties DEF Sent
    <3> QED
      BY <3>2 DEF Longer, Sent
  <2>3. /\ t \in Seq(Sent) /\ Len(s) \in Nat \ {0} /\ Len(t) = Len(s)
        /\ \A d \in 1 .. Len(s) : d # Len(s) => t[d] = s[d]
    BY <1>3, <2>1, <2>2, LongerShape
  <2>4. \A d \in 1 .. Len(s) : s[d].fin => t[d] = s[d]
    BY <2>1, <2>3
  <2> QED
    BY <2>3, <2>4 DEF Stay
<1> QED
  BY <1>1, <1>2, <1>3 DEF Adds

LEMMA CutIs ==
  ASSUME NEW s \in Seq(Nat)
  PROVE  \E n \in Nat :
           /\ n = Min2(Len(s), MaxMessageSize) /\ n <= Len(s)
           /\ Cut(s) \in Seq(Nat) /\ Len(Cut(s)) = n /\ \A i \in 1 .. n : Cut(s)[i] = s[i]
<1>1. Len(s) \in Nat /\ MaxMessageSize \in Nat
  BY Sizes, LenProperties
<1>2. PICK n \in Nat : n = Min2(Len(s), MaxMessageSize) /\ n <= Len(s)
  BY <1>1, Sizes
<1>3. SubSeq(s, 1, n) \in Seq(Nat) /\ Len(SubSeq(s, 1, n)) = n /\ \A i \in 1 .. n : SubSeq(s, 1, n)[i] = s[i]
  BY <1>2, PrefixOf
<1> QED
  BY <1>2, <1>3 DEF Cut

\* What is cut off of the first fragments, and of a frame, is cut off of the message.
LEMMA CutTwice ==
  ASSUME NEW s \in Seq(Nat), NEW t \in Seq(Nat), NEW c \in Seq(Nat), Len(c) = Min2(Len(t), MaxFrameLength),
         \A i \in 1 .. Len(c) : c[i] = t[i]
  PROVE  Cut(Cut(s) \o c) = Cut(s \o t)
<1>1. PICK M \in Nat, F \in Nat, x \in Nat, l \in Nat, n \in Nat :
        /\ M = MaxMessageSize /\ F = MaxFrameLength /\ M <= F /\ x = Len(s) /\ l = Len(t) /\ n = Len(c) /\ n = Min2(l, F)
  BY Sizes, LenProperties
<1>2. PICK y \in Nat : /\ y = Min2(x, M) /\ Cut(s) \in Seq(Nat) /\ Len(Cut(s)) = y
                       /\ \A i \in 1 .. y : Cut(s)[i] = s[i]
  BY <1>1, CutIs
<1>2a. PICK b \in Seq(Nat) : b = Cut(s) /\ Len(b) = y /\ \A i \in 1 .. y : b[i] = s[i]
  BY <1>2
<1> DEFINE u == b \o c
           v == s \o t
<1>3. /\ u \in Seq(Nat) /\ Len(u) = y + n
      /\ \A i \in 1 .. y + n : u[i] = IF i <= y THEN b[i] ELSE c[i - y]
  <2>1. /\ u \in Seq(Nat) /\ Len(u) = Len(b) + Len(c)
        /\ \A i \in 1 .. Len(b) + Len(c) : u[i] = IF i <= Len(b) THEN b[i] ELSE c[i - Len(b)]
    BY ConcatProperties
  <2>2. Len(b) = y /\ Len(c) = n
    BY <1>1, <1>2a
  <2> QED
    BY <2>1, <2>2
<1>4. /\ v \in Seq(Nat) /\ Len(v) = x + l
      /\ \A i \in 1 .. x + l : v[i] = IF i <= x THEN s[i] ELSE t[i - x]
  BY <1>1, ConcatProperties
<1> HIDE DEF u, v
<1>5. PICK g \in Nat : /\ g = Min2(Len(u), MaxMessageSize) /\ Cut(u) \in Seq(Nat) /\ Len(Cut(u)) = g
                       /\ \A i \in 1 .. g : Cut(u)[i] = u[i]
  BY <1>3, CutIs
<1>6. PICK k \in Nat : /\ k = Min2(Len(v), MaxMessageSize) /\ Cut(v) \in Seq(Nat) /\ Len(Cut(v)) = k
                       /\ \A i \in 1 .. k : Cut(v)[i] = v[i]
  BY <1>4, CutIs
<1>7. /\ g = k /\ k <= y + n /\ k <= x + l /\ y <= x
      /\ y = x \/ k <= y
      /\ k - x <= n
  <2>1. n = Min2(l, F) /\ y = Min2(x, M) /\ g = Min2(y + n, M) /\ k = Min2(x + l, M) /\ M <= F
    BY <1>1, <1>2, <1>3, <1>4, <1>5, <1>6
  <2>2. CASE x < M
    <3>1. y = x
      BY <2>1, <2>2 DEF Min2
    <3> QED
      BY <2>1, <3>1 DEF Min2
  <2>3. CASE ~(x < M)
    <3>1. y = M /\ g = M /\ k = M
      BY <2>1, <2>3 DEF Min2
    <3> QED
      BY <2>3, <3>1
  <2> QED
    BY <2>2, <2>3
<1>8. ASSUME NEW i \in 1 .. k PROVE u[i] = v[i]
  <2>1. i \in 1 .. y + n /\ i \in 1 .. x + l
    BY <1>7
  <2>2. CASE i <= y
    <3>1. i \in 1 .. y /\ i <= x
      BY <1>7, <2>2
    <3>2. u[i] = b[i] /\ b[i] = s[i]
      BY <1>2a, <1>3, <2>1, <2>2, <3>1
    <3>3. v[i] = s[i]
      BY <1>4, <2>1, <3>1
    <3> QED
      BY <3>2, <3>3
  <2>3. CASE ~(i <= y)
    <3>1. y = x /\ i - x \in 1 .. n
      BY <1>7, <2>3
    <3>2. u[i] = c[i - x]
      BY <1>3, <2>1, <2>3, <3>1
    <3>3. v[i] = t[i - x]
      BY <1>4, <2>1, <2>3, <3>1
    <3>4. c[i - x] = t[i - x]
      BY <1>1, <3>1
    <3> QED
      BY <3>2, <3>3, <3>4
  <2> QED
    BY <2>2, <2>3
<1>9. Cut(u) = Cut(v)
  <2>1. Len(Cut(u)) = Len(Cut(v)) /\ \A i \in 1 .. Len(Cut(u)) : Cut(u)[i] = Cut(v)[i]
    BY <1>5, <1>6, <1>7, <1>8
  <2> QED
    BY <1>5, <1>6, <2>1, SeqEqual
<1> QED
  BY <1>2a, <1>9 DEF u, v

LEMMA AgreesAppend ==
  ASSUME NEW ds \in Seq(Msgs), NEW t \in Seq(Sent), NEW m \in Msgs, NEW n \in Nat, Len(ds) = n, Len(t) = n + 1,
         \A d \in 1 .. n : t[d].fin /\ ds[d].type = t[d].type /\ ds[d].data = Cut(t[d].data),
         t[n + 1].fin, m.type = t[n + 1].type, m.data = Cut(t[n + 1].data)
  PROVE  Agrees(Append(ds, m), t) /\ Len(Append(ds, m)) = n + 1
<1> DEFINE es == Append(ds, m)
<1>1. Len(es) = n + 1 /\ es[n + 1] = m /\ \A d \in 1 .. n : es[d] = ds[d]
  BY AppendProperties
<1> HIDE DEF es
<1>2. ASSUME NEW d \in 1 .. n + 1
      PROVE  t[d].fin /\ es[d].type = t[d].type /\ es[d].data = Cut(t[d].data)
  <2>1. CASE d \in 1 .. n
    BY <1>1, <2>1
  <2>2. CASE d = n + 1
    BY <1>1, <2>2
  <2> QED
    BY <2>1, <2>2
<1>3. Agrees(es, t)
  BY <1>1, <1>2 DEF Agrees
<1> QED
  BY <1>1, <1>3 DEF es

\* A frame that begins a message.
LEMMA CollectsData ==
  ASSUME NEW f, f.op \in DataOps, f.fin \in BOOLEAN, Payload(f, f.len) \in Seq(Nat),
         NEW s \in Seq(Sent), NEW t, Adds(s, f, t), NEW ds \in Seq(Msgs), NEW p, NEW op, Collects(s, ds, p, op)
  PROVE  /\ p = <<>>
         /\ f.fin => \A q : Collects(t, Append(ds, [type |-> f.op, data |-> Cut(Payload(f, f.len))]), <<>>, q)
         /\ ~f.fin => Collects(t, ds, Cut(Payload(f, f.len)), f.op)
<1> DEFINE m == [type |-> f.op, fin |-> f.fin, data |-> Payload(f, f.len)]
           e == [type |-> f.op, data |-> Cut(Payload(f, f.len))]
<1>1. f.op \notin ControlOps /\ f.op # "CONTINUATION" /\ f.op \in Ops
  BY DEF DataOps, ControlOps, Ops
<1>2. ~Unfin(s) /\ t = Append(s, m)
  BY <1>1 DEF Adds
<1>3. m \in Sent /\ e \in Msgs
  <2>1. Cut(Payload(f, f.len)) \in Seq(Nat)
    BY CutIs
  <2> QED
    BY <1>1, <2>1 DEF Sent, Msgs
<1>4. p = <<>> /\ Len(s) = Len(ds) /\ Agrees(ds, s)
  BY <1>2 DEF Collects
<1>5. /\ t \in Seq(Sent) /\ Len(s) \in Nat /\ Len(t) = Len(s) + 1 /\ t[Len(s) + 1] = m
      /\ \A d \in 1 .. Len(s) : t[d] = s[d]
  BY <1>2, <1>3, AppendShape
<1>6. PICK n \in Nat : n = Len(s) /\ n = Len(ds)
  BY <1>4, <1>5
<1>7. \A d \in 1 .. n : t[d].fin /\ ds[d].type = t[d].type /\ ds[d].data = Cut(t[d].data)
  BY <1>4, <1>5, <1>6 DEF Agrees
<1>8. m.fin = f.fin /\ m.type = f.op /\ m.data = Payload(f, f.len) /\ e.type = f.op /\ e.data = Cut(m.data)
  OBVIOUS
<1> HIDE DEF m
<1>9. ASSUME f.fin, NEW q PROVE Collects(t, Append(ds, e), <<>>, q)
  <2>1. Agrees(Append(ds, e), t) /\ Len(Append(ds, e)) = n + 1
    <3>1. e.type = m.type /\ e.data = Cut(m.data) /\ m.fin
      BY <1>8, <1>9
    <3> HIDE DEF e
    <3>2. Len(ds) = n /\ Len(t) = n + 1 /\ t[n + 1] = m
      BY <1>5, <1>6
    <3>3. t[n + 1].fin /\ e.type = t[n + 1].type /\ e.data = Cut(t[n + 1].data)
      BY <3>1, <3>2
    <3>4. t \in Seq(Sent) /\ e \in Msgs
      BY <1>3, <1>5
    <3> QED
      BY <1>7, <3>2, <3>3, <3>4, AgreesAppend, ZenonT(40)
  <2> QED
    BY <1>5, <1>6, <2>1 DEF Collects
<1>10. ASSUME ~f.fin PROVE Collects(t, ds, Cut(Payload(f, f.len)), f.op)
  <2>1. Agrees(ds, t)
    BY <1>5, <1>6, <1>7 DEF Agrees
  <2>2. t # <<>> /\ t[Len(t)] = m
    BY <1>5, <1>6, EmptySeq
  <2>3. Unfin(t)
    BY <1>8, <1>10, <2>2 DEF Unfin
  <2> QED
    BY <1>5, <1>6, <1>8, <2>1, <2>2, <2>3 DEF Collects
<1> QED
  BY <1>4, <1>9, <1>10

\* A frame that goes on with a message.
LEMMA CollectsMore ==
  ASSUME NEW f, f.op = "CONTINUATION", f.fin \in BOOLEAN, Payload(f, f.len) \in Seq(Nat),
         NEW s \in Seq(Sent), NEW t, Adds(s, f, t), NEW ds \in Seq(Msgs), NEW p, NEW op \in DataOps, Collects(s, ds, p, op)
  PROVE  \E r \in Seq(Nat) :
           /\ p = Cut(r)
           /\ f.fin => Collects(t, Append(ds, [type |-> op, data |-> Cut(r \o Payload(f, f.len))]), <<>>, op)
           /\ ~f.fin => Collects(t, ds, Cut(r \o Payload(f, f.len)), op)
<1> DEFINE r == s[Len(s)].data
           m == Longer(s, f)
           e == [type |-> op, data |-> Cut(r \o Payload(f, f.len))]
<1>1. f.op \notin ControlOps /\ f.op \notin DataOps
  BY DEF DataOps, ControlOps
<1>2. Unfin(s) /\ t = [s EXCEPT ![Len(s)] = m]
  BY <1>1 DEF Adds
<1>3. s # <<>> /\ ~s[Len(s)].fin
  BY <1>2 DEF Unfin
<1>4. Len(s) \in 1 .. Len(s) /\ s[Len(s)] \in Sent /\ r \in Seq(Nat)
  BY <1>3, LastIs
<1>5. r \o Payload(f, f.len) \in Seq(Nat)
  BY <1>4, ConcatProperties
<1>6. m \in Sent /\ e \in Msgs
  <2>1. Cut(r \o Payload(f, f.len)) \in Seq(Nat)
    BY <1>5, CutIs
  <2> QED
    BY <1>4, <1>5, <2>1 DEF Longer, Sent, Msgs
<1>7. Agrees(ds, s) /\ Len(s) = Len(ds) + 1 /\ p = Cut(r) /\ op = s[Len(s)].type
  <2>1. Len(s) # Len(ds)
    BY <1>3, <1>4 DEF Collects, Agrees
  <2> QED
    BY <2>1 DEF Collects
<1>8. /\ t \in Seq(Sent) /\ Len(s) \in Nat \ {0} /\ Len(t) = Len(s) /\ t[Len(s)] = m
      /\ \A d \in 1 .. Len(s) : d # Len(s) => t[d] = s[d]
  BY <1>2, <1>3, <1>6, LongerShape
<1>9. m.fin = f.fin /\ m.type = op /\ m.data = r \o Payload(f, f.len) /\ e.type = op /\ e.data = Cut(m.data)
  BY <1>7 DEF Longer
<1>10. PICK n \in Nat : n = Len(ds) /\ Len(s) = n + 1
  BY <1>7, LenProperties
<1>11. \A d \in 1 .. n : t[d].fin /\ ds[d].type = t[d].type /\ ds[d].data = Cut(t[d].data)
  <2> SUFFICES ASSUME NEW d \in 1 .. n
               PROVE  t[d].fin /\ ds[d].type = t[d].type /\ ds[d].data = Cut(t[d].data)
    OBVIOUS
  <2>1. d \in 1 .. Len(s) /\ d # Len(s) /\ d \in 1 .. Len(ds)
    BY <1>10
  <2>2. t[d] = s[d]
    BY <1>8, <2>1
  <2> QED
    BY <1>7, <2>1, <2>2 DEF Agrees
<1> HIDE DEF m
<1>12. ASSUME f.fin PROVE Collects(t, Append(ds, e), <<>>, op)
  <2>1. Agrees(Append(ds, e), t) /\ Len(Append(ds, e)) = n + 1
    <3>1. e.type = m.type /\ e.data = Cut(m.data) /\ m.fin
      BY <1>9, <1>12
    <3>2. Len(t) = n + 1 /\ t[n + 1] = m /\ t \in Seq(Sent) /\ e \in Msgs /\ Len(ds) = n
      BY <1>6, <1>8, <1>10
    <3>3. t[n + 1].fin /\ e.type = t[n + 1].type /\ e.data = Cut(t[n + 1].data)
      BY <3>1, <3>2
    <3> HIDE DEF e
    <3> QED
      BY <1>11, <3>2, <3>3, AgreesAppend
  <2> QED
    BY <1>8, <1>10, <2>1 DEF Collects
<1>13. ASSUME ~f.fin PROVE Collects(t, ds, Cut(r \o Payload(f, f.len)), op)
  <2>1. Agrees(ds, t)
    BY <1>8, <1>10, <1>11 DEF Agrees
  <2>2. t # <<>> /\ t[Len(t)] = m
    BY <1>8, EmptySeq
  <2>3. Unfin(t)
    BY <1>9, <1>13, <2>2 DEF Unfin
  <2> QED
    BY <1>8, <1>9, <1>10, <2>1, <2>2, <2>3 DEF Collects
<1> HIDE DEF r
<1> QED
  BY <1>4, <1>7, <1>12, <1>13

\* How the messages came about, frame by frame.
History(H) ==
  /\ H \in [0 .. Len(frames) -> Seq(Sent)] /\ H[0] = <<>> /\ H[Len(frames)] = messages
  /\ \A j \in 0 .. Len(frames) : Stay(H[j], messages)
  /\ \A j \in 1 .. Len(frames) : Adds(H[j - 1], frames[j], H[j])

\* The frames taken are the first k: their messages are delivered and collected.
Taken(H, k) == Bound(k + 1) = Position /\ Collects(H[k], delivered, partial, partialOp)

Told ==
  setup.orderly =>
    /\ Agrees(delivered, messages)
    /\ \E H : History(H) /\ ((listening /\ Open) => \E k \in 0 .. Len(frames) : Taken(H, k))

LEMMA OrderedIs == Ordered => delivered \in Seq(Msgs) /\ partial \in Seq(Nat) /\ partialOp \in DataOps
BY DEF Ordered, Row, Fine

LEMMA HistoryIs ==
  ASSUME Types, NEW H, History(H)
  PROVE  /\ messages \in Seq(Sent) /\ \A j \in 0 .. Len(frames) : H[j] \in Seq(Sent)
         /\ Len(frames) \in Nat
<1>1. Len(frames) \in Nat
  BY FramesAre
<1>2. Len(frames) \in 0 .. Len(frames)
  BY <1>1
<1> QED
  BY <1>1, <1>2 DEF History

LEMMA FramePayload ==
  ASSUME setup \in Setups, NEW f \in Frame
  PROVE  Payload(f, f.len) \in Seq(Nat) /\ f.op \in Ops /\ f.fin \in BOOLEAN
<1>1. PICK a \in Nat, h \in Nat, l \in Nat : f.at = a /\ HeaderLen[f.len] = h /\ f.len = l
  BY FrameIs
<1> QED
  BY <1>1, FrameIs, PayloadIs

\* Where a frame begins, no other does, and the stream does not end.
LEMMA SameBound ==
  ASSUME Decoder, NEW i \in 1 .. Len(frames), NEW k \in 0 .. Len(frames), Bound(k + 1) = frames[i].at
  PROVE  k = i - 1
<1>1. Types /\ Layout /\ Len(frames) \in Nat /\ setup \in Setups /\ end \in Nat
  BY FramesAre DEF Decoder, Types
<1>2. ASSUME NEW j \in 1 .. Len(frames)
      PROVE  frames[j].at \in Nat /\ After(frames[j]) \in Nat /\ frames[j].at < After(frames[j])
  <2>1. frames[j] \in Frame
    BY <1>1, FramesAre
  <2>2. PICK a \in Nat, h \in Nat \ {0}, l \in Nat :
          frames[j].at = a /\ HeaderLen[frames[j].len] = h /\ frames[j].len = l /\ After(frames[j]) = a + (h + l)
    BY <1>1, <2>1, FrameIs, ZenonT(40)
  <2> QED
    BY <2>2
<1>3. CASE k = Len(frames)
  <2>1. Bound(k + 1) = end
    BY <1>1, <1>3 DEF Bound
  <2>2. After(frames[i]) <= end
    BY <1>1 DEF Layout
  <2> QED
    BY <1>1, <1>2, <2>1, <2>2
<1>4. CASE k # Len(frames)
  <2>1. PICK j \in 1 .. Len(frames) : j = k + 1
    BY <1>1, <1>4
  <2>2. frames[j].at = frames[i].at
    BY <1>1, <2>1 DEF Bound
  <2>3. CASE i < j
    <3>1. After(frames[i]) <= frames[j].at
      BY <1>1, <2>3 DEF Layout
    <3> QED
      BY <1>2, <2>2, <3>1
  <2>4. CASE j < i
    <3>1. After(frames[j]) <= frames[i].at
      BY <1>1, <2>4 DEF Layout
    <3> QED
      BY <1>2, <2>2, <3>1
  <2>5. CASE i = j
    BY <1>1, <2>1, <2>5
  <2> QED
    BY <1>1, <2>3, <2>4, <2>5
<1> QED
  BY <1>3, <1>4

\* The messages of the peer, after it sent a frame.
LEMMA PeerSendAdds ==
  ASSUME NEW op \in Ops, NEW fin, NEW len, PeerSend(op, fin, len), setup.orderly,
         NEW f, f = [op |-> op, fin |-> fin, len |-> len, at |-> end]
  PROVE  Adds(messages, f, messages')
<1> DEFINE m == [type |-> op, fin |-> fin, data |-> Payload(f, len)]
           n == Len(messages)
<1>1. /\ op \in DataOps => ~Unfinished
      /\ op = "CONTINUATION" => Unfinished
      /\ messages' = CASE op \in ControlOps -> messages
                       [] op = "CONTINUATION" /\ Unfinished ->
                            [messages EXCEPT ![n] =
                               [type |-> @.type, fin |-> fin, data |-> @.data \o m.data]]
                       [] OTHER -> Append(messages, m)
  BY DEF PeerSend
<1>2. f.op = op /\ f.fin = fin /\ f.len = len
  OBVIOUS
<1>3. Unfinished <=> Unfin(messages)
  BY DEF Unfinished, Unfin
<1>4. CASE op \in ControlOps
  <2>1. op # "CONTINUATION"
    BY <1>4 DEF ControlOps
  <2>2. messages' = messages
    BY <1>1, <1>4, <2>1
  <2> QED
    BY <1>2, <1>4, <2>2 DEF Adds
<1>5. CASE op = "CONTINUATION"
  <2>1. op \notin ControlOps
    BY <1>5 DEF ControlOps
  <2>2. messages' = [messages EXCEPT ![n] = [type |-> @.type, fin |-> fin, data |-> @.data \o m.data]]
    BY <1>1, <1>5, <2>1
  <2>3. [type |-> messages[n].type, fin |-> fin, data |-> messages[n].data \o m.data] = Longer(messages, f)
    BY <1>2 DEF Longer
  <2>4. messages' = [messages EXCEPT ![Len(messages)] = Longer(messages, f)]
    BY <2>2, <2>3
  <2> QED
    BY <1>1, <1>2, <1>3, <1>5, <2>4 DEF Adds
<1>6. CASE op \in DataOps
  <2>1. op \notin ControlOps /\ op # "CONTINUATION"
    BY <1>6 DEF ControlOps, DataOps
  <2>2. messages' = Append(messages, m)
    BY <1>1, <2>1
  <2>3. m = [type |-> f.op, fin |-> f.fin, data |-> Payload(f, f.len)]
    BY <1>2
  <2> QED
    BY <1>1, <1>2, <1>3, <1>6, <2>2, <2>3 DEF Adds
<1> QED
  BY <1>4, <1>5, <1>6 DEF Ops

LEMMA PeerSendTold ==
  ASSUME Decoder, Ordered, Told, NEW op \in Ops, NEW fin \in BOOLEAN, NEW len \in setup.lengths, PeerSend(op, fin, len)
  PROVE  Told'
<1>1. Types /\ setup \in Setups
  BY DEF Decoder, Types
<1>2. PICK f \in Frame :
        /\ f = [op |-> op, fin |-> fin, len |-> len, at |-> end]
        /\ Len(frames) \in Nat /\ Len(frames') = Len(frames) + 1 /\ frames'[Len(frames) + 1] = f
        /\ \A i \in 1 .. Len(frames) : frames'[i] = frames[i]
        /\ setup' = setup /\ UNCHANGED <<arrived, ignore, buf, pc, state>>
  BY <1>1, PeerSendDoes
<1>3. partial' = partial /\ partialOp' = partialOp /\ delivered' = delivered /\ listening' = listening
  BY DEF PeerSend, msgVars
<1> SUFFICES ASSUME setup.orderly
             PROVE  /\ Agrees(delivered, messages)'
                    /\ (\E H : History(H) /\ ((listening /\ Open) => \E k \in 0 .. Len(frames) : Taken(H, k)))'
  BY <1>2 DEF Told
<1>4. PICK H : History(H) /\ ((listening /\ Open) => \E k \in 0 .. Len(frames) : Taken(H, k))
  BY DEF Told
<1>5. PICK n \in Nat, s \in Seq(Sent) : n = Len(frames) /\ s = messages
  BY <1>1, <1>4, HistoryIs
<1>5a. PICK ms : ms = messages'
  OBVIOUS
<1>6. ms \in Seq(Sent) /\ Stay(s, ms) /\ Adds(s, f, ms)
  <2>1. Adds(s, f, ms)
    BY <1>2, <1>5, <1>5a, PeerSendAdds
  <2> QED
    BY <1>1, <2>1, FramePayload, AddsStay
<1> DEFINE G == [j \in 0 .. n + 1 |-> IF j <= n THEN H[j] ELSE ms]
<1>7. G \in [0 .. n + 1 -> Seq(Sent)] /\ G[n + 1] = ms /\ \A j \in 0 .. n : G[j] = H[j]
  <2>1. \A j \in 0 .. n : H[j] \in Seq(Sent)
    BY <1>1, <1>4, <1>5, HistoryIs
  <2>2. \A j \in 0 .. n + 1 : j \in 0 .. n \/ (j = n + 1 /\ ~(j <= n))
    OBVIOUS
  <2> QED
    BY <1>6, <2>1, <2>2
<1> HIDE DEF G
<1>8. \A j \in 0 .. n + 1 : j \in 0 .. n \/ j = n + 1
  OBVIOUS
<1>9. \A j \in 0 .. n + 1 : Stay(G[j], ms)
  <2>1. ASSUME NEW j \in 0 .. n PROVE Stay(G[j], ms)
    <3>1. H[j] \in Seq(Sent) /\ Stay(H[j], s) /\ G[j] = H[j]
      BY <1>1, <1>4, <1>5, <1>7, HistoryIs DEF History
    <3> QED
      BY <1>6, <3>1, StayTransitive
  <2>2. Stay(G[n + 1], ms)
    BY <1>6, <1>7, LenProperties DEF Stay
  <2> QED
    BY <1>8, <2>1, <2>2
<1>10. ASSUME NEW j \in 1 .. n + 1 PROVE Adds(G[j - 1], frames'[j], G[j])
  <2>1. CASE j \in 1 .. n
    <3>1. j - 1 \in 0 .. n /\ j \in 0 .. n
      BY <2>1
    <3>2. Adds(H[j - 1], frames[j], H[j]) /\ frames'[j] = frames[j]
      BY <1>2, <1>4, <1>5, <2>1 DEF History
    <3> QED
      BY <1>7, <3>1, <3>2
  <2>2. CASE j = n + 1
    <3>1. j - 1 = n /\ n \in 0 .. n
      BY <2>2
    <3>2. G[n] = s
      BY <1>4, <1>5, <1>7, <3>1 DEF History
    <3>3. frames'[j] = f
      BY <1>2, <1>5, <2>2
    <3> QED
      BY <1>6, <1>7, <2>2, <3>1, <3>2, <3>3
  <2> QED
    BY <2>1, <2>2
<1>11. History(G)'
  <2>1. Len(frames') = n + 1 /\ messages' = ms
    BY <1>2, <1>5, <1>5a
  <2>2. G[0] = <<>>
    BY <1>4, <1>7 DEF History
  <2>3. \A j \in 1 .. Len(frames') : Adds(G[j - 1], frames'[j], G[j])
    BY <1>10, <2>1
  <2>4. \A j \in 0 .. Len(frames') : Stay(G[j], messages')
    BY <1>9, <2>1
  <2> QED
    BY <1>7, <2>1, <2>2, <2>3, <2>4 DEF History
<1>12. Agrees(delivered, messages)'
  <2>1. PICK ds \in Seq(Msgs) : ds = delivered
    BY OrderedIs
  <2>2. Agrees(ds, s)
    BY <1>5, <2>1 DEF Told
  <2>3. Agrees(ds, ms)
    BY <1>6, <2>2, AgreesStay
  <2> QED
    BY <1>3, <1>5, <1>5a, <2>1, <2>3 DEF Agrees, Cut
<1>13. ASSUME (listening /\ Open)' PROVE (\E k \in 0 .. Len(frames) : Taken(G, k))'
  <2>1. listening /\ Open
    BY <1>2, <1>3, <1>13 DEF Open
  <2>2. PICK k \in 0 .. n : Taken(H, k)
    BY <1>4, <1>5, <2>1
  <2>3. Bound(k + 1)' = Bound(k + 1)
    <3>1. k + 1 \in 1 .. n + 1 /\ f.at = end
      BY <1>2
    <3> QED
      BY <1>2, <1>5, <3>1, Grows
  <2>4. Position' = Position
    BY <1>2 DEF Position
  <2>5. G[k] = H[k]
    BY <1>7
  <2>6. Collects(G[k], delivered, partial, partialOp)'
    <3>1. PICK w, ds, p, o : w = G[k] /\ ds = delivered /\ p = partial /\ o = partialOp /\ Collects(w, ds, p, o)
      BY <2>2, <2>5 DEF Taken
    <3> QED
      BY <1>3, <3>1 DEF Collects, Agrees, Unfin, Cut
  <2>7. Taken(G, k)'
    BY <2>2, <2>3, <2>4, <2>6 DEF Taken
  <2>8. k \in 0 .. Len(frames')
    BY <1>2, <1>5
  <2> QED
    BY <2>7, <2>8
<1> QED
  BY <1>11, <1>12, <1>13

LEMMA HistoryKept ==
  ASSUME NEW H, History(H), frames' = frames, messages' = messages
  PROVE  History(H)'
BY DEF History

LEMMA QuietTold ==
  ASSUME Decoder, Decoder', Ordered, Told, Quiet
  PROVE  Told'
<1>1. /\ setup' = setup /\ frames' = frames /\ messages' = messages
      /\ partial' = partial /\ partialOp' = partialOp /\ delivered' = delivered /\ (listening' => listening)
      /\ Open' => end' = end /\ ((Open /\ Position' = Position) \/ (Early /\ Position' = Opening))
  BY DEF Quiet, Keeps
<1> SUFFICES ASSUME setup.orderly
             PROVE  /\ Agrees(delivered, messages)'
                    /\ (\E H : History(H) /\ ((listening /\ Open) => \E k \in 0 .. Len(frames) : Taken(H, k)))'
  BY <1>1 DEF Told
<1>2. PICK H : History(H) /\ ((listening /\ Open) => \E k \in 0 .. Len(frames) : Taken(H, k))
  BY DEF Told
<1>3. History(H)'
  BY <1>1, <1>2, HistoryKept
<1>4. Agrees(delivered, messages)'
  BY <1>1 DEF Told, Agrees, Cut
<1>5. ASSUME (listening /\ Open)' PROVE (\E k \in 0 .. Len(frames) : Taken(H, k))'
  <2>1. listening /\ end' = end /\ ((Open /\ Position' = Position) \/ (Early /\ Position' = Opening))
    BY <1>1, <1>5
  <2>2. CASE Open /\ Position' = Position
    <3>1. PICK k \in 0 .. Len(frames) : Taken(H, k)
      BY <1>2, <2>1, <2>2
    <3>2. Bound(k + 1)' = Bound(k + 1)
      BY <1>1, <2>1 DEF Bound
    <3>3. Taken(H, k)'
      BY <1>1, <2>2, <3>1, <3>2 DEF Taken, Collects, Agrees, Unfin, Cut
    <3> QED
      BY <1>1, <3>1, <3>3
  <2>3. CASE Early /\ Position' = Opening
    <3>1. delivered' = <<>> /\ partial' = <<>> /\ H[0] = <<>>
      BY <1>1, <1>2, <2>3 DEF Ordered, History
    <3>2. Bound(1)' = Opening /\ 0 + 1 = 1
      <4>1. Opening' = Opening
        BY <1>1 DEF Opening
      <4>2. end' >= Opening' /\ (end' >= Opening' => Bound(1)' = Opening')
        BY <1>5 DEF Decoder, AtFrames, Layout
      <4> QED
        BY <4>1, <4>2
    <3>3. Collects(<<>>, <<>>, <<>>, partialOp')
      BY EmptySeq DEF Collects, Agrees
    <3>4. Bound(0 + 1)' = Position'
      BY <2>3, <3>2
    <3>5. Taken(H, 0)'
      BY <3>1, <3>3, <3>4 DEF Taken
    <3>6. 0 \in 0 .. Len(frames')
      BY <1>1, FramesAre DEF Decoder
    <3> QED
      BY <3>5, <3>6
  <2> QED
    BY <2>1, <2>2, <2>3
<1> QED
  BY <1>3, <1>4, <1>5

LEMMA CutRun ==
  ASSUME NEW b \in Nat, NEW l \in Nat
  PROVE  Cut(Run(b, l)) = Run(b, Min2(l, MaxMessageSize))
<1>1. PICK n \in Nat : n = Min2(l, MaxMessageSize) /\ n <= l
  BY Sizes
<1>2. PICK z \in Nat : z + n <= l /\ z + n = n /\ z + 1 = 1 /\ b + z = b
  BY <1>1
<1>3. SubSeq(Run(b, l), z + 1, z + n) = Run(b + z, n)
  <2>1. RunWithin(b, l, z, n)
    BY <1>2, RunSub
  <2> QED
    BY <2>1 DEF RunWithin
<1>4. Len(Run(b, l)) = l
  BY RunIs
<1> QED
  BY <1>1, <1>2, <1>3, <1>4 DEF Cut

\* What the handler of a frame makes of messages that agree with those of the peer.
LEMMA RecvCollects ==
  ASSUME Decoder, Ordered, NEW i \in 1 .. Len(frames), RecvFrame(frames[i]), Parsed(frames[i]), Erase(frames[i]),
         arrived' = arrived, listening, NEW s \in Seq(Sent), NEW t, Adds(s, frames[i], t),
         Collects(s, delivered, partial, partialOp)
  PROVE  Collects(t, delivered', partial', partialOp')
<1> DEFINE f == frames[i]
<1>1. Types /\ setup \in Setups
  BY DEF Decoder, Types
<1>2. f \in Frame /\ f.fin \in BOOLEAN /\ Payload(f, f.len) \in Seq(Nat)
  BY <1>1, FramesAre, FramePayload
<1>3. delivered \in Seq(Msgs) /\ partial \in Seq(Nat) /\ partialOp \in DataOps
  BY OrderedIs
<1>4. PICK a \in Nat, h \in Nat \ {0}, l \in Nat :
        /\ f.at = a /\ HeaderLen[f.len] = h /\ f.len = l
        /\ \A y \in Nat : y <= l /\ y <= MaxFrameLength => Content(f, y) = Run(a + h, y)
  BY Takes, ZenonT(40)
<1>5. Payload(f, f.len) = Run(a + h, l) /\ Len(Payload(f, f.len)) = l /\ \A j \in 1 .. l : Payload(f, f.len)[j] = (a + h) + j
  <2>1. h \in Nat /\ a + h \in Nat
    BY <1>4
  <2>2. Payload(f, f.len) = Run(a + h, l)
    BY <1>4, <2>1, PayloadIs, SMTT(30)
  <2>3. Len(Run(a + h, l)) = l /\ \A j \in 1 .. l : Run(a + h, l)[j] = (a + h) + j
    BY <2>1, RunIs
  <2> QED
    BY <2>2, <2>3
<1> DEFINE P == Payload(f, f.len)
<1>6. CASE RecvPing(f) \/ RecvPong(f) \/ RecvClose(f) \/ RecvUnknown(f)
  <2>1. partial' = partial /\ partialOp' = partialOp /\ delivered' = delivered
    BY <1>6 DEF RecvPing, RecvPong, RecvClose, RecvUnknown, msgVars
  <2>2. f.op \in ControlOps
    BY <1>6 DEF RecvPing, RecvPong, RecvClose, RecvUnknown, ControlOps
  <2>3. f.op \notin DataOps /\ f.op # "CONTINUATION"
    BY <2>2 DEF ControlOps, DataOps
  <2>4. t = s
    BY <2>3 DEF Adds
  <2> QED
    BY <2>1, <2>4
<1>7. CASE RecvData(f)
  <2> DEFINE n == Min2(f.len, MaxMessageSize)
             c == Content(f, n)
             old == IF partial = <<>> THEN <<>> ELSE <<[type |-> partialOp, data |-> partial]>>
  <2>1. /\ f.op \in DataOps
        /\ delivered' = delivered \o (old \o (IF f.fin THEN <<[type |-> f.op, data |-> c]>> ELSE <<>>))
        /\ partial' = IF f.fin THEN <<>> ELSE c
        /\ partialOp' = f.op
    BY <1>7 DEF RecvData, Deliver
  <2>2. c = Cut(P)
    <3>1. n \in Nat /\ n <= l /\ n <= MaxFrameLength
      BY <1>4, Sizes DEF Min2
    <3>2. c = Run(a + h, n)
      BY <1>4, <3>1
    <3>3. a + h \in Nat
      BY <1>4
    <3>4. Cut(Run(a + h, l)) = Run(a + h, Min2(l, MaxMessageSize))
      BY <1>4, <3>3, CutRun
    <3> QED
      BY <1>4, <1>5, <3>2, <3>4
  <2> HIDE DEF P, c
  <2>3. /\ partial = <<>>
        /\ f.fin => \A q : Collects(t, Append(delivered, [type |-> f.op, data |-> Cut(P)]), <<>>, q)
        /\ ~f.fin => Collects(t, delivered, Cut(P), f.op)
    BY <1>2, <1>3, <2>1, CollectsData DEF P
  <2>4. [type |-> f.op, data |-> c] \in Msgs
    <3>1. c \in Seq(Nat)
      BY <1>2, <2>2, CutIs DEF P
    <3> QED
      BY <2>1, <3>1 DEF Msgs
  <2>5. old = <<>>
    BY <2>3
  <2>6. CASE f.fin
    <3>1. delivered' = delivered \o (<<>> \o <<[type |-> f.op, data |-> c]>>) /\ partial' = <<>>
      BY <2>1, <2>5, <2>6
    <3>2. delivered' = Append(delivered, [type |-> f.op, data |-> c])
      BY <1>3, <2>4, <3>1, Appended
    <3> QED
      BY <2>2, <2>3, <2>6, <3>1, <3>2
  <2>7. CASE ~f.fin
    <3>1. delivered' = delivered \o (<<>> \o <<>>) /\ partial' = c
      BY <2>1, <2>5, <2>7
    <3>2. delivered' = delivered
      BY <1>3, <2>4, <3>1, Appended
    <3> QED
      BY <2>1, <2>2, <2>3, <2>7, <3>1, <3>2
  <2> QED
    BY <2>6, <2>7
<1>8. CASE RecvContinuation(f)
  <2> DEFINE n == Min2(f.len, MaxFrameLength)
             c == Content(f, n)
             all == Cut(partial \o c)
             m == [type |-> partialOp, data |-> all]
  <2>1. /\ f.op = "CONTINUATION"
        /\ delivered' = delivered \o (IF f.fin THEN <<m>> ELSE <<>>)
        /\ partial' = IF f.fin THEN <<>> ELSE all
        /\ partialOp' = partialOp
    BY <1>8 DEF RecvContinuation, Deliver, Cut
  <2>2. c \in Seq(Nat) /\ Len(c) = Min2(Len(P), MaxFrameLength) /\ \A j \in 1 .. Len(c) : c[j] = P[j]
    <3>1. n \in Nat /\ n <= l /\ n <= MaxFrameLength
      BY <1>4, Sizes DEF Min2
    <3>2. c = Run(a + h, n) /\ a + h \in Nat
      BY <1>4, <3>1
    <3>3. PICK b \in Nat, w \in Nat : b = a + h /\ w = n /\ w <= l
      BY <3>1, <3>2
    <3>4. c \in Seq(Nat) /\ Len(c) = w /\ \A j \in 1 .. w : c[j] = b + j
      <4>1. c = Run(b, w)
        BY <3>2, <3>3
      <4> HIDE DEF c
      <4> QED
        BY <4>1, RunIs
    <3>5. \A j \in 1 .. w : j \in 1 .. l
      BY <1>4, <3>3
    <3>6. \A j \in 1 .. w : P[j] = b + j
      BY <1>5, <3>3, <3>5
    <3> QED
      BY <1>4, <1>5, <3>3, <3>4, <3>6
  <2> HIDE DEF P, c
  <2>3. PICK r \in Seq(Nat) :
          /\ partial = Cut(r)
          /\ f.fin => Collects(t, Append(delivered, [type |-> partialOp, data |-> Cut(r \o P)]), <<>>, partialOp)
          /\ ~f.fin => Collects(t, delivered, Cut(r \o P), partialOp)
    <3>1. /\ f.op = "CONTINUATION" /\ f.fin \in BOOLEAN /\ Payload(f, f.len) \in Seq(Nat) /\ Adds(s, f, t)
          /\ delivered \in Seq(Msgs) /\ partialOp \in DataOps /\ Collects(s, delivered, partial, partialOp)
      BY <1>2, <1>3, <2>1
    <3> HIDE DEF f
    <3>2. \E r \in Seq(Nat) :
            /\ partial = Cut(r)
            /\ f.fin => Collects(t, Append(delivered, [type |-> partialOp, data |-> Cut(r \o Payload(f, f.len))]), <<>>,
                                 partialOp)
            /\ ~f.fin => Collects(t, delivered, Cut(r \o Payload(f, f.len)), partialOp)
      BY <3>1, CollectsMore
    <3> QED
      BY <3>2 DEF P
  <2>4. all = Cut(r \o P)
    BY <1>2, <2>2, <2>3, CutTwice DEF P
  <2>5. m \in Msgs
    <3>1. partial \o c \in Seq(Nat)
      BY <1>3, <2>2, ConcatProperties
    <3>2. all \in Seq(Nat)
      BY <3>1, CutIs
    <3> QED
      BY <1>3, <3>2 DEF Msgs
  <2> HIDE DEF all
  <2>6. CASE f.fin
    <3>1. delivered' = Append(delivered, m) /\ partial' = <<>>
      BY <1>3, <2>1, <2>5, <2>6, Appended
    <3> QED
      BY <2>1, <2>3, <2>4, <2>6, <3>1
  <2>7. CASE ~f.fin
    <3>1. delivered' = delivered /\ partial' = all
      BY <1>3, <2>1, <2>5, <2>7, Appended
    <3> QED
      BY <2>1, <2>3, <2>4, <2>7, <3>1
  <2> QED
    BY <2>6, <2>7
<1> QED
  BY <1>6, <1>7, <1>8 DEF RecvFrame

LEMMA RecvTold ==
  ASSUME Decoder, Ordered, Ordered', Told, NEW i \in 1 .. Len(frames), RecvFrame(frames[i]), Parsed(frames[i]),
         Erase(frames[i]), arrived' = arrived
  PROVE  Told'
<1>1. setup' = setup /\ frames' = frames /\ messages' = messages /\ end' = end
  BY RecvFrameDoes
<1>2. Types /\ setup \in Setups /\ Open
  BY DEF Decoder, Types, Open, Parsed
<1> SUFFICES ASSUME setup.orderly
             PROVE  /\ Agrees(delivered, messages)'
                    /\ (\E H : History(H) /\ ((listening /\ Open) => \E k \in 0 .. Len(frames) : Taken(H, k)))'
  BY <1>1 DEF Told
<1>3. PICK H : History(H) /\ ((listening /\ Open) => \E k \in 0 .. Len(frames) : Taken(H, k))
  BY DEF Told
<1>4. History(H)'
  BY <1>1, <1>3, HistoryKept
<1>5. ASSUME ~listening PROVE delivered' = delivered /\ ~listening'
  <2>1. CASE RecvData(frames[i]) \/ RecvContinuation(frames[i])
    <3>1. listening' = listening
      BY <2>1 DEF RecvData, RecvContinuation
    <3>2. PICK ms : Deliver(ms)
      BY <2>1 DEF RecvData, RecvContinuation
    <3> QED
      BY <1>5, <3>1, <3>2 DEF Deliver
  <2>2. CASE RecvPing(frames[i]) \/ RecvPong(frames[i]) \/ RecvClose(frames[i]) \/ RecvUnknown(frames[i])
    <3>1. delivered' = delivered
      BY <2>2 DEF RecvPing, RecvPong, RecvClose, RecvUnknown, msgVars
    <3>2. (\E s : ChangeState(s)) \/ Broken \/ listening' = listening
      <4>1. CASE RecvPing(frames[i]) \/ RecvPong(frames[i]) \/ RecvClose(frames[i])
        BY <4>1 DEF RecvPing, RecvPong, RecvClose
      <4>2. CASE RecvUnknown(frames[i])
        <5>1. Close \/ listening' = listening
          BY <4>2 DEF RecvUnknown
        <5>2. CASE Close
          <6>1. CASE closeSent
            BY <5>2, <6>1 DEF Close
          <6>2. CASE ~closeSent /\ up
            BY <5>2, <6>2 DEF Close
          <6>3. CASE ~closeSent /\ ~up
            BY <5>2, <6>3 DEF Close
          <6> QED
            BY <6>1, <6>2, <6>3
        <5> QED
          BY <5>1, <5>2
      <4> QED
        BY <2>2, <4>1, <4>2
    <3> QED
      BY <1>5, <3>1, <3>2, StopsListening
  <2> QED
    BY <2>1, <2>2 DEF RecvFrame
<1>6. CASE ~listening
  <2>1. delivered' = delivered /\ ~listening'
    BY <1>5, <1>6
  <2>2. Agrees(delivered, messages)'
    BY <1>1, <2>1 DEF Told, Agrees, Cut
  <2> QED
    BY <1>4, <2>1, <2>2
<1>7. CASE listening
  <2>1. PICK k \in 0 .. Len(frames) : Taken(H, k)
    BY <1>2, <1>3, <1>7
  <2>2. PICK a \in Nat, h \in Nat \ {0}, l \in Nat :
          frames[i].at = a /\ Position = a /\ Position' = a + (h + l) /\ Bound(i + 1) = a + (h + l)
    BY Takes
  <2>3. k = i - 1
    BY <2>1, <2>2, SameBound DEF Taken
  <2>4. Len(frames) \in Nat /\ i \in 0 .. Len(frames) /\ i - 1 \in 0 .. Len(frames)
    BY <1>2, FramesAre
  <2>5. PICK s \in Seq(Sent), t \in Seq(Sent) :
          s = H[i - 1] /\ t = H[i] /\ Adds(s, frames[i], t) /\ Stay(t, messages)
    BY <1>2, <1>3, <2>4, HistoryIs DEF History
  <2>6. Collects(s, delivered, partial, partialOp)
    BY <2>1, <2>3, <2>5 DEF Taken
  <2>7. Collects(t, delivered', partial', partialOp')
    BY <1>7, <2>5, <2>6, RecvCollects
  <2>8. Agrees(delivered, messages)'
    <3>1. delivered' \in Seq(Msgs) /\ messages \in Seq(Sent)
      <4>1. (delivered \in Seq(Msgs))'
        BY DEF Ordered, Row
      <4> QED
        BY <1>2, <1>3, <4>1, HistoryIs DEF Msgs
    <3>2. PICK ds \in Seq(Msgs), ms \in Seq(Sent) : ds = delivered' /\ ms = messages
      BY <3>1
    <3>3. Agrees(ds, t) /\ Stay(t, ms)
      BY <2>5, <2>7, <3>2 DEF Collects
    <3>4. Agrees(ds, ms)
      BY <3>3, AgreesStay
    <3> QED
      BY <1>1, <3>2, <3>4
  <2>9. Bound(i + 1)' = Bound(i + 1)
    BY <1>1 DEF Bound
  <2>10. Taken(H, i)'
    BY <2>2, <2>5, <2>7, <2>9 DEF Taken
  <2> QED
    BY <1>1, <1>4, <2>4, <2>8, <2>10
<1> QED
  BY <1>6, <1>7

LEMMA ToldStep == Decoder /\ Ordered /\ Told /\ [Next]_vars => Told'
<1> SUFFICES ASSUME Decoder, Ordered, Told, [Next]_vars PROVE Told'
  OBVIOUS
<1>1. Decoder' /\ Ordered'
  BY DecoderStep, OrderedStep
<1> QED
  BY <1>1, StepIs, QuietTold, PeerSendTold, RecvTold

\* incoming() returns with an incomplete frame in mBuffer, or nothing.
Waits ==
  (state = "Connected" /\ pc = "idle" /\ buf # <<>>) =>
    \E i \in 1 .. Len(frames) :
      /\ frames[i].at + Len(buf) = arrived
      /\ Len(buf) < HeaderLen[frames[i].len] + Min2(frames[i].len, MaxFrameLength)

LEMMA ParseEndWaits == ASSUME Decoder, ParseEnd PROVE Waits'
<1>1. /\ pc = "frames" /\ frames' = frames /\ arrived' = arrived /\ buf' = buf
      /\ \A i \in 1 .. Len(frames) : ~Parsed(frames[i])
  BY DEF ParseEnd, peerVars
<1>2. Types /\ Layout /\ setup \in Setups /\ arrived <= end /\ Open /\ end \in Nat /\ Len(frames) \in Nat
  BY <1>1, FramesAre DEF Decoder, Types, Open
<1> SUFFICES ASSUME buf # <<>>
             PROVE  \E i \in 1 .. Len(frames) :
                      /\ frames[i].at + Len(buf) = arrived
                      /\ Len(buf) < HeaderLen[frames[i].len] + Min2(frames[i].len, MaxFrameLength)
  BY <1>1 DEF Waits
<1>3. ignore = 0
  BY <1>1, <1>2 DEF Decoder, AtFrames
<1>4. PICK m \in Nat, a \in Nat, g \in Nat, k \in 0 .. Len(frames) :
        /\ buf = Run(a, m) /\ Len(buf) = m /\ arrived = a + m /\ ignore = g
        /\ Bound(k + 1) = a + g
  BY <1>2, PositionIs
<1>5. m # 0 /\ Bound(k + 1) = a /\ a < arrived
  BY <1>3, <1>4, RunEmpty
<1>6. PICK i \in 1 .. Len(frames) : i = k + 1 /\ frames[i].at = a
  <2>1. k # Len(frames)
    BY <1>2, <1>4, <1>5 DEF Bound
  <2>2. k + 1 \in 1 .. Len(frames) /\ k + 1 <= Len(frames)
    BY <1>2, <2>1
  <2> QED
    BY <1>5, <2>2 DEF Bound
<1>7. frames[i] \in Frame
  BY <1>2, FramesAre
<1>8. PICK h \in Nat \ {0}, l \in Nat :
        HeaderLen[frames[i].len] = h /\ frames[i].len = l /\ (h + l) % SizeMod = h + l
  BY <1>2, <1>7, FrameIs
<1>9. Head(buf) = a + 1
  <2>1. 1 \in 1 .. m
    BY <1>5
  <2>2. buf \in Seq(Nat) /\ buf[1] = a + 1
    BY <1>4, <2>1, RunIs
  <2>3. Head(buf) = buf[1]
    BY <2>2
  <2> QED
    BY <2>2, <2>3
<1>10. ~(h + Min2(l, MaxFrameLength) <= m)
  <2>1. (h + l) % SizeMod # 0
    BY <1>8
  <2>2. ~Parsed(frames[i])
    BY <1>1
  <2> QED
    BY <1>1, <1>4, <1>6, <1>8, <1>9, <2>1, <2>2 DEF Parsed
<1>11. PICK w \in Nat : w = Min2(l, MaxFrameLength)
  BY <1>8, Sizes
<1>12. m < h + w
  BY <1>10, <1>11
<1> QED
  BY <1>4, <1>6, <1>8, <1>11, <1>12

LEMMA SkipWaits == ASSUME Decoder, Skip PROVE Waits'
<1> DEFINE n == Min2(ignore, Len(buf))
<1>1. /\ buf' = IF state = "Connected" THEN Drop(buf, n) ELSE buf
      /\ pc' = IF state = "Connected" /\ ignore = n THEN "frames" ELSE "idle"
      /\ state' = state
  BY DEF Skip
<1> SUFFICES ASSUME state = "Connected", pc' = "idle" PROVE buf' = <<>>
  BY <1>1 DEF Waits
<1>2. PICK m \in Nat, a \in Nat, g \in Nat :
        /\ buf = Run(a, m) /\ Len(buf) = m /\ ignore = g
  BY PositionIs DEF Open
<1>3. n = m
  BY <1>1, <1>2 DEF Min2
<1> HIDE DEF n
<1>4. buf' = Run(a + m, m - m)
  BY <1>1, <1>2, <1>3, RunDrop
<1>5. m - m = 0 /\ a + m \in Nat
  BY <1>2
<1> QED
  BY <1>4, <1>5, RunEmpty

LEMMA WaitsStep == Decoder /\ Waits /\ [Next]_vars => Waits'
<1> SUFFICES ASSUME Decoder, Waits, [Next]_vars PROVE Waits'
  OBVIOUS
<1>1. ASSUME NEW op \in Ops, NEW fin \in BOOLEAN, NEW len \in setup.lengths, PeerSend(op, fin, len) PROVE Waits'
  <2>1. /\ Len(frames) \in Nat /\ Len(frames') = Len(frames) + 1
        /\ \A i \in 1 .. Len(frames) : frames'[i] = frames[i]
        /\ UNCHANGED <<arrived, buf, pc, state>>
    BY <1>1, PeerSendDoes DEF Decoder
  <2>2. \A i \in 1 .. Len(frames) : i \in 1 .. Len(frames')
    BY <2>1
  <2> SUFFICES ASSUME state = "Connected", pc = "idle", buf # <<>>
               PROVE  (\E i \in 1 .. Len(frames) :
                         /\ frames[i].at + Len(buf) = arrived
                         /\ Len(buf) < HeaderLen[frames[i].len] + Min2(frames[i].len, MaxFrameLength))'
    BY <2>1 DEF Waits
  <2>3. PICK i \in 1 .. Len(frames) :
          /\ frames[i].at + Len(buf) = arrived
          /\ Len(buf) < HeaderLen[frames[i].len] + Min2(frames[i].len, MaxFrameLength)
    BY DEF Waits
  <2> QED
    BY <2>1, <2>2, <2>3
<1>2. CASE ParseEnd \/ Skip
  BY <1>2, ParseEndWaits, SkipWaits
<1>3. CASE \/ LowerLost \/ Detach \/ CloseTimeout \/ Idle \/ IncomingNull \/ UNCHANGED vars
           \/ \E t \in Closers : CloseCheck(t) \/ CloseSend(t)
  <2>1. frames' = frames /\ arrived' = arrived /\ buf' = buf /\ pc' = pc
    BY <1>3 DEF LowerLost, Detach, CloseTimeout, Idle, IncomingNull, vars, CloseCheck, CloseSend, peerVars, parseVars
  <2>2. state' \in {state, "Disconnected", "Failed"}
    BY <1>3, OthersLeave DEF Leaves
  <2> QED
    BY <2>1, <2>2 DEF Waits
<1>4. ASSUME NEW k \in 1 .. end - arrived, ProxyChunk(k) PROVE Waits'
  <2>1. state = "Disconnected" /\ state' \in {state, "Connecting"}
    BY <1>4 DEF ProxyChunk, StartWs, Decoder, AtProxy
  <2> QED
    BY <2>1 DEF Waits
<1>5. ASSUME NEW m, Insert(m), state = "Connecting" => HandshakeBytes(m) PROVE Waits'
  <2>1. PICK b : b = buf \o m
    OBVIOUS
  <2>2. PICK n \in {IF state = "Connecting" THEN WsResponse(Text(b)) ELSE 0} :
          /\ pc' = IF n = Throws THEN "idle" ELSE "skip"
          /\ n = Throws /\ n # 0 => state' = IF state = "Connected" THEN "Disconnected" ELSE "Failed"
    BY <1>5, <2>1, InsertDoes
  <2>3. Throws # 0
    BY DEF Throws
  <2>4. pc' = "idle" => state' # "Connected"
    BY <2>2, <2>3
  <2> QED
    BY <2>4 DEF Waits
<1>6. ASSUME NEW k \in 1 .. end - arrived, IncomingChunk(k) PROVE Waits'
  <2>1. k \in Nat /\ Insert(Chunk(k))
    BY <1>6 DEF Decoder, Types, IncomingChunk
  <2> QED
    BY <1>5, <1>6, <2>1, ChunkSees
<1>7. CASE IncomingRest
  <2>1. Insert(rest)
    BY <1>7 DEF IncomingRest
  <2> QED
    BY <1>5, <1>7, <2>1, RestSees
<1>8. ASSUME NEW i \in 1 .. Len(frames), RecvFrame(frames[i]) PROVE Waits'
  <2>1. /\ Parsed(frames[i]) /\ arrived' = arrived
        /\ Erase(frames[i]) \/ state' \in {"Disconnected", "Failed"}
    BY <1>8, RecvFrameDoes
  <2>2. CASE Erase(frames[i])
    <3>1. pc' = "idle" => buf' = <<>>
      BY <2>1, <2>2, Takes
    <3> QED
      BY <3>1 DEF Waits
  <2>3. CASE state' \in {"Disconnected", "Failed"}
    BY <2>3 DEF Waits
  <2> QED
    BY <2>1, <2>2, <2>3
<1> QED
  BY <1>1, <1>2, <1>3, <1>4, <1>6, <1>7, <1>8 DEF Next, Process

\* Of an orderly peer exactly its messages are delivered, in their order, put
\* together from their fragments and each cut off at the maximal size; and none of
\* them is left in mBuffer when all that was sent has arrived and been looked at.
THEOREM DeliversInOrder == Spec => []InOrder
<1>1. ASSUME Init PROVE Ordered /\ Told /\ Waits
  <2>1. /\ partialOp \in DataOps /\ delivered = <<>> /\ partial = <<>> /\ frames = <<>> /\ messages = <<>>
        /\ state # "Connected" /\ pc = "idle"
    BY <1>1 DEF Init
  <2>2. ~Open
    BY <2>1 DEF Open
  <2>3. Ordered
    BY <2>1, <2>2, RowEmpty DEF Ordered
  <2>4. Len(<<>>) = 0 /\ <<>> \in Seq(Sent)
    BY EmptySeq
  <2>5. Agrees(delivered, messages)
    BY <2>1, <2>4 DEF Agrees
  <2>6. PICK H : H = [j \in 0 .. 0 |-> <<>>]
    OBVIOUS
  <2>7. History(H)
    <3>1. H \in [0 .. 0 -> Seq(Sent)] /\ H[0] = <<>> /\ 1 .. 0 = {}
      BY <2>4, <2>6
    <3>2. \A j \in 0 .. 0 : Stay(H[j], <<>>)
      BY <2>4, <3>1 DEF Stay
    <3> QED
      BY <2>1, <2>4, <3>1, <3>2 DEF History
  <2> QED
    BY <2>1, <2>2, <2>3, <2>5, <2>7 DEF Told, Waits
<1>2. ASSUME Decoder, Ordered, Told, Waits PROVE InOrder
  <2> SUFFICES ASSUME setup.orderly
               PROVE  /\ Len(delivered) <= Len(messages)
                      /\ \A d \in 1 .. Len(delivered) :
                           /\ messages[d].fin /\ delivered[d].type = messages[d].type
                           /\ delivered[d].data = SubSeq(messages[d].data, 1,
                                                         Min2(Len(messages[d].data), MaxMessageSize))
                      /\ (listening /\ state = "Connected" /\ pc = "idle" /\ arrived = end) =>
                           \A d \in 1 .. Len(messages) : messages[d].fin => d <= Len(delivered)
    BY DEF InOrder
  <2>1. /\ Agrees(delivered, messages)
        /\ \E H : History(H) /\ ((listening /\ Open) => \E k \in 0 .. Len(frames) : Taken(H, k))
    BY <1>2 DEF Told
  <2>2. ASSUME listening, state = "Connected", pc = "idle", arrived = end, NEW d \in 1 .. Len(messages), messages[d].fin
        PROVE  d <= Len(delivered)
    <3>1. PICK H : History(H) /\ \E k \in 0 .. Len(frames) : Taken(H, k)
      BY <2>1, <2>2 DEF Open
    <3>2. PICK k \in 0 .. Len(frames) : Taken(H, k)
      BY <3>1
    <3>3. Types /\ Layout /\ Len(frames) \in Nat /\ setup \in Setups /\ end \in Nat
      BY <1>2, FramesAre DEF Decoder, Types
    <3>4. ASSUME NEW i \in 1 .. Len(frames)
          PROVE  \E a \in Nat, h \in Nat \ {0}, l \in Nat :
                   /\ frames[i].at = a /\ HeaderLen[frames[i].len] = h /\ frames[i].len = l
                   /\ a + (h + l) <= end
      <4>1. frames[i] \in Frame /\ After(frames[i]) <= end
        BY <3>3, FramesAre DEF Layout
      <4> QED
        BY <3>3, <4>1, FrameIs, SMTT(30)
    <3>5. buf = <<>>
      <4> SUFFICES ASSUME buf # <<>> PROVE FALSE
        OBVIOUS
      <4>1. PICK i \in 1 .. Len(frames) :
              /\ frames[i].at + Len(buf) = arrived
              /\ Len(buf) < HeaderLen[frames[i].len] + Min2(frames[i].len, MaxFrameLength)
        BY <1>2, <2>2 DEF Waits
      <4>2. PICK a \in Nat, h \in Nat \ {0}, l \in Nat :
              /\ frames[i].at = a /\ HeaderLen[frames[i].len] = h /\ frames[i].len = l
              /\ a + (h + l) <= end
        BY <3>4
      <4>3. PICK m \in Nat : m = Len(buf)
        BY <1>2, <2>2, PositionIs DEF Open
      <4>4. PICK w \in Nat : w = Min2(l, MaxFrameLength) /\ w <= l
        BY Sizes
      <4>5. a + m = end /\ m < h + w
        BY <2>2, <4>1, <4>2, <4>3, <4>4
      <4> QED
        BY <3>3, <4>2, <4>4, <4>5, SMTT(30)
    <3>6. k = Len(frames)
      <4> SUFFICES ASSUME k # Len(frames) PROVE FALSE
        OBVIOUS
      <4>1. PICK i \in 1 .. Len(frames) : i = k + 1
        BY <3>3
      <4>2. PICK a \in Nat, h \in Nat \ {0}, l \in Nat : frames[i].at = a /\ a + (h + l) <= end
        BY <3>4
      <4>3. Position = a
        BY <3>2, <3>3, <4>1, <4>2 DEF Taken, Bound
      <4>4. Position = end + ignore /\ ignore \in Nat
        <5>1. Len(buf) = 0
          BY <3>5, EmptySeq
        <5> QED
          BY <2>2, <3>3, <5>1 DEF Position, Types
      <4> QED
        BY <3>3, <4>2, <4>3, <4>4
    <3>7. Collects(messages, delivered, partial, partialOp)
      BY <3>1, <3>2, <3>6 DEF Taken, History
    <3>8. delivered \in Seq(Msgs) /\ messages \in Seq(Sent)
      BY <1>2, <3>1, <3>3, OrderedIs, HistoryIs
    <3>9. Len(delivered) \in Nat /\ Len(messages) \in Nat
      BY <3>8, LenProperties
    <3>10. CASE Len(messages) = Len(delivered)
      BY <3>9, <3>10
    <3>11. CASE Len(messages) = Len(delivered) + 1 /\ Unfin(messages)
      <4>1. d # Len(messages)
        BY <2>2, <3>11 DEF Unfin
      <4> QED
        BY <3>9, <3>11, <4>1
    <3> QED
      BY <3>7, <3>10, <3>11 DEF Collects
  <2> QED
    BY <2>1, <2>2 DEF Agrees, Cut
<1> QED
  BY <1>1, <1>2, ToldStep, OrderedStep, WaitsStep, DecoderHolds, PTL DEF Spec

=============================================================================
