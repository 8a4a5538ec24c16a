--------------------------- MODULE SendPathProofs ---------------------------
(***************************************************************************)
(* Proofs about SendPath, for any threads, sizes of messages, of records   *)
(* and of pieces flushed, and any number of frames: records reach TCP in   *)
(* the order of their numbers, and with no call under way all is sent.     *)
(***************************************************************************)
EXTENDS SendPath, SequenceTheorems, TLAPS

Pairs == Nat \X Nat

-----------------------------------------------------------------------------
(* Sequences of bytes of pieces                                            *)

\* Bytes a + 1 to a + m of piece n.
Run(n, a, m) == [i \in 1 .. m |-> <<n, a + i>>]

LEMMA RunIs ==
  ASSUME NEW n \in Nat, NEW a \in Nat, NEW m \in Int
  PROVE  /\ Run(n, a, m) \in Seq(Pairs)
         /\ Len(Run(n, a, m)) = IF m < 0 THEN 0 ELSE m
         /\ \A i \in 1 .. Len(Run(n, a, m)) : Run(n, a, m)[i] = <<n, a + i>>
<1> DEFINE k == IF m < 0 THEN 0 ELSE m
<1>1. k \in Nat /\ 1 .. m = 1 .. k
  OBVIOUS
<1>2. Run(n, a, m) = [i \in 1 .. k |-> <<n, a + i>>]
  BY <1>1 DEF Run
<1>3. \A i \in 1 .. k : <<n, a + i>> \in Pairs
  BY <1>1 DEF Pairs
<1> HIDE DEF k
<1>4. Run(n, a, m) \in Seq(Pairs) /\ Len(Run(n, a, m)) = k
  <2>1. Run(n, a, m) \in [1 .. k -> Pairs]
    BY <1>2, <1>3
  <2>2. Run(n, a, m) \in Seq(Pairs)
    BY <1>1, <2>1, SeqDef
  <2>3. DOMAIN Run(n, a, m) = 1 .. k /\ DOMAIN Run(n, a, m) = 1 .. Len(Run(n, a, m)) /\ Len(Run(n, a, m)) \in Nat
    BY <2>1, <2>2, LenProperties
  <2> QED
    BY <1>1, <2>2, <2>3
<1>5. \A i \in 1 .. k : Run(n, a, m)[i] = <<n, a + i>>
  BY <1>2
<1> QED
  BY <1>4, <1>5 DEF k

\* s has come to byte a of piece n.
Reaches(s, lens, n, a) ==
  IF a = 0 THEN EndsWith(s, lens, n - 1) ELSE s # <<>> /\ s[Len(s)] = <<n, a>>

LEMMA InSequenceGrows ==
  ASSUME NEW s \in Seq(Pairs), NEW lens \in Seq(Nat), InSequence(s, lens),
         NEW more \in Seq(Nat), Len(more) >= Len(lens), \A i \in 1 .. Len(lens) : more[i] = lens[i]
  PROVE  /\ InSequence(s, more)
         /\ \A n \in 0 .. Len(lens) : EndsWith(s, lens, n) => EndsWith(s, more, n)
<1>1. Len(lens) \in Nat /\ Len(more) \in Nat /\ Len(s) \in Nat
  OBVIOUS
<1>2. \A n \in 1 .. Len(lens) : n \in 1 .. Len(more)
  BY <1>1
<1>3. ASSUME NEW i \in 1 .. Len(s), i # 1 PROVE s[i - 1][1] \in 1 .. Len(lens)
  <2>1. i - 1 \in 1 .. Len(s)
    BY <1>1, <1>3
  <2> QED
    BY <2>1 DEF InSequence
<1>4. InSequence(s, more)
  <2> SUFFICES ASSUME NEW i \in 1 .. Len(s)
               PROVE  /\ s[i][1] \in 1 .. Len(more) /\ s[i][2] \in 1 .. more[s[i][1]]
                      /\ s[i] = IF i = 1 THEN <<1, 1>>
                                ELSE IF s[i - 1][2] < more[s[i - 1][1]] THEN <<s[i - 1][1], s[i - 1][2] + 1>>
                                ELSE <<s[i - 1][1] + 1, 1>>
    BY DEF InSequence
  <2>1. s[i][1] \in 1 .. Len(lens) /\ s[i][2] \in 1 .. lens[s[i][1]]
    BY DEF InSequence
  <2>2. s[i] = IF i = 1 THEN <<1, 1>>
               ELSE IF s[i - 1][2] < lens[s[i - 1][1]] THEN <<s[i - 1][1], s[i - 1][2] + 1>>
               ELSE <<s[i - 1][1] + 1, 1>>
    BY DEF InSequence
  <2>3. i # 1 => more[s[i - 1][1]] = lens[s[i - 1][1]]
    BY <1>3
  <2>4. more[s[i][1]] = lens[s[i][1]] /\ s[i][1] \in 1 .. Len(more)
    BY <1>2, <2>1
  <2> QED
    BY <2>1, <2>2, <2>3, <2>4
<1>5. \A n \in 0 .. Len(lens) : EndsWith(s, lens, n) => EndsWith(s, more, n)
  BY <1>1 DEF EndsWith
<1> QED
  BY <1>4, <1>5

LEMMA InSequencePrefix ==
  ASSUME NEW s \in Seq(Pairs), NEW p \in Seq(Pairs), NEW lens \in Seq(Nat), InSequence(s \o p, lens)
  PROVE  InSequence(s, lens)
<1>1. Len(s) \in Nat /\ Len(p) \in Nat /\ Len(s \o p) = Len(s) + Len(p)
  BY ConcatProperties
<1>2. \A i \in 1 .. Len(s) : i \in 1 .. Len(s \o p) /\ (s \o p)[i] = s[i]
  BY <1>1, ConcatProperties
<1> SUFFICES ASSUME NEW i \in 1 .. Len(s)
             PROVE  /\ s[i][1] \in 1 .. Len(lens) /\ s[i][2] \in 1 .. lens[s[i][1]]
                    /\ s[i] = IF i = 1 THEN <<1, 1>>
                              ELSE IF s[i - 1][2] < lens[s[i - 1][1]] THEN <<s[i - 1][1], s[i - 1][2] + 1>>
                              ELSE <<s[i - 1][1] + 1, 1>>
  BY DEF InSequence
<1> DEFINE q == s \o p
<1>3. /\ q[i][1] \in 1 .. Len(lens) /\ q[i][2] \in 1 .. lens[q[i][1]]
      /\ q[i] = IF i = 1 THEN <<1, 1>>
                ELSE IF q[i - 1][2] < lens[q[i - 1][1]] THEN <<q[i - 1][1], q[i - 1][2] + 1>>
                ELSE <<q[i - 1][1] + 1, 1>>
  BY <1>2 DEF InSequence
<1>4. q[i] = s[i] /\ (i # 1 => q[i - 1] = s[i - 1])
  <2>1. i # 1 => i - 1 \in 1 .. Len(s)
    BY <1>1
  <2> QED
    BY <1>2, <2>1
<1> HIDE DEF q
<1> QED
  BY <1>3, <1>4

\* What follows in its piece, or begins the next, keeps the sequence.
LEMMA InSequenceExtends ==
  ASSUME NEW s \in Seq(Pairs), NEW lens \in Seq(Nat), InSequence(s, lens),
         NEW n \in 1 .. Len(lens), NEW a \in Nat, NEW m \in Nat, a + m <= lens[n],
         Reaches(s, lens, n, a)
  PROVE  /\ s \o Run(n, a, m) \in Seq(Pairs)
         /\ InSequence(s \o Run(n, a, m), lens)
         /\ m > 0 => Reaches(s \o Run(n, a, m), lens, n, a + m)
         /\ a + m = lens[n] /\ m > 0 => EndsWith(s \o Run(n, a, m), lens, n)
<1> DEFINE p == Run(n, a, m)
           q == s \o p
<1>0. n \in Nat /\ lens[n] \in Nat /\ Len(lens) \in Nat /\ Len(s) \in Nat
  OBVIOUS
<1>1. p \in Seq(Pairs) /\ Len(p) = m /\ \A i \in 1 .. m : p[i] = <<n, a + i>>
  <2>1. m \in Int /\ ~(m < 0)
    OBVIOUS
  <2>2. Run(n, a, m) \in Seq(Pairs) /\ Len(Run(n, a, m)) = m
    BY <1>0, <2>1, RunIs
  <2>3. \A i \in 1 .. Len(Run(n, a, m)) : Run(n, a, m)[i] = <<n, a + i>>
    BY <1>0, <2>1, RunIs
  <2> QED
    BY <2>2, <2>3
<1> HIDE DEF p
<1>2. /\ q \in Seq(Pairs) /\ Len(q) = Len(s) + m
      /\ \A i \in 1 .. Len(q) : q[i] = IF i <= Len(s) THEN s[i] ELSE p[i - Len(s)]
  BY <1>1, ConcatProperties, ZenonT(40)
<1> HIDE DEF q
<1>3. ASSUME NEW i \in 1 .. Len(q)
      PROVE  /\ q[i][1] \in 1 .. Len(lens) /\ q[i][2] \in 1 .. lens[q[i][1]]
             /\ q[i] = IF i = 1 THEN <<1, 1>>
                       ELSE IF q[i - 1][2] < lens[q[i - 1][1]] THEN <<q[i - 1][1], q[i - 1][2] + 1>>
                       ELSE <<q[i - 1][1] + 1, 1>>
  <2>1. CASE i <= Len(s)
    <3>1. i \in 1 .. Len(s) /\ q[i] = s[i]
      BY <1>0, <1>2, <2>1
    <3>2. i # 1 => q[i - 1] = s[i - 1]
      <4>1. i # 1 => i - 1 \in 1 .. Len(q) /\ i - 1 <= Len(s)
        BY <1>0, <1>2, <2>1
      <4> QED
        BY <1>2, <4>1
    <3>3. /\ s[i][1] \in 1 .. Len(lens) /\ s[i][2] \in 1 .. lens[s[i][1]]
          /\ s[i] = IF i = 1 THEN <<1, 1>>
                    ELSE IF s[i - 1][2] < lens[s[i - 1][1]] THEN <<s[i - 1][1], s[i - 1][2] + 1>>
                    ELSE <<s[i - 1][1] + 1, 1>>
      BY <3>1 DEF InSequence
    <3> QED
      BY <3>1, <3>2, <3>3
  <2>2. CASE i > Len(s)
    <3> DEFINE j == i - Len(s)
    <3>1. j \in 1 .. m /\ i = Len(s) + j
      BY <1>0, <1>2, <2>2, SMTT(40)
    <3>2. q[i] = <<n, a + j>>
      BY <1>0, <1>1, <1>2, <2>2, <3>1, SMTT(40)
    <3>3. n \in 1 .. Len(lens) /\ a + j \in 1 .. lens[n]
      BY <1>0, <3>1, SMTT(40)
    <3>4. CASE j = 1
      <4>0. i = Len(s) + 1 /\ i - 1 = Len(s)
        BY <1>0, <3>1, <3>4
      <4>1. CASE a = 0
        <5>1. EndsWith(s, lens, n - 1)
          BY <4>1 DEF Reaches
        <5>2. CASE n = 1
          <6>1. s = <<>> /\ i = 1
            BY <1>0, <4>0, <5>1, <5>2 DEF EndsWith
          <6> QED
            BY <3>2, <3>3, <3>4, <4>1, <5>2, <6>1
        <5>3. CASE n # 1
          <6>1. n - 1 # 0 /\ s # <<>> /\ s[Len(s)] = <<n - 1, lens[n - 1]>> /\ (n - 1) + 1 = n
            BY <1>0, <5>1, <5>3, SMTT(40) DEF EndsWith
          <6>2. Len(s) # 0
            BY <6>1, EmptySeq
          <6>3. i # 1 /\ i - 1 \in 1 .. Len(q) /\ i - 1 <= Len(s) /\ q[i - 1] = s[Len(s)]
            BY <1>0, <1>2, <4>0, <6>2
          <6>4. q[i - 1][1] = n - 1 /\ q[i - 1][2] = lens[n - 1] /\ ~(lens[n - 1] < lens[n - 1])
            <7>1. n - 1 \in 1 .. Len(lens)
              BY <1>0, <5>3
            <7>2. lens[n - 1] \in Nat
              BY <7>1, SMTT(40)
            <7> QED
              BY <6>1, <6>3, <7>2, SMTT(40)
          <6> QED
            BY <3>2, <3>3, <3>4, <4>1, <6>1, <6>3, <6>4, SMTT(40)
        <5> QED
          BY <5>2, <5>3
      <4>2. CASE a # 0
        <5>1. s # <<>> /\ s[Len(s)] = <<n, a>>
          BY <4>2 DEF Reaches
        <5>2. Len(s) # 0
          BY <5>1, EmptySeq
        <5>3. i # 1 /\ i - 1 \in 1 .. Len(q) /\ i - 1 <= Len(s) /\ q[i - 1] = <<n, a>>
          BY <1>0, <1>2, <4>0, <5>1, <5>2, SMTT(40)
        <5>4. a < lens[n]
          BY <1>0, <3>3, <3>4
        <5> QED
          BY <3>2, <3>3, <3>4, <5>3, <5>4
      <4> QED
        BY <4>1, <4>2
    <3>5. CASE j # 1
      <4>1. /\ i # 1 /\ i - 1 \in 1 .. Len(q) /\ ~(i - 1 <= Len(s)) /\ (i - 1) - Len(s) = j - 1
            /\ j - 1 \in 1 .. m /\ a + (j - 1) < lens[n] /\ a + (j - 1) + 1 = a + j
        <5>0. Len(q) = Len(s) + m
          BY <1>2
        <5> HIDE DEF j
        <5>7. j \in Int /\ j > 1 /\ j <= m
          BY <1>0, <3>1, <3>5
        <5>1. Len(q) = Len(s) + m /\ j \in Int /\ j > 1 /\ j <= m
          BY <5>0, <5>7
        <5>2. a + (j - 1) < lens[n] /\ a + (j - 1) + 1 = a + j /\ j - 1 \in 1 .. m
          BY <1>0, <5>1
        <5>3. i # 1 /\ i - 1 \in 1 .. Len(q) /\ ~(i - 1 <= Len(s)) /\ (i - 1) - Len(s) = j - 1
          <6>1. i = Len(s) + j /\ Len(s) \in Nat /\ m \in Nat
            BY <1>0, <3>1
          <6>2. \A l \in Nat : l + j # 1 /\ (l + j) - 1 \in 1 .. l + m /\ ~((l + j) - 1 <= l) /\ ((l + j) - 1) - l = j - 1
            BY <5>1
          <6> QED
            BY <5>1, <6>1, <6>2
        <5> QED
          BY <5>2, <5>3
      <4>2. q[i - 1] = <<n, a + (j - 1)>>
        BY <1>1, <1>2, <4>1
      <4> QED
        BY <3>2, <3>3, <4>1, <4>2
    <3> QED
      BY <3>4, <3>5
  <2> QED
    BY <1>0, <1>2, <2>1, <2>2
<1>4. InSequence(q, lens)
  BY <1>3 DEF InSequence
<1>5. ASSUME m > 0 PROVE q # <<>> /\ q[Len(q)] = <<n, a + m>>
  <2>1. Len(q) \in 1 .. Len(q) /\ ~(Len(q) <= Len(s)) /\ Len(q) - Len(s) = m /\ m \in 1 .. m
    BY <1>0, <1>2, <1>5
  <2>2. q[Len(q)] = <<n, a + m>>
    BY <1>1, <1>2, <2>1
  <2> QED
    BY <1>2, <2>1, <2>2, EmptySeq
<1>6. m > 0 => Reaches(q, lens, n, a + m)
  BY <1>0, <1>5 DEF Reaches
<1>7. a + m = lens[n] /\ m > 0 => EndsWith(q, lens, n)
  BY <1>0, <1>5, SMTT(40) DEF EndsWith
<1> QED
  BY <1>2, <1>4, <1>6, <1>7 DEF q, p

\* What is flushed and what stays in mOutBio.
LEMMA DropSplits ==
  ASSUME NEW s \in Seq(Pairs), NEW k \in Nat \ {0}
  PROVE  /\ SubSeq(s, 1, Min2(k, Len(s))) \in Seq(Pairs) /\ Drop(s, k) \in Seq(Pairs)
         /\ SubSeq(s, 1, Min2(k, Len(s))) \o Drop(s, k) = s
<1>1. Len(s) \in Nat /\ \A i \in 1 .. Len(s) : s[i] \in Pairs
  OBVIOUS
<1>2. CASE k < Len(s)
  <2>1. Min2(k, Len(s)) = k /\ k \in 0 .. Len(s) /\ 1 \in 1 .. Len(s) + 1 /\ k \in (1 - 1) .. Len(s) /\ Len(s) \in k .. Len(s)
    BY <1>1, <1>2 DEF Min2
  <2>2. SubSeq(s, 1, k) \in Seq(Pairs)
    <3>1. \A i \in 1 .. k : s[i] \in Pairs
      BY <1>1, <1>2
    <3> QED
      BY <3>1, SubSeqProperties
  <2>3. SubSeq(s, k + 1, Len(s)) \in Seq(Pairs)
    <3>1. (\A i \in (k + 1) .. Len(s) : s[i] \in Pairs) /\ k + 1 \in Int /\ Len(s) \in Int
      BY <1>1, <1>2
    <3> QED
      BY <3>1, SubSeqProperties
  <2>4. SubSeq(s, 1, k) \o SubSeq(s, k + 1, Len(s)) = SubSeq(s, 1, Len(s))
    BY <2>1, ConcatAdjacentSubSeq
  <2>5. SubSeq(s, 1, Len(s)) = s
    BY SubSeqFull
  <2> QED
    BY <2>1, <2>2, <2>3, <2>4, <2>5, Zenon DEF Drop
<1>3. CASE ~(k < Len(s))
  <2>1. Min2(k, Len(s)) = Len(s) /\ Len(s) < k + 1 /\ k + 1 \in Int /\ Len(s) \in Int
    BY <1>1, <1>3 DEF Min2
  <2>2. Drop(s, k) = <<>>
    BY <2>1, SubSeqEmpty DEF Drop
  <2>3. SubSeq(s, 1, Len(s)) = s /\ s \o <<>> = s
    BY SubSeqFull, ConcatEmptySeq
  <2> QED
    BY <2>1, <2>2, <2>3
<1> QED
  BY <1>2, <1>3

LEMMA Associative ==
  ASSUME NEW s \in Seq(Pairs), NEW p \in Seq(Pairs), NEW q \in Seq(Pairs)
  PROVE  (s \o p) \o q = s \o (p \o q)
BY ConcatAssociative

IsIn(b, s) == \E i \in 1 .. Len(s) : s[i] = b

\* An element of two sequences in a row is in the one or in the other.
LEMMA InConcat ==
  ASSUME NEW s \in Seq(Pairs), NEW p \in Seq(Pairs), NEW b
  PROVE  IsIn(b, s \o p) <=> IsIn(b, s) \/ IsIn(b, p)
<1>1. /\ Len(s) \in Nat /\ Len(p) \in Nat /\ Len(s \o p) = Len(s) + Len(p)
      /\ \A i \in 1 .. Len(s) + Len(p) : (s \o p)[i] = IF i <= Len(s) THEN s[i] ELSE p[i - Len(s)]
  BY ConcatProperties
<1>2. ASSUME NEW i \in 1 .. Len(s \o p), (s \o p)[i] = b
      PROVE  (\E k \in 1 .. Len(s) : s[k] = b) \/ (\E k \in 1 .. Len(p) : p[k] = b)
  <2>1. CASE i <= Len(s)
    BY <1>1, <1>2, <2>1
  <2>2. CASE ~(i <= Len(s))
    <3>1. i - Len(s) \in 1 .. Len(p)
      BY <1>1, <2>2
    <3> QED
      BY <1>1, <1>2, <2>2, <3>1
  <2> QED
    BY <2>1, <2>2
<1>3. ASSUME NEW i \in 1 .. Len(s), s[i] = b PROVE \E k \in 1 .. Len(s \o p) : (s \o p)[k] = b
  <2>1. i \in 1 .. Len(s) + Len(p) /\ i <= Len(s)
    BY <1>1
  <2> QED
    BY <1>1, <1>3, <2>1
<1>4. ASSUME NEW i \in 1 .. Len(p), p[i] = b PROVE \E k \in 1 .. Len(s \o p) : (s \o p)[k] = b
  <2>1. Len(s) + i \in 1 .. Len(s) + Len(p) /\ ~(Len(s) + i <= Len(s)) /\ (Len(s) + i) - Len(s) = i
    BY <1>1
  <2> QED
    BY <1>1, <1>4, <2>1
<1> QED
  BY <1>2, <1>3, <1>4 DEF IsIn

LEMMA BytesAre ==
  ASSUME NEW n \in Nat, NEW len \in Nat
  PROVE  /\ Bytes(n, len) = Run(n, 0, len) /\ Bytes(n, len) \in Seq(Pairs) /\ Len(Bytes(n, len)) = len
         /\ \A j \in 1 .. len : Bytes(n, len)[j] = <<n, j>>
<1>1. \A j \in 1 .. len : <<n, j>> = <<n, 0 + j>>
  OBVIOUS
<1>2. Bytes(n, len) = Run(n, 0, len)
  BY <1>1 DEF Bytes, Run
<1>3. Run(n, 0, len) \in Seq(Pairs) /\ Len(Run(n, 0, len)) = len
  <2>1. 0 \in Nat /\ len \in Int /\ ~(len < 0)
    OBVIOUS
  <2> QED
    BY <2>1, RunIs
<1>4. \A j \in 1 .. len : Bytes(n, len)[j] = <<n, j>>
  BY DEF Bytes
<1> QED
  BY <1>2, <1>3, <1>4

-----------------------------------------------------------------------------
(* Types, and who holds what                                               *)

Places == {"idle", "call", "opened", "use", "frame", "tls", "lock", "ssl", "flush", "write", "crashed"}

TypeOK ==
  /\ lib \in Libraries /\ open \in BOOLEAN /\ ptr \in BOOLEAN /\ linked \in BOOLEAN /\ up \in BOOLEAN
  /\ pc \in [Threads -> Places] /\ size \in [Threads -> Nat] /\ mine \in [Threads -> Nat]
  /\ frames \in Seq(0 .. MaxMessageSize)
  /\ sendMutex \in Threads \cup {Nobody} /\ sslMutex \in Threads \cup {Nobody}
  /\ records \in Seq(Nat \ {0}) /\ plain \in Seq(Pairs) /\ bio \in Seq(Pairs) /\ wire \in Seq(Pairs) /\ own \in Nat

\* Is mSendMutex held by whoever writes a record.
Alone == lib = "none" \/ (lib = "gnutls" /\ own = 0)

\* Where a thread is, and the mutexes it has.
LocksOf(t) ==
  /\ pc[t] \in {"tls", "lock", "ssl"} => sendMutex = t
  /\ sendMutex = t => pc[t] \in {"tls", "lock", "ssl", "flush", "write"}
  /\ Locked /\ pc[t] \in {"ssl", "flush", "write"} => sslMutex = t
  /\ Locked /\ sslMutex = t =>
       \/ pc[t] \in {"ssl", "flush", "write"}
       \/ lib = "mbedtls" /\ t = Worker /\ pc[t] \in {"frame", "tls", "lock"}
  /\ pc[t] = "lock" => Locked
  /\ pc[t] \in {"ssl", "flush"} => lib = "openssl"
  /\ pc[t] = "write" => lib # "openssl"
  /\ Alone /\ pc[t] = "write" => sendMutex = t

\* The frame or the record a thread is at, and the size it was let through with.
NumberedOf(t) ==
  /\ pc[t] = "write" => mine[t] \in 1 .. Len(records)
  /\ pc[t] \in {"tls", "lock", "ssl"} => mine[t] = Len(frames) /\ Len(frames) > 0
  /\ pc[t] \in {"use", "frame"} => size[t] <= MaxMessageSize

Holding ==
  /\ lib # "openssl" => bio = <<>>
  /\ \A t \in Threads : LocksOf(t) /\ NumberedOf(t)

Base == TypeOK /\ Holding

LEMMA FrameLenIs ==
  ASSUME TypeOK
  PROVE  /\ \A f \in 1 .. Len(frames) : FrameLen(f) \in Nat \ {0}
         /\ FrameLens \in Seq(Nat) /\ Len(FrameLens) = Len(frames)
         /\ \A f \in 1 .. Len(frames) : FrameLens[f] = FrameLen(f)
<1>1. \A f \in 1 .. Len(frames) : frames[f] \in Nat
  <2>1. frames \in Seq(0 .. MaxMessageSize)
    BY DEF TypeOK
  <2>2. \A f \in 1 .. Len(frames) : frames[f] \in 0 .. MaxMessageSize
    BY <2>1, ElementOfSeq
  <2> QED
    BY <2>2
<1>2. \A n \in Nat : HeaderLen(n) + n \in Nat \ {0}
  BY DEF HeaderLen
<1>3. \A f \in 1 .. Len(frames) : FrameLen(f) \in Nat \ {0}
  BY <1>1, <1>2 DEF FrameLen
<1>4. Len(frames) \in Nat
  BY DEF TypeOK
<1>5. FrameLens \in [1 .. Len(frames) -> Nat] /\ \A f \in 1 .. Len(frames) : FrameLens[f] = FrameLen(f)
  BY <1>3 DEF FrameLens
<1>6. FrameLens \in Seq(Nat)
  BY <1>4, <1>5, SeqDef
<1>7. DOMAIN FrameLens = 1 .. Len(FrameLens) /\ Len(FrameLens) \in Nat /\ DOMAIN FrameLens = 1 .. Len(frames)
  BY <1>5, <1>6, LenProperties
<1>8. Len(FrameLens) = Len(frames)
  BY <1>4, <1>7
<1> QED
  BY <1>3, <1>5, <1>6, <1>8

LEMMA FragmentIs ==
  ASSUME TypeOK, NEW f \in 1 .. Len(frames)
  PROVE  /\ Taken(f) \in Nat /\ Fragment(f) \in Seq(Pairs) /\ Whole(f) \in Seq(Pairs)
         /\ Whole(f) = Run(f, 0, FrameLen(f)) /\ Fragment(f) = Run(f, Taken(f), Min2(FrameLen(f) - Taken(f), RecordLen))
<1>0. f \in Nat /\ FrameLen(f) \in Nat /\ RecordLen \in Nat
  BY FrameLenIs, SendAssumption DEF TypeOK
<1>1. Taken(f) \in Nat
  <2>1. CASE plain = <<>>
    BY <2>1 DEF Taken
  <2>2. CASE plain # <<>>
    <3>1. plain[Len(plain)] \in Pairs
      <4>1. Len(plain) \in 1 .. Len(plain)
        BY <2>2, EmptySeq DEF TypeOK
      <4> QED
        BY <4>1 DEF TypeOK
    <3> QED
      BY <3>1 DEF Taken, Pairs
  <2> QED
    BY <2>1, <2>2
<1>2. Whole(f) = Run(f, 0, FrameLen(f)) /\ Whole(f) \in Seq(Pairs)
  <2>1. \A j \in 1 .. FrameLen(f) : <<f, j>> = <<f, 0 + j>>
    BY <1>0
  <2>2. Whole(f) = Run(f, 0, FrameLen(f))
    BY <2>1 DEF Whole, Run
  <2> QED
    BY <1>0, <2>2, RunIs
<1>3. Fragment(f) = Run(f, Taken(f), Min2(FrameLen(f) - Taken(f), RecordLen))
  BY DEF Fragment, Run
<1>4. Min2(FrameLen(f) - Taken(f), RecordLen) \in Int
  BY <1>0, <1>1 DEF Min2
<1>5. Fragment(f) \in Seq(Pairs)
  BY <1>0, <1>1, <1>3, <1>4, RunIs, SMTT(40)
<1> QED
  BY <1>1, <1>2, <1>3, <1>5

LEMMA InitBase == Init => Base
<1> SUFFICES ASSUME Init PROVE Base
  OBVIOUS
<1>1. Threads # {} /\ Nobody \notin Threads
  BY SendAssumption DEF Threads
<1>2. TypeOK
  <2>1. pc \in [Threads -> Places] /\ size \in [Threads -> Nat] /\ mine \in [Threads -> Nat]
    BY DEF Init, Places
  <2>2. /\ frames \in Seq(0 .. MaxMessageSize) /\ records \in Seq(Nat \ {0})
        /\ plain \in Seq(Pairs) /\ bio \in Seq(Pairs) /\ wire \in Seq(Pairs)
    BY DEF Init
  <2> QED
    BY <2>1, <2>2 DEF Init, TypeOK
<1>3. ASSUME NEW t \in Threads PROVE LocksOf(t) /\ NumberedOf(t)
  <2>1. pc[t] = "idle" /\ sendMutex # t /\ sslMutex # t
    BY <1>1 DEF Init
  <2> QED
    BY <2>1 DEF LocksOf, NumberedOf
<1> QED
  BY <1>2, <1>3 DEF Init, Base, Holding

\* A step of t leaves what the other threads hold.
LEMMA OthersKeep ==
  ASSUME TypeOK, Holding, NEW t \in Threads, NEW x, NEW u \in Threads, u # t,
         pc' = [pc EXCEPT ![t] = x], lib' = lib, own' \in Nat, own' >= own,
         size'[u] = size[u], mine'[u] = mine[u], sendMutex' = u <=> sendMutex = u, sslMutex' = u <=> sslMutex = u,
         Len(records') \in Nat, Len(records') >= Len(records), frames' = frames \/ sendMutex = Nobody
  PROVE  LocksOf(u)' /\ NumberedOf(u)'
<1>1. LocksOf(u) /\ NumberedOf(u)
  BY DEF Holding
<1>2. pc'[u] = pc[u] /\ Nobody # u
  BY SendAssumption DEF TypeOK
<1>3. Alone' => Alone
  BY DEF Alone, TypeOK
<1>4. LocksOf(u)'
  BY <1>1, <1>2, <1>3 DEF LocksOf, Locked
<1>5. pc'[u] = "write" => mine'[u] \in 1 .. Len(records')
  <2>1. Len(records) \in Nat
    BY DEF TypeOK
  <2>2. pc[u] = "write" => mine[u] \in 1 .. Len(records)
    BY <1>1 DEF NumberedOf
  <2> QED
    BY <1>2, <2>1, <2>2
<1>6. pc'[u] \in {"tls", "lock", "ssl"} => mine'[u] = Len(frames') /\ Len(frames') > 0
  <2>1. pc[u] \in {"tls", "lock", "ssl"} => sendMutex = u /\ mine[u] = Len(frames) /\ Len(frames) > 0
    BY <1>1 DEF LocksOf, NumberedOf
  <2> QED
    BY <1>2, <2>1
<1>7. pc'[u] \in {"use", "frame"} => size'[u] <= MaxMessageSize
  BY <1>1, <1>2 DEF NumberedOf
<1> QED
  BY <1>4, <1>5, <1>6, <1>7 DEF NumberedOf

\* send() is left: t is idle and has no mutex.
LEMMA Leaving ==
  ASSUME TypeOK, Holding, NEW t \in Threads, Gone(t), Unlocked(t),
         lib' = lib, own' = own, frames' = frames, records' = records
  PROVE  /\ pc' \in [Threads -> Places] /\ size' \in [Threads -> Nat] /\ mine' \in [Threads -> Nat]
         /\ sendMutex' \in Threads \cup {Nobody} /\ sslMutex' \in Threads \cup {Nobody}
         /\ pc'[t] = "idle" /\ \A u \in Threads : u # t => pc'[u] = pc[u] /\ mine'[u] = mine[u]
         /\ \A u \in Threads : LocksOf(u)' /\ NumberedOf(u)'
<1>1. pc' = [pc EXCEPT ![t] = "idle"] /\ size' = [size EXCEPT ![t] = 0] /\ mine' = [mine EXCEPT ![t] = 0]
  BY DEF Gone, Move
<1>2. pc' \in [Threads -> Places] /\ size' \in [Threads -> Nat] /\ mine' \in [Threads -> Nat]
  BY <1>1 DEF TypeOK, Places
<1>3. /\ sendMutex' = IF sendMutex = t THEN Nobody ELSE sendMutex
      /\ sslMutex' = IF sslMutex = t THEN Nobody ELSE sslMutex
  BY DEF Unlocked
<1>4. sendMutex' \in Threads \cup {Nobody} /\ sslMutex' \in Threads \cup {Nobody}
  BY <1>3 DEF TypeOK
<1>5. Nobody # t /\ \A u \in Threads : Nobody # u
  BY SendAssumption
<1>6. pc'[t] = "idle" /\ sendMutex' # t /\ sslMutex' # t
  BY <1>1, <1>3, <1>5 DEF TypeOK
<1>7. \A u \in Threads : u # t => pc'[u] = pc[u] /\ size'[u] = size[u] /\ mine'[u] = mine[u]
  BY <1>1 DEF TypeOK
<1>8. LocksOf(t)' /\ NumberedOf(t)'
  BY <1>6 DEF LocksOf, NumberedOf
<1>9. ASSUME NEW u \in Threads, u # t PROVE LocksOf(u)' /\ NumberedOf(u)'
  <2>1. (sendMutex' = u <=> sendMutex = u) /\ (sslMutex' = u <=> sslMutex = u)
    BY <1>3, <1>5, <1>9
  <2>2. own \in Nat /\ own >= own /\ Len(records) \in Nat /\ Len(records) >= Len(records)
    BY DEF TypeOK
  <2> QED
    BY <1>1, <1>7, <1>9, <2>1, <2>2, OthersKeep
<1> QED
  BY <1>2, <1>4, <1>6, <1>7, <1>8, <1>9

\* A record more, for any thread.
LEMMA Making ==
  ASSUME TypeOK, Holding, NEW t \in Threads, NEW p \in Seq(Pairs), Made(t, p)
  PROVE  /\ records' \in Seq(Nat \ {0}) /\ Len(records') = Len(records) + 1 /\ records'[Len(records')] = Len(p) + 1
         /\ \A i \in 1 .. Len(records) : records'[i] = records[i]
         /\ plain' = plain \o p /\ plain' \in Seq(Pairs) /\ bio' \in Seq(Pairs) /\ mine' \in [Threads -> Nat]
         /\ \A u \in Threads : u # t => mine'[u] = mine[u]
         /\ lib = "openssl" => bio' = bio \o Bytes(Len(records'), Len(p) + 1) /\ mine' = mine
         /\ lib # "openssl" => bio' = bio /\ mine'[t] = Len(records')
<1>1. Len(p) \in Nat /\ Len(p) + 1 \in Nat \ {0} /\ Len(records) \in Nat
  BY DEF TypeOK
<1>2. /\ records' \in Seq(Nat \ {0}) /\ Len(records') = Len(records) + 1 /\ records'[Len(records')] = Len(p) + 1
      /\ \A i \in 1 .. Len(records) : records'[i] = records[i]
  <2>1. records' = Append(records, Len(p) + 1) /\ records \in Seq(Nat \ {0})
    BY DEF Made, TypeOK
  <2> QED
    BY <1>1, <2>1, AppendProperties
<1>3. plain' = plain \o p /\ plain' \in Seq(Pairs)
  BY ConcatProperties DEF Made, TypeOK
<1>4. CASE lib = "openssl"
  <2>1. bio' = bio \o Bytes(Len(records'), Len(p) + 1) /\ mine' = mine
    BY <1>4 DEF Made
  <2>2. Bytes(Len(records'), Len(p) + 1) \in Seq(Pairs)
    BY <1>1, <1>2, BytesAre
  <2>3. bio \in Seq(Pairs) /\ mine \in [Threads -> Nat]
    BY DEF TypeOK
  <2>4. bio \o Bytes(Len(records'), Len(p) + 1) \in Seq(Pairs)
    BY <2>2, <2>3, ConcatProperties
  <2> QED
    BY <1>2, <1>3, <1>4, <2>1, <2>3, <2>4
<1>5. CASE lib # "openssl"
  <2>1. bio' = bio /\ mine' = [mine EXCEPT ![t] = Len(records')]
    BY <1>5 DEF Made
  <2>2. Len(records') \in Nat
    BY <1>1, <1>2
  <2> QED
    BY <1>2, <1>3, <1>5, <2>1, <2>2 DEF TypeOK
<1> QED
  BY <1>4, <1>5

\* A thread goes on before it has a frame.
LEMMA GoingOn ==
  ASSUME Base, NEW t \in Threads, NEW x \in {"call", "opened", "use", "frame", "crashed"}, NEW n \in Nat,
         pc[t] \in {"idle", "call", "opened", "use"}, Move(t, x), size' = [size EXCEPT ![t] = n],
         x \in {"use", "frame"} => n <= MaxMessageSize,
         UNCHANGED <<lib, linkVars, frames, sendMutex, records, plain, mine, bio, wire, own>>,
         \/ sslMutex' = sslMutex
         \/ t = Worker /\ lib = "mbedtls" /\ x = "frame" /\ sslMutex = Nobody /\ sslMutex' = Worker
  PROVE  Base'
<1> USE DEF linkVars
<1>1. TypeOK /\ Holding
  BY DEF Base
<1>2. pc' = [pc EXCEPT ![t] = x] /\ x \in Places
  BY DEF Move, Places
<1>3. TypeOK'
  <2>1. pc' \in [Threads -> Places] /\ size' \in [Threads -> Nat]
    BY <1>1, <1>2 DEF TypeOK
  <2> QED
    BY <1>1, <2>1 DEF TypeOK
<1>4. pc'[t] = x /\ size'[t] = n
  BY <1>1, <1>2 DEF TypeOK
<1>5. LocksOf(t)' /\ NumberedOf(t)'
  <2>1. LocksOf(t)
    BY <1>1 DEF Holding
  <2>2. LocksOf(t)'
    BY <1>4, <2>1 DEF LocksOf, Locked, Alone
  <2>3. NumberedOf(t)'
    BY <1>4 DEF NumberedOf
  <2> QED
    BY <2>2, <2>3
<1>6. ASSUME NEW u \in Threads, u # t PROVE LocksOf(u)' /\ NumberedOf(u)'
  <2>1. size'[u] = size[u] /\ mine'[u] = mine[u]
    BY <1>1, <1>6 DEF TypeOK
  <2>2. own' \in Nat /\ own' >= own /\ Len(records') \in Nat /\ Len(records') >= Len(records)
    BY <1>1 DEF TypeOK
  <2>3. (sendMutex' = u <=> sendMutex = u) /\ (sslMutex' = u <=> sslMutex = u) /\ lib' = lib /\ frames' = frames
    BY <1>6, SendAssumption
  <2> QED
    BY <1>1, <1>2, <1>6, <2>1, <2>2, <2>3, OthersKeep
<1>7. Holding'
  BY <1>1, <1>5, <1>6 DEF Holding
<1> QED
  BY <1>3, <1>7 DEF Base

\* An exception, or the return, with what TCP and the library have as it was.
LEMMA Left ==
  ASSUME Base, NEW t \in Threads, Gone(t), Unlocked(t), wire' \in Seq(Pairs), bio' \in Seq(Pairs),
         lib # "openssl" => bio' = bio, UNCHANGED <<lib, linkVars, frames, records, plain, own>>
  PROVE  Base'
<1>1. TypeOK /\ Holding
  BY DEF Base
<1>2. lib' = lib /\ own' = own /\ frames' = frames /\ records' = records /\ plain' = plain
  OBVIOUS
<1>3. /\ pc' \in [Threads -> Places] /\ size' \in [Threads -> Nat] /\ mine' \in [Threads -> Nat]
      /\ sendMutex' \in Threads \cup {Nobody} /\ sslMutex' \in Threads \cup {Nobody}
      /\ \A u \in Threads : LocksOf(u)' /\ NumberedOf(u)'
  BY <1>1, <1>2, Leaving
<1>4. open' = open /\ ptr' = ptr /\ linked' = linked /\ up' = up
  BY DEF linkVars
<1>5. TypeOK'
  BY <1>1, <1>2, <1>3, <1>4 DEF TypeOK
<1>6. lib' # "openssl" => bio' = <<>>
  BY <1>1, <1>2 DEF Holding
<1> QED
  BY <1>3, <1>5, <1>6 DEF Base, Holding

LEMMA SendBase == ASSUME Base, NEW t \in Threads, NEW n \in Sizes, Send(t, n) PROVE Base'
<1>1. n \in Nat /\ "call" \in {"call", "opened", "use", "frame", "crashed"} /\ pc[t] \in {"idle", "call", "opened", "use"}
  BY SendAssumption DEF Send
<1> QED
  BY <1>1, GoingOn DEF Send, tlsVars

LEMMA ControlBase == ASSUME Base, Control \/ IdlePing PROVE Base'
<1>1. Worker \in Threads /\ 0 \in Nat /\ 0 <= MaxMessageSize /\ pc[Worker] \in {"idle", "call", "opened", "use"}
  BY SendAssumption DEF Control, IdlePing, Threads
<1>2. /\ Move(Worker, "frame") /\ size' = [size EXCEPT ![Worker] = 0]
      /\ UNCHANGED <<lib, linkVars, frames, sendMutex, records, plain, mine, bio, wire, own>>
      /\ sslMutex' = sslMutex \/ (lib = "mbedtls" /\ sslMutex = Nobody /\ sslMutex' = Worker)
  BY DEF Control, IdlePing, tlsVars
<1> QED
  BY <1>1, <1>2, GoingOn

LEMMA OutgoingBase == ASSUME Base, NEW t \in Threads, Outgoing(t) PROVE Base'
<1>1. ASSUME NEW x \in {"opened", "use"}, Move(t, x), UNCHANGED <<sendMutex, sslMutex, size, mine>>, x = "use" => size[t] <= MaxMessageSize
      PROVE  Base'
  <2>1. UNCHANGED <<lib, linkVars, frames, sendMutex, records, plain, mine, bio, wire, own>> /\ sslMutex' = sslMutex
    BY <1>1 DEF Outgoing
  <2>2. size' = [size EXCEPT ![t] = size[t]] /\ size[t] \in Nat
    BY <1>1 DEF Base, TypeOK
  <2>3. pc[t] \in {"idle", "call", "opened", "use"} /\ x \in {"call", "opened", "use", "frame", "crashed"}
    BY DEF Outgoing
  <2>4. x \in {"use", "frame"} => size[t] <= MaxMessageSize
    BY <1>1
  <2> QED
    BY <1>1, <2>1, <2>2, <2>3, <2>4, GoingOn
<1>2. CASE Throw(t)
  <2>1. Gone(t) /\ Unlocked(t) /\ UNCHANGED <<lib, linkVars, frames, records, plain, own>> /\ bio' = bio /\ wire' = wire
    BY <1>2 DEF Outgoing, Throw
  <2>2. wire' \in Seq(Pairs) /\ bio' \in Seq(Pairs)
    BY <2>1 DEF Base, TypeOK
  <2> QED
    BY <2>1, <2>2, Left
<1>3. CASE pc[t] = "call"
  BY <1>1, <1>2, <1>3 DEF Outgoing
<1>4. CASE pc[t] = "opened"
  BY <1>1, <1>2, <1>4 DEF Outgoing
<1> QED
  BY <1>3, <1>4 DEF Outgoing

LEMMA WsSendBase == ASSUME Base, NEW t \in Threads, WsSend(t) PROVE Base'
<1>1. CASE ~(ptr /\ ~linked)
  <2>0. PICK x \in {"frame", "crashed"} : Move(t, x)
    BY <1>1 DEF WsSend
  <2>1. UNCHANGED <<lib, linkVars, frames, sendMutex, records, plain, mine, bio, wire, own>> /\ size' = size /\ sslMutex' = sslMutex
    BY <1>1 DEF WsSend
  <2>2. size' = [size EXCEPT ![t] = size[t]] /\ size[t] \in Nat
    BY <2>1 DEF Base, TypeOK
  <2>3. pc[t] \in {"idle", "call", "opened", "use"} /\ pc[t] = "use" /\ x \in {"call", "opened", "use", "frame", "crashed"}
    BY DEF WsSend
  <2>4. size[t] <= MaxMessageSize
    BY <2>3 DEF Base, Holding, NumberedOf
  <2> QED
    BY <2>0, <2>1, <2>2, <2>3, <2>4, GoingOn
<1>2. CASE ptr /\ ~linked
  <2>1. Gone(t) /\ Unlocked(t) /\ UNCHANGED <<lib, linkVars, frames, records, plain, own>> /\ bio' = bio /\ wire' = wire
    BY <1>2 DEF WsSend, Throw
  <2>2. wire' \in Seq(Pairs) /\ bio' \in Seq(Pairs)
    BY <2>1 DEF Base, TypeOK
  <2> QED
    BY <2>1, <2>2, Left
<1> QED
  BY <1>1, <1>2

LEMMA SendFrameBase == ASSUME Base, NEW t \in Threads, SendFrame(t) PROVE Base'
<1> USE DEF linkVars
<1>1. TypeOK /\ Holding /\ Nobody # t /\ \A u \in Threads : Nobody # u
  BY SendAssumption DEF Base
<1>2. /\ pc[t] = "frame" /\ sendMutex = Nobody /\ sendMutex' = t
      /\ pc' = [pc EXCEPT ![t] = "tls"] /\ frames' = Append(frames, size[t])
      /\ mine' = [mine EXCEPT ![t] = Len(frames) + 1]
  BY DEF SendFrame, Move
<1>3. UNCHANGED <<lib, open, ptr, linked, up, size, sslMutex, records, plain, bio, wire, own>>
  BY DEF SendFrame
<1>4. size[t] \in 0 .. MaxMessageSize
  <2>1. size[t] \in Nat /\ size[t] <= MaxMessageSize /\ MaxMessageSize \in Nat
    BY <1>1, <1>2, SendAssumption DEF Holding, NumberedOf, TypeOK
  <2> QED
    BY <2>1
<1>5. frames' \in Seq(0 .. MaxMessageSize) /\ Len(frames') = Len(frames) + 1 /\ Len(frames) \in Nat
  <2>1. frames \in Seq(0 .. MaxMessageSize)
    BY <1>1 DEF TypeOK
  <2> QED
    BY <1>2, <1>4, <2>1, AppendProperties, LenProperties
<1>6. TypeOK'
  <2>1. pc' \in [Threads -> Places] /\ mine' \in [Threads -> Nat]
    BY <1>1, <1>2, <1>5 DEF TypeOK, Places
  <2> QED
    BY <1>1, <1>2, <1>3, <1>5, <2>1 DEF TypeOK
<1>7. pc'[t] = "tls" /\ mine'[t] = Len(frames') /\ Len(frames') > 0
  BY <1>1, <1>2, <1>5 DEF TypeOK
<1>8. LocksOf(t)' /\ NumberedOf(t)'
  <2>1. LocksOf(t)
    BY <1>1 DEF Holding
  <2>2. LocksOf(t)'
    BY <1>2, <1>3, <1>7, <2>1 DEF LocksOf, Locked, Alone
  <2>3. NumberedOf(t)'
    BY <1>7 DEF NumberedOf
  <2> QED
    BY <2>2, <2>3
<1>9. ASSUME NEW u \in Threads, u # t PROVE LocksOf(u)' /\ NumberedOf(u)'
  <2>1. size'[u] = size[u] /\ mine'[u] = mine[u]
    BY <1>1, <1>2, <1>3, <1>9 DEF TypeOK
  <2>2. own' \in Nat /\ own' >= own /\ Len(records') \in Nat /\ Len(records') >= Len(records)
    BY <1>1, <1>3 DEF TypeOK
  <2>3. (sendMutex' = u <=> sendMutex = u) /\ (sslMutex' = u <=> sslMutex = u)
    BY <1>1, <1>2, <1>3, <1>9
  <2> QED
    BY <1>1, <1>2, <1>3, <1>9, <2>1, <2>2, <2>3, OthersKeep
<1> QED
  BY <1>1, <1>3, <1>6, <1>8, <1>9 DEF Base, Holding

\* A record is made by t, which then is at x, with the mutexes that x needs.
LEMMA Records ==
  ASSUME Base, NEW t \in Threads, NEW p \in Seq(Pairs), Made(t, p), NEW x \in Places,
         pc' = [pc EXCEPT ![t] = x], lib' = lib, open' \in BOOLEAN, ptr' \in BOOLEAN, linked' \in BOOLEAN, up' \in BOOLEAN,
         UNCHANGED <<size, frames, sendMutex, wire>>, sslMutex' \in Threads \cup {Nobody}, own' \in Nat, own' >= own,
         \A u \in Threads : u # t => (sslMutex' = u <=> sslMutex = u),
         LocksOf(t)', x = "idle" \/ (x = "ssl" /\ lib = "openssl" /\ pc[t] = "ssl") \/ x = "flush" \/ (x = "write" /\ lib # "openssl")
  PROVE  Base'
<1>1. TypeOK /\ Holding
  BY DEF Base
<1>2. /\ records' \in Seq(Nat \ {0}) /\ Len(records') = Len(records) + 1
      /\ plain' \in Seq(Pairs) /\ bio' \in Seq(Pairs) /\ mine' \in [Threads -> Nat]
      /\ \A u \in Threads : u # t => mine'[u] = mine[u]
      /\ lib = "openssl" => mine' = mine
      /\ lib # "openssl" => bio' = bio /\ mine'[t] = Len(records')
  BY <1>1, Making
<1>3. Len(records) \in Nat /\ Len(records') \in Nat /\ Len(records') >= Len(records) /\ Len(records') \in 1 .. Len(records')
  BY <1>1, <1>2, SMTT(40) DEF TypeOK
<1>4. TypeOK'
  <2>1. pc' \in [Threads -> Places]
    BY <1>1 DEF TypeOK
  <2> QED
    BY <1>1, <1>2, <2>1 DEF TypeOK
<1>5. pc'[t] = x
  BY <1>1 DEF TypeOK
<1>6. NumberedOf(t)'
  <2>1. NumberedOf(t)
    BY <1>1 DEF Holding
  <2>2. x = "write" => mine'[t] \in 1 .. Len(records')
    BY <1>2, <1>3
  <2>3. x \in {"tls", "lock", "ssl"} => mine'[t] = Len(frames') /\ Len(frames') > 0
    BY <1>2, <2>1 DEF NumberedOf
  <2> QED
    BY <1>5, <2>2, <2>3 DEF NumberedOf
<1>7. ASSUME NEW u \in Threads, u # t PROVE LocksOf(u)' /\ NumberedOf(u)'
  <2>1. size'[u] = size[u] /\ mine'[u] = mine[u] /\ frames' = frames /\ (sendMutex' = u <=> sendMutex = u) /\ (sslMutex' = u <=> sslMutex = u)
    BY <1>2, <1>7
  <2> QED
    BY <1>1, <1>3, <1>7, <2>1, OthersKeep
<1>8. lib' # "openssl" => bio' = <<>>
  BY <1>1, <1>2 DEF Holding
<1> QED
  BY <1>4, <1>6, <1>7, <1>8 DEF Base, Holding

\* The outcomes of TlsTransport::send() before and at its mutex: an exception, it goes
\* on to the mutex or to SSL_write(), or a record is made of what one call takes.
LEMMA TlsSendDoes ==
  ASSUME Base, NEW t \in Threads, TlsSend(t) \/ TlsLock(t)
  PROVE  /\ pc[t] \in {"tls", "lock"} /\ mine[t] = Len(frames) /\ mine[t] \in 1 .. Len(frames) /\ sendMutex = t
         /\ UNCHANGED <<lib, linkVars, frames, wire, own>>
         /\ \/ ~linked /\ Gone(t) /\ Unlocked(t) /\ UNCHANGED <<records, plain, bio>>
            \/ \E x \in {"lock", "ssl"} :
                 /\ Locked /\ pc' = [pc EXCEPT ![t] = x] /\ UNCHANGED <<records, plain, mine, bio, sendMutex, size>>
                 /\ \/ x = "lock" /\ pc[t] = "tls" /\ sslMutex' = sslMutex
                    \/ x = "ssl" /\ lib = "openssl" /\ sslMutex = Nobody /\ sslMutex' = t
            \/ /\ lib # "openssl" /\ pc' = [pc EXCEPT ![t] = "write"] /\ SslLock(t) /\ UNCHANGED <<sendMutex, size>>
               /\ \E p \in Seq(Pairs) : /\ Made(t, p)
                                        /\ p = IF lib = "none" THEN Whole(mine[t]) ELSE Fragment(mine[t])
<1>1. TypeOK /\ Holding /\ pc[t] \in {"tls", "lock"} /\ UNCHANGED <<lib, linkVars, frames, wire, own>>
  BY DEF Base, TlsSend, TlsLock
<1>2. mine[t] = Len(frames) /\ mine[t] \in 1 .. Len(frames) /\ sendMutex = t /\ (pc[t] = "lock" => Locked)
  <2>1. Len(frames) \in Nat
    BY <1>1 DEF TypeOK
  <2>2. mine[t] = Len(frames) /\ Len(frames) > 0 /\ sendMutex = t /\ (pc[t] = "lock" => Locked)
    BY <1>1 DEF Holding, NumberedOf, LocksOf
  <2> QED
    BY <2>1, <2>2
<1>3. Whole(mine[t]) \in Seq(Pairs) /\ Fragment(mine[t]) \in Seq(Pairs)
  BY <1>1, <1>2, FragmentIs
<1>4. lib \in {"openssl", "gnutls", "mbedtls", "none"}
  BY <1>1, SendAssumption DEF TypeOK
<1>5. CASE TlsSend(t) /\ lib # "none" /\ ~linked
  BY <1>1, <1>2, <1>5 DEF TlsSend, Throw
<1>6. CASE TlsSend(t) /\ ~(lib # "none" /\ ~linked)
  <2>1. /\ UNCHANGED <<sendMutex, sslMutex, size>> /\ pc[t] = "tls"
        /\ CASE Locked         -> Move(t, "lock") /\ UNCHANGED <<records, plain, mine, bio>>
             [] lib = "gnutls" -> GnutlsRecordSend(t)
             [] lib = "none"   -> Made(t, Whole(mine[t])) /\ Move(t, "write")
    BY <1>6 DEF TlsSend
  <2>2. CASE Locked
    <3>1. Move(t, "lock") /\ UNCHANGED <<records, plain, mine, bio>>
      BY <2>1, <2>2 DEF Locked
    <3> QED
      BY <1>1, <1>2, <2>1, <2>2, <3>1 DEF Move
  <2>3. CASE lib = "gnutls"
    <3>1. Made(t, Fragment(mine[t])) /\ Move(t, "write")
      BY <2>1, <2>3 DEF GnutlsRecordSend, Locked
    <3>2. SslLock(t)
      BY <2>1, <2>3 DEF SslLock, Locked
    <3> QED
      BY <1>1, <1>2, <1>3, <2>1, <2>3, <3>1, <3>2 DEF Move
  <2>4. CASE lib = "none"
    <3>1. Made(t, Whole(mine[t])) /\ Move(t, "write")
      BY <2>1, <2>4 DEF Locked
    <3>2. SslLock(t)
      BY <2>1, <2>4 DEF SslLock, Locked
    <3> QED
      BY <1>1, <1>2, <1>3, <2>1, <2>4, <3>1, <3>2 DEF Move
  <2> QED
    BY <1>4, <2>2, <2>3, <2>4 DEF Locked
<1>7. CASE TlsLock(t)
  <2>1. /\ SslLock(t) /\ UNCHANGED <<sendMutex, size>> /\ Locked
        /\ CASE lib = "openssl" -> Move(t, "ssl") /\ UNCHANGED <<records, plain, mine, bio>>
             [] lib = "mbedtls" -> MbedtlsSslWrite(t)
    BY <1>2, <1>7 DEF TlsLock
  <2>2. CASE lib = "openssl"
    <3>1. Move(t, "ssl") /\ UNCHANGED <<records, plain, mine, bio>> /\ sslMutex = Nobody /\ sslMutex' = t
      BY <2>1, <2>2 DEF SslLock
    <3> QED
      BY <1>1, <1>2, <2>1, <2>2, <3>1 DEF Move
  <2>3. CASE lib = "mbedtls"
    <3>1. Made(t, Fragment(mine[t])) /\ Move(t, "write")
      BY <2>1, <2>3 DEF MbedtlsSslWrite
    <3> QED
      BY <1>1, <1>2, <1>3, <2>1, <2>3, <3>1 DEF Move
  <2> QED
    BY <2>1, <2>2, <2>3 DEF Locked
<1> QED
  BY <1>5, <1>6, <1>7

LEMMA TlsSendBase == ASSUME Base, NEW t \in Threads, TlsSend(t) \/ TlsLock(t) PROVE Base'
<1>0. TypeOK /\ Holding /\ LocksOf(t) /\ Nobody # t /\ \A u \in Threads : Nobody # u
  BY SendAssumption DEF Base, Holding
<1>1. pc[t] \in {"tls", "lock"} /\ sendMutex = t /\ mine[t] = Len(frames) /\ UNCHANGED <<lib, linkVars, frames, wire, own>>
  BY TlsSendDoes
<1>2. open' = open /\ ptr' = ptr /\ linked' = linked /\ up' = up /\ lib' = lib /\ own' = own /\ frames' = frames /\ wire' = wire
  BY <1>1 DEF linkVars
<1>3. CASE ~linked /\ Gone(t) /\ Unlocked(t) /\ UNCHANGED <<records, plain, bio>>
  <2>1. wire' \in Seq(Pairs) /\ bio' \in Seq(Pairs)
    BY <1>0, <1>2, <1>3 DEF TypeOK
  <2> QED
    BY <1>1, <1>3, <2>1, Left
<1>4. ASSUME NEW x \in {"lock", "ssl"}, Locked, pc' = [pc EXCEPT ![t] = x], UNCHANGED <<records, plain, mine, bio, sendMutex, size>>,
             \/ x = "lock" /\ pc[t] = "tls" /\ sslMutex' = sslMutex
             \/ x = "ssl" /\ lib = "openssl" /\ sslMutex = Nobody /\ sslMutex' = t
      PROVE  Base'
  <2>1. pc'[t] = x
    BY <1>0, <1>4 DEF TypeOK
  <2>2. LocksOf(t)'
    BY <1>0, <1>1, <1>2, <1>4, <2>1 DEF LocksOf, Locked, Alone
  <2>3. NumberedOf(t)'
    BY <1>0, <1>1, <1>2, <1>4, <2>1 DEF Holding, NumberedOf
  <2>4. ASSUME NEW u \in Threads, u # t PROVE LocksOf(u)' /\ NumberedOf(u)'
    <3>1. (sslMutex' = u <=> sslMutex = u) /\ (sendMutex' = u <=> sendMutex = u) /\ size'[u] = size[u] /\ mine'[u] = mine[u]
      BY <1>0, <1>4, <2>4
    <3>2. own' \in Nat /\ own' >= own /\ Len(records') \in Nat /\ Len(records') >= Len(records)
      BY <1>0, <1>2, <1>4 DEF TypeOK
    <3> QED
      BY <1>0, <1>2, <1>4, <2>4, <3>1, <3>2, OthersKeep
  <2>5. TypeOK'
    <3>1. pc' \in [Threads -> Places]
      BY <1>0, <1>4 DEF TypeOK, Places
    <3> QED
      BY <1>0, <1>2, <1>4, <3>1 DEF TypeOK
  <2> QED
    BY <1>0, <1>2, <1>4, <2>2, <2>3, <2>4, <2>5 DEF Base, Holding
<1>5. CASE /\ lib # "openssl" /\ pc' = [pc EXCEPT ![t] = "write"] /\ SslLock(t) /\ UNCHANGED <<sendMutex, size>>
           /\ \E p \in Seq(Pairs) : Made(t, p)
  <2>1. PICK p \in Seq(Pairs) : Made(t, p)
    BY <1>5
  <2>2. IF Locked THEN sslMutex = Nobody /\ sslMutex' = t ELSE sslMutex' = sslMutex
    BY <1>5 DEF SslLock, Locked
  <2>3. sslMutex' \in Threads \cup {Nobody} /\ \A u \in Threads : u # t => (sslMutex' = u <=> sslMutex = u)
    BY <1>0, <2>2 DEF TypeOK
  <2>4. pc'[t] = "write"
    BY <1>0, <1>5 DEF TypeOK
  <2>5. LocksOf(t)'
    BY <1>0, <1>1, <1>2, <1>5, <2>2, <2>4 DEF LocksOf, Locked, Alone
  <2>6. /\ open' \in BOOLEAN /\ ptr' \in BOOLEAN /\ linked' \in BOOLEAN /\ up' \in BOOLEAN
        /\ own' \in Nat /\ own' >= own /\ "write" \in Places
    BY <1>0, <1>2 DEF TypeOK, Places
  <2>7. UNCHANGED <<size, frames, sendMutex, wire>>
    BY <1>2, <1>5
  <2> QED
    BY <1>2, <1>5, <2>1, <2>3, <2>5, <2>6, <2>7, Records
<1> QED
  BY <1>3, <1>4, <1>5, TlsSendDoes

\* SSL_write() makes a record and goes on with the message, or has taken all of it.
LEMMA SslWriteDoes ==
  ASSUME Base, NEW t \in Threads, SslWrite(t)
  PROVE  /\ pc[t] = "ssl" /\ lib = "openssl" /\ mine[t] = Len(frames) /\ mine[t] \in 1 .. Len(frames) /\ sendMutex = t /\ sslMutex = t
         /\ Fragment(mine[t]) \in Seq(Pairs) /\ Made(t, Fragment(mine[t]))
         /\ pc' = [pc EXCEPT ![t] = IF Taken(mine[t]) + Len(Fragment(mine[t])) = FrameLen(mine[t]) THEN "flush" ELSE "ssl"]
         /\ UNCHANGED <<lib, linkVars, size, frames, sendMutex, sslMutex, wire, own>>
<1>1. TypeOK /\ Holding /\ pc[t] = "ssl" /\ UNCHANGED <<lib, linkVars, size, frames, sendMutex, sslMutex, wire, own>>
  BY DEF Base, SslWrite
<1>2. lib = "openssl" /\ mine[t] = Len(frames) /\ mine[t] \in 1 .. Len(frames) /\ sendMutex = t /\ sslMutex = t
  <2>1. Len(frames) \in Nat
    BY <1>1 DEF TypeOK
  <2>2. lib = "openssl" /\ mine[t] = Len(frames) /\ Len(frames) > 0 /\ sendMutex = t /\ sslMutex = t
    BY <1>1 DEF Holding, NumberedOf, LocksOf, Locked
  <2> QED
    BY <2>1, <2>2
<1>3. Fragment(mine[t]) \in Seq(Pairs)
  BY <1>1, <1>2, FragmentIs
<1> QED
  BY <1>1, <1>2, <1>3 DEF SslWrite, Move

LEMMA SslWriteBase == ASSUME Base, NEW t \in Threads, SslWrite(t) PROVE Base'
<1>0. TypeOK /\ Holding /\ LocksOf(t) /\ Nobody # t /\ \A u \in Threads : Nobody # u
  BY SendAssumption DEF Base, Holding
<1>1. /\ pc[t] = "ssl" /\ lib = "openssl" /\ sendMutex = t /\ sslMutex = t
      /\ UNCHANGED <<lib, linkVars, size, frames, sendMutex, sslMutex, wire, own>>
  BY SslWriteDoes
<1>2. PICK x \in {"flush", "ssl"} : pc' = [pc EXCEPT ![t] = x]
  BY SslWriteDoes
<1>3. PICK p \in Seq(Pairs) : Made(t, p)
  BY SslWriteDoes
<1>4. pc'[t] = x /\ x \in Places
  BY <1>0, <1>2 DEF TypeOK, Places
<1>5. LocksOf(t)'
  BY <1>0, <1>1, <1>4 DEF LocksOf, Locked, Alone
<1>6. /\ open' \in BOOLEAN /\ ptr' \in BOOLEAN /\ linked' \in BOOLEAN /\ up' \in BOOLEAN /\ lib' = lib
      /\ own' \in Nat /\ own' >= own /\ sslMutex' \in Threads \cup {Nobody}
  BY <1>0, <1>1 DEF TypeOK, linkVars
<1>7. UNCHANGED <<size, frames, sendMutex, wire>> /\ \A u \in Threads : u # t => (sslMutex' = u <=> sslMutex = u)
  BY <1>1
<1> QED
  BY <1>1, <1>2, <1>3, <1>4, <1>5, <1>6, <1>7, Records

LEMMA LibrarySendsBase == ASSUME Base, LibrarySends PROVE Base'
<1>0. TypeOK /\ Holding /\ Worker \in Threads /\ LocksOf(Worker) /\ Nobody # Worker /\ \A u \in Threads : Nobody # u
  BY SendAssumption DEF Base, Holding, Threads
<1>1. /\ pc[Worker] = "idle" /\ lib # "none" /\ own' = own + 1 /\ SslLock(Worker) /\ Made(Worker, <<>>)
      /\ UNCHANGED <<lib, open, ptr, linked, up, size, frames, sendMutex, wire>>
  BY DEF LibrarySends, linkVars
<1>2. PICK x \in {"flush", "write"} : pc' = [pc EXCEPT ![Worker] = x] /\ (x = "flush" <=> lib = "openssl")
  BY DEF LibrarySends, Move
<1>3. IF Locked THEN sslMutex = Nobody /\ sslMutex' = Worker ELSE sslMutex' = sslMutex
  BY <1>1 DEF SslLock, Locked
<1>4. pc'[Worker] = x /\ x \in Places /\ <<>> \in Seq(Pairs)
  BY <1>0, <1>2 DEF TypeOK, Places
<1>5. own' \in Nat /\ own' >= own /\ own' # 0
  BY <1>0, <1>1 DEF TypeOK
<1>6. LocksOf(Worker)'
  BY <1>0, <1>1, <1>2, <1>3, <1>4, <1>5 DEF LocksOf, Locked, Alone
<1>7. /\ open' \in BOOLEAN /\ ptr' \in BOOLEAN /\ linked' \in BOOLEAN /\ up' \in BOOLEAN /\ lib' = lib
      /\ sslMutex' \in Threads \cup {Nobody} /\ UNCHANGED <<size, frames, sendMutex, wire>>
  BY <1>0, <1>1, <1>3 DEF TypeOK
<1>8. \A u \in Threads : u # Worker => (sslMutex' = u <=> sslMutex = u)
  BY <1>0, <1>3
<1> QED
  BY <1>0, <1>1, <1>2, <1>4, <1>5, <1>6, <1>7, <1>8, Records

LEMMA ShutdownBase == ASSUME Base, Shutdown PROVE Base'
<1>0. TypeOK /\ Holding /\ Worker \in Threads /\ LocksOf(Worker)
  BY SendAssumption DEF Base, Holding, Threads
<1>1. /\ pc[Worker] = "idle" /\ Made(Worker, <<>>) /\ linked' = FALSE
      /\ UNCHANGED <<lib, open, ptr, up, pc, size, frames, sendMutex, sslMutex, wire, own>>
  BY DEF Shutdown
<1>2. pc' = [pc EXCEPT ![Worker] = "idle"] /\ "idle" \in Places /\ <<>> \in Seq(Pairs) /\ pc'[Worker] = "idle"
  BY <1>0, <1>1 DEF TypeOK, Places
<1>3. LocksOf(Worker)'
  BY <1>0, <1>1 DEF LocksOf, Locked, Alone
<1>4. /\ open' \in BOOLEAN /\ ptr' \in BOOLEAN /\ up' \in BOOLEAN /\ lib' = lib
      /\ sslMutex' \in Threads \cup {Nobody} /\ UNCHANGED <<size, frames, sendMutex, wire>> /\ own' \in Nat /\ own' >= own
  BY <1>0, <1>1 DEF TypeOK
<1>5. linked' \in BOOLEAN
  BY <1>1
<1>6. \A u \in Threads : u # Worker => (sslMutex' = u <=> sslMutex = u)
  BY <1>1
<1> QED
  BY <1>0, <1>1, <1>2, <1>3, <1>4, <1>5, <1>6, Records

LEMMA FlushBase == ASSUME Base, NEW t \in Threads, Flush(t) PROVE Base'
<1>0. TypeOK /\ Holding /\ FlushLen \in Nat \ {0} /\ bio \in Seq(Pairs) /\ wire \in Seq(Pairs)
  BY SendAssumption DEF Base, TypeOK
<1>1. UNCHANGED <<lib, linkVars, frames, records, plain, own>> /\ lib = "openssl"
  BY <1>0 DEF Flush, Holding, LocksOf
<1>2. SubSeq(bio, 1, Min2(FlushLen, Len(bio))) \in Seq(Pairs) /\ Drop(bio, FlushLen) \in Seq(Pairs)
  BY <1>0, DropSplits
<1>3. CASE bio = <<>>
  <2>1. Return(t) /\ bio' = bio /\ wire' = wire
    BY <1>3 DEF Flush
  <2>2. wire' \in Seq(Pairs) /\ bio' \in Seq(Pairs)
    BY <1>0, <2>1
  <2> QED
    BY <1>1, <2>1, <2>2, Left DEF Return
<1>4. CASE bio # <<>> /\ up
  <2>1. /\ wire' = wire \o SubSeq(bio, 1, Min2(FlushLen, Len(bio)))
        /\ bio' = Drop(bio, FlushLen) /\ UNCHANGED <<pc, size, mine, sendMutex, sslMutex>>
    BY <1>4 DEF Flush
  <2>2. wire' \in Seq(Pairs) /\ bio' \in Seq(Pairs)
    BY <1>0, <1>2, <2>1, ConcatProperties
  <2>3. TypeOK'
    BY <1>0, <1>1, <2>1, <2>2 DEF TypeOK, linkVars
  <2>4. ASSUME NEW u \in Threads PROVE LocksOf(u)' /\ NumberedOf(u)'
    BY <1>0, <1>1, <2>1 DEF Holding, LocksOf, NumberedOf, Locked, Alone
  <2> QED
    BY <1>1, <2>3, <2>4 DEF Base, Holding
<1>5. CASE bio # <<>> /\ ~up
  <2>1. Gone(t) /\ Unlocked(t) /\ bio' = Drop(bio, FlushLen) /\ wire' = wire
    BY <1>5 DEF Flush, Throw
  <2>2. wire' \in Seq(Pairs) /\ bio' \in Seq(Pairs)
    BY <1>0, <1>2, <2>1
  <2> QED
    BY <1>1, <2>1, <2>2, Left
<1> QED
  BY <1>3, <1>4, <1>5

\* The record that is written.
LEMMA Writing ==
  ASSUME Base, NEW t \in Threads, pc[t] = "write"
  PROVE  /\ lib # "openssl" /\ mine[t] \in 1 .. Len(records) /\ mine[t] \in Nat /\ records[mine[t]] \in Nat \ {0}
         /\ Bytes(mine[t], records[mine[t]]) \in Seq(Pairs) /\ wire \o Bytes(mine[t], records[mine[t]]) \in Seq(Pairs)
<1>1. lib # "openssl" /\ mine[t] \in 1 .. Len(records)
  BY DEF Base, Holding, LocksOf, NumberedOf
<1>2. mine[t] \in Nat /\ records[mine[t]] \in Nat \ {0} /\ wire \in Seq(Pairs)
  <2>1. records \in Seq(Nat \ {0}) /\ wire \in Seq(Pairs) /\ mine[t] \in Nat
    BY DEF Base, TypeOK
  <2> QED
    BY <1>1, <2>1, ElementOfSeq
<1>3. Bytes(mine[t], records[mine[t]]) \in Seq(Pairs)
  BY <1>2, BytesAre
<1> QED
  BY <1>1, <1>2, <1>3, ConcatProperties

LEMMA WriteCallbackBase == ASSUME Base, NEW t \in Threads, WriteCallback(t) PROVE Base'
<1>1. /\ pc[t] = "write" /\ Gone(t) /\ Unlocked(t) /\ UNCHANGED <<lib, linkVars, frames, records, plain, bio, own>>
      /\ wire' = wire \o Bytes(mine[t], records[mine[t]]) \/ wire' = wire
  BY DEF WriteCallback, Return, Throw
<1>2. wire' \in Seq(Pairs) /\ bio' \in Seq(Pairs)
  BY <1>1, Writing DEF Base, TypeOK
<1> QED
  BY <1>1, <1>2, Left

LEMMA LinkBase == ASSUME Base, Lost \/ CloseTransports \/ UNCHANGED vars PROVE Base'
<1>1. UNCHANGED <<lib, pc, size, frames, sendMutex, sslMutex, records, plain, mine, bio, wire, own>>
  BY DEF Lost, CloseTransports, vars, tlsVars
<1>2. open' \in BOOLEAN /\ ptr' \in BOOLEAN /\ linked' \in BOOLEAN /\ up' \in BOOLEAN
  <2>1. open \in BOOLEAN /\ ptr \in BOOLEAN /\ linked \in BOOLEAN /\ up \in BOOLEAN
    BY DEF Base, TypeOK
  <2>2. (open' = FALSE \/ open' = open) /\ (ptr' = FALSE \/ ptr' = ptr) /\ (linked' = FALSE \/ linked' = linked) /\ (up' = FALSE \/ up' = up)
    BY DEF Lost, CloseTransports, vars, linkVars
  <2> QED
    BY <2>1, <2>2
<1>3. TypeOK'
  BY <1>1, <1>2 DEF Base, TypeOK
<1>4. ASSUME NEW u \in Threads PROVE LocksOf(u)' /\ NumberedOf(u)'
  <2>1. LocksOf(u) /\ NumberedOf(u)
    BY DEF Base, Holding
  <2> QED
    BY <1>1, <2>1 DEF LocksOf, NumberedOf, Locked, Alone
<1>5. lib' # "openssl" => bio' = <<>>
  BY <1>1 DEF Base, Holding
<1> QED
  BY <1>3, <1>4, <1>5 DEF Base, Holding

LEMMA ReleaseBase == ASSUME Base, Release PROVE Base'
<1>1. /\ UNCHANGED <<lib, open, ptr, size, frames, records, plain, mine, bio, wire, own>>
      /\ pc' = [t \in Threads |-> IF t \in Senders /\ Inside(t) THEN "crashed" ELSE pc[t]]
      /\ linked' = FALSE /\ up' = FALSE /\ sendMutex' = Nobody /\ sslMutex' = Nobody /\ pc[Worker] = "idle"
  BY DEF Release
<1>2. TypeOK'
  <2>1. pc' \in [Threads -> Places]
    BY <1>1 DEF Base, TypeOK, Places
  <2> QED
    BY <1>1, <2>1 DEF Base, TypeOK
<1>3. ASSUME NEW u \in Threads PROVE LocksOf(u)' /\ NumberedOf(u)'
  <2>1. LocksOf(u) /\ NumberedOf(u) /\ Nobody # u
    BY SendAssumption DEF Base, Holding
  <2>2. pc'[u] \in {"idle", "call", "opened", "use", "crashed"} /\ (pc'[u] = "use" => pc[u] = "use")
    BY <1>1 DEF Base, TypeOK, Places, Inside, Threads
  <2> QED
    BY <1>1, <2>1, <2>2 DEF LocksOf, NumberedOf
<1>4. lib' # "openssl" => bio' = <<>>
  BY <1>1 DEF Base, Holding
<1> QED
  BY <1>2, <1>3, <1>4 DEF Base, Holding

LEMMA BaseStep == Base /\ [Next]_vars => Base'
<1> SUFFICES ASSUME Base, [Next]_vars PROVE Base'
  OBVIOUS
<1>1. ASSUME NEW t \in Senders, NEW n \in Sizes, Send(t, n) PROVE Base'
  BY <1>1, SendBase DEF Threads
<1>2. ASSUME NEW t \in Threads, Step(t) PROVE Base'
  BY <1>2, OutgoingBase, WsSendBase, SendFrameBase, TlsSendBase, SslWriteBase, FlushBase, WriteCallbackBase DEF Step
<1>3. CASE Control \/ IdlePing
  BY <1>3, ControlBase
<1>4. CASE LibrarySends
  BY <1>4, LibrarySendsBase
<1>5. CASE Shutdown
  BY <1>5, ShutdownBase
<1>6. CASE Lost \/ CloseTransports \/ UNCHANGED vars
  BY <1>6, LinkBase
<1>7. CASE Release
  BY <1>7, ReleaseBase
<1> QED
  BY <1>1, <1>2, <1>3, <1>4, <1>5, <1>6, <1>7 DEF Next

\* The variables of the sending path keep their types, whichever threads send: each
\* record has a byte, and no frame has more payload than maxMessageSize().
THEOREM TypeCorrect == Spec => []TypeOK
<1>1. Base => TypeOK
  BY DEF Base
<1> QED
  BY <1>1, InitBase, BaseStep, PTL DEF Spec

-----------------------------------------------------------------------------
(* Records in order                                                        *)

\* Do those who write records exclude each other.
Serial == ~(lib = "gnutls" /\ own > 0)

\* What OpenSSL wrote is on the wire or waits in mOutBio, in order and to the end.
Piped ==
  (lib = "openssl" /\ up) => InSequence(wire \o bio, records) /\ EndsWith(wire \o bio, records, Len(records))

\* All records are on the wire, or all but the last, which a thread is about to write.
Written ==
  (lib # "openssl" /\ Serial /\ up) =>
    \/ (\A t \in Threads : pc[t] # "write") /\ EndsWith(wire, records, Len(records))
    \/ \E t \in Threads : pc[t] = "write" /\ mine[t] = Len(records) /\ EndsWith(wire, records, Len(records) - 1)

OnWire == (Serial => InSequence(wire, records)) /\ Piped /\ Written

LEMMA Positive ==
  ASSUME NEW s \in Seq(Nat \ {0})
  PROVE  s \in Seq(Nat) /\ \A i \in 1 .. Len(s) : s[i] \in Nat \ {0}
<1>1. s \in [1 .. Len(s) -> Nat \ {0}] /\ Len(s) \in Nat
  BY LenProperties
<1>2. s \in [1 .. Len(s) -> Nat]
  BY <1>1
<1> QED
  BY <1>1, <1>2, SeqDef

\* Threads that write hold the mutex that serialises them.
LEMMA OneWriter ==
  ASSUME Base, Serial, NEW t \in Threads, NEW u \in Threads, pc[t] = "write", pc[u] = "write"
  PROVE  t = u
<1>1. lib \in {"openssl", "gnutls", "mbedtls", "none"} /\ LocksOf(t) /\ LocksOf(u) /\ own \in Nat
  BY SendAssumption DEF Base, Holding, TypeOK
<1>2. Locked \/ Alone \/ lib = "openssl"
  BY <1>1 DEF Locked, Alone, Serial
<1> QED
  BY <1>1, <1>2 DEF LocksOf

\* Nothing is made or written, and nobody begins or ends to write.
LEMMA QuietWire ==
  ASSUME OnWire, UNCHANGED <<lib, own, records, wire>>, up' => up, bio' = bio \/ ~up',
         ~up' \/ \A u \in Threads : (pc'[u] = "write" <=> pc[u] = "write") /\ (pc[u] = "write" => mine'[u] = mine[u])
  PROVE  OnWire'
<1>1. Serial' => InSequence(wire', records')
  BY DEF OnWire, Serial
<1>2. Piped'
  BY DEF OnWire, Piped
<1>3. Written'
  <2> SUFFICES ASSUME lib # "openssl", Serial, up, up'
               PROVE  \/ (\A t \in Threads : pc'[t] # "write") /\ EndsWith(wire, records, Len(records))
                      \/ \E t \in Threads : pc'[t] = "write" /\ mine'[t] = Len(records) /\ EndsWith(wire, records, Len(records) - 1)
    BY DEF Written, Serial, EndsWith
  <2> QED
    BY DEF OnWire, Written
<1> QED
  BY <1>1, <1>2, <1>3 DEF OnWire

\* A record is made when nobody is about to write one.
LEMMA MadeWire ==
  ASSUME Base, OnWire, NEW t \in Threads, NEW p \in Seq(Pairs), Made(t, p), wire' = wire, lib' = lib, up' = up, own' >= own, own' \in Nat,
         lib # "openssl" => pc'[t] = "write" /\ (Serial' => \A u \in Threads : pc[u] # "write")
  PROVE  OnWire'
<1> DEFINE n == Len(records)
           m == Len(p) + 1
<1>0. TypeOK /\ Holding
  BY DEF Base
<1>1. wire \in Seq(Pairs) /\ bio \in Seq(Pairs) /\ records \in Seq(Nat) /\ Len(records) \in Nat /\ m \in Nat /\ m > 0 /\ own \in Nat
  BY <1>0, Positive DEF TypeOK
<1>2. /\ records' \in Seq(Nat \ {0}) /\ Len(records') = n + 1 /\ records'[n + 1] = m
      /\ \A i \in 1 .. Len(records) : records'[i] = records[i]
      /\ lib = "openssl" => bio' = bio \o Bytes(n + 1, m)
      /\ lib # "openssl" => bio' = bio /\ mine'[t] = n + 1
  BY <1>0, Making
<1>3. records' \in Seq(Nat) /\ Len(records') >= Len(records)
  BY <1>1, <1>2, Positive
<1>4. Serial' => Serial
  BY <1>1 DEF Serial
<1>5. Serial' => InSequence(wire', records')
  BY <1>1, <1>2, <1>3, <1>4, InSequenceGrows DEF OnWire
<1> HIDE DEF m
<1>6. Piped'
  <2> SUFFICES ASSUME lib = "openssl", up
               PROVE  InSequence(wire \o bio', records') /\ EndsWith(wire \o bio', records', n + 1)
    BY <1>2 DEF Piped, EndsWith
  <2> DEFINE s == wire \o bio
  <2>1. s \in Seq(Pairs) /\ InSequence(s, records) /\ EndsWith(s, records, n)
    BY <1>1, ConcatProperties DEF OnWire, Piped
  <2>2. Bytes(n + 1, m) = Run(n + 1, 0, m) /\ Bytes(n + 1, m) \in Seq(Pairs)
    <3>1. n + 1 \in Nat /\ m \in Nat
      BY <1>1
    <3> QED
      BY <3>1, BytesAre
  <2>3. wire \o bio' = s \o Run(n + 1, 0, m)
    <3>1. bio' = bio \o Run(n + 1, 0, m) /\ Run(n + 1, 0, m) \in Seq(Pairs)
      BY <1>2, <2>2
    <3>2. (wire \o bio) \o Run(n + 1, 0, m) = wire \o (bio \o Run(n + 1, 0, m))
      BY <1>1, <3>1, Associative, ZenonT(40)
    <3> QED
      BY <3>1, <3>2
  <2> HIDE DEF s
  <2>4. InSequence(s, records') /\ EndsWith(s, records', n)
    <3>1. n \in 0 .. Len(records)
      BY <1>1
    <3> QED
      BY <1>1, <1>2, <1>3, <2>1, <3>1, InSequenceGrows
  <2>5. (n + 1) - 1 = n /\ n + 1 \in 1 .. Len(records') /\ 0 \in Nat /\ 0 + m <= records'[n + 1] /\ 0 + m = records'[n + 1]
    BY <1>1, <1>2
  <2>6. Reaches(s, records', n + 1, 0)
    BY <2>4, <2>5 DEF Reaches
  <2> QED
    BY <1>1, <1>3, <2>1, <2>3, <2>4, <2>5, <2>6, InSequenceExtends
<1>7. Written'
  <2> SUFFICES ASSUME lib # "openssl", Serial', up
               PROVE  pc'[t] = "write" /\ mine'[t] = Len(records') /\ EndsWith(wire', records', Len(records') - 1)
    BY DEF Written
  <2>1. EndsWith(wire, records, n)
    BY <1>4 DEF OnWire, Written
  <2>2. EndsWith(wire, records', n)
    <3>1. n \in 0 .. Len(records) /\ InSequence(wire, records)
      BY <1>1, <1>4 DEF OnWire
    <3> QED
      BY <1>1, <1>2, <1>3, <2>1, <3>1, InSequenceGrows
  <2>3. Len(records') - 1 = n
    BY <1>1, <1>2
  <2> QED
    BY <1>2, <2>2, <2>3
<1> QED
  BY <1>5, <1>6, <1>7 DEF OnWire

LEMMA FlushWire == ASSUME Base, OnWire, NEW t \in Threads, Flush(t) PROVE OnWire'
<1>0. TypeOK /\ Holding /\ FlushLen \in Nat \ {0} /\ bio \in Seq(Pairs) /\ wire \in Seq(Pairs) /\ records \in Seq(Nat)
  BY SendAssumption, Positive DEF Base, TypeOK
<1>1. /\ UNCHANGED <<lib, linkVars, frames, records, plain, own>> /\ lib = "openssl" /\ pc[t] = "flush"
      /\ lib' = lib /\ own' = own /\ records' = records /\ up' = up
  BY <1>0 DEF Flush, Holding, LocksOf, linkVars
<1>2. CASE bio = <<>> \/ ~up
  <2>1. Gone(t) /\ wire' = wire /\ (bio' = bio \/ ~up')
    BY <1>1, <1>2 DEF Flush, Return, Throw
  <2>2. \A u \in Threads : (pc'[u] = "write" <=> pc[u] = "write") /\ (pc[u] = "write" => mine'[u] = mine[u])
    BY <1>0, <1>1, <2>1 DEF Gone, Move, TypeOK
  <2> QED
    BY <1>1, <2>1, <2>2, QuietWire
<1>3. CASE bio # <<>> /\ up
  <2> DEFINE q == SubSeq(bio, 1, Min2(FlushLen, Len(bio)))
             r == Drop(bio, FlushLen)
  <2>1. wire' = wire \o q /\ bio' = r /\ pc' = pc /\ mine' = mine
    BY <1>3 DEF Flush
  <2>2. q \in Seq(Pairs) /\ r \in Seq(Pairs) /\ q \o r = bio
    BY <1>0, DropSplits
  <2> HIDE DEF q, r
  <2>3. wire' \o bio' = wire \o bio /\ wire' \in Seq(Pairs) /\ bio' \in Seq(Pairs)
    <3>1. (wire \o q) \o r = wire \o (q \o r)
      BY <1>0, <2>2, Associative, ZenonT(40)
    <3>2. wire \o q \in Seq(Pairs)
      BY <1>0, <2>2, ConcatProperties
    <3> QED
      BY <2>1, <2>2, <3>1, <3>2
  <2>4. InSequence(wire \o bio, records) /\ EndsWith(wire \o bio, records, Len(records))
    BY <1>1, <1>3 DEF OnWire, Piped
  <2>5. Piped'
    BY <1>1, <2>3, <2>4 DEF Piped
  <2>6. InSequence(wire', records)
    <3>1. InSequence(wire' \o bio', records)
      BY <2>3, <2>4
    <3> QED
      BY <1>0, <2>3, <3>1, InSequencePrefix
  <2> QED
    BY <1>1, <2>5, <2>6 DEF OnWire, Written
<1> QED
  BY <1>2, <1>3

LEMMA WriteCallbackWire == ASSUME Base, OnWire, NEW t \in Threads, WriteCallback(t) PROVE OnWire'
<1>0. TypeOK /\ Holding /\ wire \in Seq(Pairs) /\ records \in Seq(Nat) /\ Len(records) \in Nat
  BY Positive DEF Base, TypeOK
<1>1. /\ pc[t] = "write" /\ Gone(t) /\ UNCHANGED <<lib, linkVars, frames, records, plain, bio, own>>
      /\ lib' = lib /\ own' = own /\ records' = records /\ up' = up /\ bio' = bio
  BY DEF WriteCallback, Return, Throw, linkVars
<1>2. lib # "openssl" /\ mine[t] \in 1 .. Len(records) /\ mine[t] \in Nat /\ records[mine[t]] \in Nat \ {0}
  BY <1>1, Writing
<1>3. CASE ~Serial
  BY <1>1, <1>2, <1>3 DEF OnWire, Piped, Written, Serial
<1>4. CASE ~up
  <2>1. wire' = wire
    BY <1>4 DEF WriteCallback
  <2> QED
    BY <1>1, <1>2, <1>4, <2>1 DEF OnWire, Piped, Written, Serial
<1>5. CASE Serial /\ up
  <2> DEFINE n == Len(records)
  <2>1. wire' = wire \o Bytes(mine[t], records[mine[t]])
    BY <1>5 DEF WriteCallback
  <2>2. PICK u \in Threads : pc[u] = "write" /\ mine[u] = n /\ EndsWith(wire, records, n - 1)
    BY <1>1, <1>2, <1>5 DEF OnWire, Written
  <2>3. u = t
    BY <1>1, <1>5, <2>2, OneWriter
  <2>4. mine[t] = n /\ n \in 1 .. Len(records) /\ InSequence(wire, records) /\ Reaches(wire, records, n, 0)
    BY <1>2, <1>5, <2>2, <2>3 DEF OnWire, Reaches
  <2>5. wire' = wire \o Run(n, 0, records[n])
    BY <1>0, <1>2, <2>1, <2>4, BytesAre, ZenonT(40)
  <2>6. records[n] \in Nat /\ records[n] > 0 /\ 0 + records[n] <= records[n] /\ 0 + records[n] = records[n] /\ 0 \in Nat
    BY <1>2, <2>4
  <2> HIDE DEF n
  <2>7. InSequence(wire', records) /\ EndsWith(wire', records, n)
    BY <1>0, <2>4, <2>5, <2>6, InSequenceExtends
  <2>8. \A v \in Threads : pc'[v] # "write"
    <3>1. \A v \in Threads : pc[v] = "write" => v = t
      BY <1>1, <1>5, OneWriter
    <3>2. pc' = [pc EXCEPT ![t] = "idle"]
      BY <1>1 DEF Gone, Move
    <3> QED
      BY <1>0, <3>1, <3>2 DEF TypeOK
  <2> QED
    BY <1>1, <1>2, <2>7, <2>8 DEF OnWire, Piped, Written, n
<1> QED
  BY <1>3, <1>4, <1>5

-----------------------------------------------------------------------------
(* What a step does to records, mOutBio and the wire                       *)

\* Nothing: no record is made or written, and nobody begins or ends to write.
Quiet ==
  /\ UNCHANGED <<lib, own, records, wire>> /\ (up' => up) /\ (linked' => linked) /\ (bio' = bio \/ ~up')
  /\ ~up' \/ \A u \in Threads : (pc'[u] = "write" <=> pc[u] = "write") /\ (pc[u] = "write" => mine'[u] = mine[u])
  /\ bio' = <<>> \/ ~up' \/ \A u \in Threads : pc[u] \in {"ssl", "flush"} => pc'[u] \in {"ssl", "flush"}

\* Thread t makes a record; whoever has it written by the library does it next.
Makes(t, p) ==
  /\ Made(t, p) /\ pc[t] # "write" /\ wire' = wire /\ lib' = lib /\ up' = up /\ own' \in Nat /\ own' >= own
  /\ \A u \in Threads : u # t => pc'[u] = pc[u]
  /\ lib = "openssl" => ~linked' \/ pc'[t] \in {"ssl", "flush"}
  /\ lib # "openssl" => pc'[t] = "write" /\ (Serial' => \A u \in Threads : pc[u] # "write")

Flushes(t) == Flush(t) /\ bio # <<>> /\ up

LEMMA QuietMove ==
  ASSUME Base, NEW t \in Threads, NEW x \in Places, x # "write", pc[t] \notin {"write", "ssl", "flush"}, pc' = [pc EXCEPT ![t] = x],
         \A u \in Threads : u # t => mine'[u] = mine[u], UNCHANGED <<lib, own, records, wire, bio, up, linked>>
  PROVE  Quiet
<1>1. pc \in [Threads -> Places]
  BY DEF Base, TypeOK
<1>2. pc'[t] = x /\ \A u \in Threads : u # t => pc'[u] = pc[u]
  BY <1>1
<1>3. \A u \in Threads : (pc'[u] = "write" <=> pc[u] = "write") /\ (pc[u] = "write" => mine'[u] = mine[u])
  BY <1>2
<1>4. \A u \in Threads : pc[u] \in {"ssl", "flush"} => pc'[u] \in {"ssl", "flush"}
  BY <1>2
<1> QED
  BY <1>3, <1>4 DEF Quiet

\* All that send() does before it comes to the TLS library is quiet.
LEMMA EarlyQuiet ==
  ASSUME Base, NEW t \in Threads, (\E n \in Sizes : Send(t, n)) \/ Outgoing(t) \/ WsSend(t) \/ SendFrame(t) \/ (t = Worker /\ (Control \/ IdlePing))
  PROVE  Quiet
<1>1. mine \in [Threads -> Nat]
  BY DEF Base, TypeOK
<1>2. UNCHANGED <<lib, own, records, wire, bio>> /\ up' = up /\ linked' = linked
  BY DEF Send, Outgoing, WsSend, SendFrame, Control, IdlePing, linkVars, tlsVars
<1>3. pc[t] \notin {"write", "ssl", "flush"}
  BY DEF Send, Outgoing, WsSend, SendFrame, Control, IdlePing
<1>4. \E x \in {"idle", "call", "opened", "use", "frame", "tls", "crashed"} : pc' = [pc EXCEPT ![t] = x]
  BY DEF Send, Outgoing, WsSend, SendFrame, Control, IdlePing, Throw, Gone, Move
<1>5. \A u \in Threads : u # t => mine'[u] = mine[u]
  <2>1. mine' = mine \/ \E n \in Nat : mine' = [mine EXCEPT ![t] = n]
    <3>1. Len(frames) + 1 \in Nat
      BY DEF Base, TypeOK
    <3> QED
      BY <3>1 DEF Send, Outgoing, WsSend, SendFrame, Control, IdlePing, Throw, Gone, tlsVars
  <2> QED
    BY <1>1, <2>1
<1>6. PICK x \in {"idle", "call", "opened", "use", "frame", "tls", "crashed"} : pc' = [pc EXCEPT ![t] = x]
  BY <1>4
<1>7. x \in Places /\ x # "write"
  BY DEF Places
<1> QED
  BY <1>2, <1>3, <1>5, <1>6, <1>7, QuietMove

LEMMA TlsSendSorts == ASSUME Base, NEW t \in Threads, TlsSend(t) \/ TlsLock(t) PROVE Quiet \/ \E p \in Seq(Pairs) : Makes(t, p)
<1>0. TypeOK /\ Holding /\ \A u \in Threads : Nobody # u /\ LocksOf(u)
  BY SendAssumption DEF Base, Holding
<1>1. /\ pc[t] \in {"tls", "lock"} /\ sendMutex = t /\ lib' = lib /\ wire' = wire /\ own' = own /\ up' = up /\ linked' = linked
  BY TlsSendDoes DEF linkVars
<1>2. CASE ~linked /\ Gone(t) /\ Unlocked(t) /\ UNCHANGED <<records, plain, bio>>
  <2>1. pc' = [pc EXCEPT ![t] = "idle"] /\ "idle" \in Places /\ pc[t] \notin {"write", "ssl", "flush"}
    BY <1>1, <1>2 DEF Gone, Move, Places
  <2>2. \A u \in Threads : u # t => mine'[u] = mine[u]
    BY <1>0, <1>2 DEF Gone, TypeOK
  <2> QED
    BY <1>1, <1>2, <2>1, <2>2, QuietMove
<1>3. ASSUME NEW x \in {"lock", "ssl"}, pc' = [pc EXCEPT ![t] = x], UNCHANGED <<records, plain, mine, bio, sendMutex, size>>
      PROVE  Quiet
  <2>1. x \in Places /\ x # "write" /\ pc[t] \notin {"write", "ssl", "flush"}
    BY <1>1 DEF Places
  <2> QED
    BY <1>1, <1>3, <2>1, QuietMove
<1>4. CASE /\ lib # "openssl" /\ pc' = [pc EXCEPT ![t] = "write"] /\ SslLock(t) /\ UNCHANGED <<sendMutex, size>>
           /\ \E p \in Seq(Pairs) : Made(t, p)
  <2>1. PICK p \in Seq(Pairs) : Made(t, p)
    BY <1>4
  <2>2. Serial' => \A u \in Threads : pc[u] # "write"
    <3>1. lib \in {"gnutls", "mbedtls", "none"} /\ own \in Nat
      BY <1>0, <1>4, SendAssumption DEF TypeOK
    <3>2. CASE lib = "mbedtls"
      <4>1. sslMutex = Nobody
        BY <1>4, <3>2 DEF SslLock, Locked
      <4> QED
        BY <1>0, <3>2, <4>1 DEF LocksOf, Locked
    <3>3. CASE lib # "mbedtls"
      <4>1. Serial' => Alone
        BY <1>1, <3>1, <3>3 DEF Serial, Alone
      <4>2. ASSUME Alone, NEW u \in Threads, pc[u] = "write" PROVE FALSE
        BY <1>0, <1>1, <4>2 DEF LocksOf
      <4> QED
        BY <4>1, <4>2
    <3> QED
      BY <3>2, <3>3
  <2>3. pc'[t] = "write" /\ \A u \in Threads : u # t => pc'[u] = pc[u]
    BY <1>0, <1>4 DEF TypeOK
  <2>4. own' \in Nat /\ own' >= own
    BY <1>0, <1>1 DEF TypeOK
  <2> QED
    BY <1>1, <1>4, <2>1, <2>2, <2>3, <2>4 DEF Makes
<1> QED
  BY <1>2, <1>3, <1>4, TlsSendDoes

LEMMA SslWriteSorts == ASSUME Base, NEW t \in Threads, SslWrite(t) PROVE \E p \in Seq(Pairs) : Makes(t, p)
<1>0. pc \in [Threads -> Places] /\ own \in Nat
  BY DEF Base, TypeOK
<1>1. pc[t] = "ssl" /\ lib = "openssl" /\ UNCHANGED <<lib, linkVars, size, frames, sendMutex, sslMutex, wire, own>>
  BY SslWriteDoes
<1>2. PICK x \in {"flush", "ssl"} : pc' = [pc EXCEPT ![t] = x]
  BY SslWriteDoes
<1>3. PICK p \in Seq(Pairs) : Made(t, p)
  BY SslWriteDoes
<1>4. pc'[t] \in {"ssl", "flush"} /\ \A u \in Threads : u # t => pc'[u] = pc[u]
  BY <1>0, <1>2
<1>5. up' = up /\ own' \in Nat /\ own' >= own
  BY <1>0, <1>1 DEF linkVars
<1> QED
  BY <1>1, <1>3, <1>4, <1>5 DEF Makes

LEMMA WorkerSorts == ASSUME Base, LibrarySends \/ Shutdown PROVE Makes(Worker, <<>>)
<1>0. TypeOK /\ Holding /\ Worker \in Threads /\ \A u \in Threads : Nobody # u /\ LocksOf(u)
  BY SendAssumption DEF Base, Holding, Threads
<1>1. Made(Worker, <<>>) /\ pc[Worker] = "idle" /\ wire' = wire /\ lib' = lib /\ up' = up
  BY DEF LibrarySends, Shutdown, linkVars
<1>2. own' \in Nat /\ own' >= own
  BY <1>0 DEF LibrarySends, Shutdown, TypeOK
<1>3. CASE LibrarySends
  <2>1. PICK x \in {"flush", "write"} : pc' = [pc EXCEPT ![Worker] = x] /\ (x = "flush" <=> lib = "openssl")
    BY <1>3 DEF LibrarySends, Move
  <2>2. pc'[Worker] = x /\ \A u \in Threads : u # Worker => pc'[u] = pc[u]
    BY <1>0, <2>1 DEF TypeOK
  <2>3. ASSUME lib # "openssl", Serial', NEW u \in Threads PROVE pc[u] # "write"
    <3>1. own' > 0 /\ lib # "none" /\ lib \in {"openssl", "gnutls", "mbedtls", "none"}
      BY <1>0, <1>3, SendAssumption DEF LibrarySends, TypeOK
    <3>2. lib = "mbedtls"
      BY <1>1, <2>3, <3>1 DEF Serial
    <3>3. sslMutex = Nobody
      BY <1>3, <3>2 DEF LibrarySends, SslLock, Locked
    <3> QED
      BY <1>0, <3>2, <3>3 DEF LocksOf, Locked
  <2> QED
    BY <1>1, <1>2, <2>1, <2>2, <2>3 DEF Makes
<1>4. CASE Shutdown
  <2>1. pc' = pc /\ lib = "openssl" /\ linked' = FALSE
    BY <1>4 DEF Shutdown
  <2> QED
    BY <1>1, <1>2, <2>1 DEF Makes
<1> QED
  BY <1>3, <1>4

LEMMA FlushSorts == ASSUME Base, NEW t \in Threads, Flush(t) PROVE Quiet \/ Flushes(t)
<1>0. TypeOK
  BY DEF Base
<1>1. pc[t] = "flush" /\ UNCHANGED <<lib, own, records>> /\ up' = up /\ linked' = linked
  BY DEF Flush, linkVars
<1>2. CASE bio = <<>> \/ ~up
  <2>1. Gone(t) /\ wire' = wire /\ (bio' = bio \/ ~up') /\ (bio' = <<>> \/ ~up')
    BY <1>1, <1>2 DEF Flush, Return, Throw
  <2>2. \A u \in Threads : (pc'[u] = "write" <=> pc[u] = "write") /\ (pc[u] = "write" => mine'[u] = mine[u])
    BY <1>0, <1>1, <2>1 DEF Gone, Move, TypeOK
  <2> QED
    BY <1>1, <2>1, <2>2 DEF Quiet
<1>3. CASE ~(bio = <<>> \/ ~up)
  BY <1>3 DEF Flushes
<1> QED
  BY <1>2, <1>3

LEMMA Sorts ==
  ASSUME Base, [Next]_vars
  PROVE  \/ Quiet \/ \E t \in Threads, p \in Seq(Pairs) : Makes(t, p)
         \/ \E t \in Threads : Flushes(t) \/ WriteCallback(t)
<1>1. ASSUME NEW t \in Senders, NEW n \in Sizes, Send(t, n) PROVE Quiet
  <2>1. t \in Threads /\ \E k \in Sizes : Send(t, k)
    BY <1>1 DEF Threads
  <2> QED
    BY <2>1, EarlyQuiet
<1>2. ASSUME NEW t \in Threads, Outgoing(t) \/ WsSend(t) \/ SendFrame(t) PROVE Quiet
  BY <1>2, EarlyQuiet
<1>3. ASSUME NEW t \in Threads, TlsSend(t) \/ TlsLock(t) \/ SslWrite(t) PROVE Quiet \/ \E p \in Seq(Pairs) : Makes(t, p)
  BY <1>3, TlsSendSorts, SslWriteSorts
<1>4. ASSUME NEW t \in Threads, Flush(t) PROVE Quiet \/ Flushes(t)
  BY <1>4, FlushSorts
<1>5. Worker \in Threads /\ <<>> \in Seq(Pairs)
  BY DEF Threads
<1>6. CASE Control \/ IdlePing
  BY <1>5, <1>6, EarlyQuiet
<1>7. CASE LibrarySends \/ Shutdown
  BY <1>5, <1>7, WorkerSorts
<1>8. CASE Lost \/ CloseTransports \/ UNCHANGED vars
  <2>1. UNCHANGED <<lib, own, records, wire, bio, pc, mine>>
    BY <1>8 DEF Lost, CloseTransports, vars, tlsVars
  <2>2. (up' => up) /\ (linked' => linked)
    BY <1>8 DEF Lost, CloseTransports, vars, linkVars
  <2> QED
    BY <2>1, <2>2 DEF Quiet
<1>9. CASE Release
  BY <1>9 DEF Release, Quiet
<1> QED
  BY <1>1, <1>2, <1>3, <1>4, <1>6, <1>7, <1>8, <1>9 DEF Next, Step

LEMMA OnWireStep == ASSUME Base, OnWire, [Next]_vars PROVE OnWire'
<1>1. CASE Quiet
  BY <1>1, QuietWire DEF Quiet
<1>2. ASSUME NEW t \in Threads, NEW p \in Seq(Pairs), Makes(t, p) PROVE OnWire'
  BY <1>2, MadeWire DEF Makes
<1>3. ASSUME NEW t \in Threads, Flushes(t) \/ WriteCallback(t) PROVE OnWire'
  BY <1>3, FlushWire, WriteCallbackWire DEF Flushes
<1> QED
  BY <1>1, <1>2, <1>3, Sorts

LEMMA InitOnWire == Init => OnWire
<1> SUFFICES ASSUME Init PROVE OnWire
  OBVIOUS
<1>1. wire = <<>> /\ bio = <<>> /\ records = <<>> /\ Len(records) = 0 /\ Len(wire) = 0 /\ wire \o bio = <<>>
  BY DEF Init
<1>2. InSequence(<<>>, records) /\ EndsWith(<<>>, records, 0)
  BY DEF InSequence, EndsWith
<1>3. \A t \in Threads : pc[t] # "write"
  BY DEF Init
<1> QED
  BY <1>1, <1>2, <1>3 DEF OnWire, Piped, Written

\* Whichever threads send and whatever the receiving worker makes the library write,
\* TCP is given the records in the order of their numbers, whole and none left out:
\* mSslMutex is held from SSL_write() or mbedtls_ssl_write() until TCP has the bytes.
\* With GnuTLS this rests on mSendMutex alone, and so only for send().
THEOREM RecordsOrdered == Spec => []RecordsInOrder
<1>1. Base /\ OnWire => RecordsInOrder
  BY DEF OnWire, RecordsInOrder, Serial
<1>2. Init => Base /\ OnWire
  BY InitBase, InitOnWire
<1>3. (Base /\ OnWire) /\ [Next]_vars => (Base /\ OnWire)'
  BY BaseStep, OnWireStep
<1> QED
  BY <1>1, <1>2, <1>3, PTL DEF Spec

-----------------------------------------------------------------------------
(* Every byte of every record                                              *)

\* A byte of a record is on the wire, in mOutBio or with the thread that writes it.
Handed ==
  up => \A n \in 1 .. Len(records) : \A j \in 1 .. records[n] :
          IsIn(<<n, j>>, wire) \/ IsIn(<<n, j>>, bio) \/ \E t \in Threads : pc[t] = "write" /\ mine[t] = n

\* mOutBio has something only while a thread is about to flush it.
Emptied == (lib = "openssl" /\ linked /\ up) => bio = <<>> \/ \E t \in Threads : pc[t] \in {"ssl", "flush"}

LEMMA QuietHanded == ASSUME Handed, Emptied, Quiet PROVE Handed' /\ Emptied'
<1>1. /\ UNCHANGED <<lib, own, records, wire>> /\ (up' => up) /\ (linked' => linked) /\ (bio' = bio \/ ~up')
      /\ ~up' \/ \A u \in Threads : (pc'[u] = "write" <=> pc[u] = "write") /\ (pc[u] = "write" => mine'[u] = mine[u])
  BY DEF Quiet
<1>2. Handed'
  <2> SUFFICES ASSUME up', NEW n \in 1 .. Len(records), NEW j \in 1 .. records[n]
               PROVE  IsIn(<<n, j>>, wire) \/ IsIn(<<n, j>>, bio') \/ \E t \in Threads : pc'[t] = "write" /\ mine'[t] = n
    <3>1. records' = records /\ wire' = wire
      BY <1>1
    <3> QED
      BY <3>1, ZenonT(40) DEF Handed, IsIn
  <2>1. IsIn(<<n, j>>, wire) \/ IsIn(<<n, j>>, bio) \/ \E t \in Threads : pc[t] = "write" /\ mine[t] = n
    BY <1>1 DEF Handed
  <2> QED
    BY <1>1, <2>1
<1>3. Emptied'
  BY <1>1 DEF Emptied, Quiet
<1> QED
  BY <1>2, <1>3

LEMMA MakesHanded ==
  ASSUME Base, Handed, Emptied, NEW t \in Threads, NEW p \in Seq(Pairs), Makes(t, p)
  PROVE  Handed' /\ Emptied'
<1>0. TypeOK /\ Holding /\ Made(t, p) /\ Len(records) \in Nat /\ Len(p) + 1 \in Nat
  BY SMTT(40) DEF Base, TypeOK, Makes
<1>1. /\ Len(records') = Len(records) + 1 /\ records'[Len(records')] = Len(p) + 1
      /\ \A i \in 1 .. Len(records) : records'[i] = records[i]
      /\ \A u \in Threads : u # t => mine'[u] = mine[u]
      /\ lib = "openssl" => bio' = bio \o Bytes(Len(records'), Len(p) + 1)
      /\ lib # "openssl" => bio' = bio /\ mine'[t] = Len(records')
  BY <1>0, Making
<1>2. pc[t] # "write" /\ wire' = wire /\ lib' = lib /\ up' = up /\ \A u \in Threads : u # t => pc'[u] = pc[u]
  BY DEF Makes
<1>3. Bytes(Len(records'), Len(p) + 1) \in Seq(Pairs) /\ bio \in Seq(Pairs) /\ Len(Bytes(Len(records'), Len(p) + 1)) = Len(p) + 1
  <2>1. Len(records') \in Nat
    BY <1>0, <1>1
  <2> QED
    BY <1>0, <2>1, BytesAre DEF TypeOK
<1>4. ASSUME NEW b, IsIn(b, bio) PROVE IsIn(b, bio')
  <2>1. IsIn(b, bio \o Bytes(Len(records'), Len(p) + 1))
    BY <1>3, <1>4, InConcat
  <2> QED
    BY <1>1, <1>4, <2>1
<1>5. Handed'
  <2> SUFFICES ASSUME up, NEW n \in 1 .. Len(records'), NEW j \in 1 .. records'[n]
               PROVE  IsIn(<<n, j>>, wire) \/ IsIn(<<n, j>>, bio') \/ \E u \in Threads : pc'[u] = "write" /\ mine'[u] = n
    BY <1>2, ZenonT(40) DEF Handed, IsIn
  <2>1. CASE n = Len(records')
    <3>1. CASE lib = "openssl"
      <4>1. Bytes(Len(records'), Len(p) + 1)[j] = <<n, j>> /\ j \in 1 .. Len(Bytes(Len(records'), Len(p) + 1))
        <5>1. Len(records') \in Nat /\ j \in 1 .. Len(p) + 1
          BY <1>0, <1>1, <2>1
        <5> QED
          BY <1>0, <1>3, <2>1, <5>1, BytesAre
      <4>2. IsIn(<<n, j>>, bio \o Bytes(Len(records'), Len(p) + 1))
        <5>1. IsIn(<<n, j>>, Bytes(Len(records'), Len(p) + 1))
          BY <4>1 DEF IsIn
        <5> QED
          BY <1>3, <5>1, InConcat
      <4> QED
        BY <1>1, <3>1, <4>2
    <3>2. CASE lib # "openssl"
      BY <1>1, <2>1, <3>2 DEF Makes
    <3> QED
      BY <3>1, <3>2
  <2>2. CASE n # Len(records')
    <3>1. n \in 1 .. Len(records) /\ j \in 1 .. records[n]
      BY <1>0, <1>1, <2>2
    <3>2. IsIn(<<n, j>>, wire) \/ IsIn(<<n, j>>, bio) \/ \E u \in Threads : pc[u] = "write" /\ mine[u] = n
      BY <3>1 DEF Handed
    <3> QED
      BY <1>1, <1>2, <1>4, <3>2
  <2> QED
    BY <2>1, <2>2
<1>6. Emptied'
  BY <1>2 DEF Makes, Emptied
<1> QED
  BY <1>5, <1>6

LEMMA FlushesHanded ==
  ASSUME Base, Handed, Emptied, NEW t \in Threads, Flushes(t)
  PROVE  Handed' /\ Emptied'
<1> DEFINE q == SubSeq(bio, 1, Min2(FlushLen, Len(bio)))
           r == Drop(bio, FlushLen)
<1>0. FlushLen \in Nat \ {0} /\ bio \in Seq(Pairs) /\ wire \in Seq(Pairs)
  BY SendAssumption DEF Base, TypeOK
<1>1. /\ wire' = wire \o q /\ bio' = r /\ UNCHANGED <<pc, mine, records, lib>> /\ up' = up /\ linked' = linked /\ pc[t] = "flush"
  BY DEF Flush, Flushes, linkVars
<1>2. q \in Seq(Pairs) /\ r \in Seq(Pairs) /\ q \o r = bio
  BY <1>0, DropSplits
<1> HIDE DEF q, r
<1>3. ASSUME NEW b, IsIn(b, wire) \/ IsIn(b, bio) PROVE IsIn(b, wire') \/ IsIn(b, bio')
  <2>1. IsIn(b, bio) => IsIn(b, q) \/ IsIn(b, r)
    BY <1>2, InConcat
  <2>2. IsIn(b, wire) \/ IsIn(b, q) => IsIn(b, wire \o q)
    BY <1>0, <1>2, InConcat
  <2> QED
    BY <1>1, <1>3, <2>1, <2>2
<1>4. Handed'
  <2> SUFFICES ASSUME up, NEW n \in 1 .. Len(records), NEW j \in 1 .. records[n]
               PROVE  IsIn(<<n, j>>, wire') \/ IsIn(<<n, j>>, bio') \/ \E u \in Threads : pc[u] = "write" /\ mine[u] = n
    BY <1>1 DEF Handed, IsIn
  <2>1. IsIn(<<n, j>>, wire) \/ IsIn(<<n, j>>, bio) \/ \E u \in Threads : pc[u] = "write" /\ mine[u] = n
    BY DEF Handed
  <2> QED
    BY <1>3, <2>1
<1>5. Emptied'
  BY <1>1 DEF Emptied
<1> QED
  BY <1>4, <1>5

LEMMA WriteCallbackHanded ==
  ASSUME Base, Handed, Emptied, NEW t \in Threads, WriteCallback(t)
  PROVE  Handed' /\ Emptied'
<1> DEFINE q == Bytes(mine[t], records[mine[t]])
<1>0. TypeOK /\ bio \in Seq(Pairs) /\ wire \in Seq(Pairs)
  BY DEF Base, TypeOK
<1>1. pc[t] = "write" /\ Gone(t) /\ UNCHANGED <<records, lib, bio>> /\ up' = up
  BY DEF WriteCallback, Return, Throw, linkVars
<1>2. /\ lib # "openssl" /\ mine[t] \in Nat /\ records[mine[t]] \in Nat /\ q \in Seq(Pairs)
      /\ Len(q) = records[mine[t]] /\ \A j \in 1 .. records[mine[t]] : q[j] = <<mine[t], j>>
  BY <1>1, Writing, BytesAre
<1>3. up => wire' = wire \o q
  BY DEF WriteCallback
<1> HIDE DEF q
<1>4. \A u \in Threads : u # t => pc'[u] = pc[u] /\ mine'[u] = mine[u]
  BY <1>0, <1>1 DEF Gone, Move, TypeOK
<1>5. Handed'
  <2> SUFFICES ASSUME up, NEW n \in 1 .. Len(records), NEW j \in 1 .. records[n]
               PROVE  IsIn(<<n, j>>, wire') \/ IsIn(<<n, j>>, bio) \/ \E u \in Threads : pc'[u] = "write" /\ mine'[u] = n
    BY <1>1, ZenonT(40) DEF Handed, IsIn
  <2>1. IsIn(<<n, j>>, wire) \/ IsIn(<<n, j>>, bio) \/ \E u \in Threads : pc[u] = "write" /\ mine[u] = n
    BY DEF Handed
  <2>2. IsIn(<<n, j>>, wire) \/ IsIn(<<n, j>>, q) => IsIn(<<n, j>>, wire')
    BY <1>0, <1>2, <1>3, InConcat
  <2>3. mine[t] = n => IsIn(<<n, j>>, q)
    BY <1>2 DEF IsIn
  <2> QED
    BY <1>4, <2>1, <2>2, <2>3
<1>6. Emptied'
  BY <1>1, <1>2 DEF Emptied
<1> QED
  BY <1>5, <1>6

LEMMA HandedStep == ASSUME Base, Handed, Emptied, [Next]_vars PROVE Handed' /\ Emptied'
BY QuietHanded, MakesHanded, FlushesHanded, WriteCallbackHanded, Sorts

-----------------------------------------------------------------------------
(* Every byte of every frame                                               *)

\* The plaintext goes through the frames, to the end of the last or, while a thread
\* has the last one in hand, to what the library has taken of it.
InHand(t) ==
  pc[t] \in {"tls", "lock", "ssl"} =>
    /\ Taken(Len(frames)) < FrameLen(Len(frames)) /\ Reaches(plain, FrameLens, Len(frames), Taken(Len(frames)))
    /\ pc[t] \in {"tls", "lock"} => Taken(Len(frames)) = 0

Framed ==
  (linked /\ Fits) =>
    /\ InSequence(plain, FrameLens)
    /\ \A t \in Threads : InHand(t)
    /\ (\A t \in Threads : pc[t] \notin {"tls", "lock", "ssl"}) => EndsWith(plain, FrameLens, Len(frames))

\* Frames, plaintext and who has a frame in hand stay as they are.
LEMMA SameFrames ==
  ASSUME Framed, linked' => linked, UNCHANGED <<lib, frames, plain>>,
         ~linked' \/ \A u \in Threads : (pc'[u] \in {"tls", "lock", "ssl"} <=> pc[u] \in {"tls", "lock", "ssl"}) /\ (pc'[u] \in {"tls", "lock"} => pc[u] \in {"tls", "lock"})
  PROVE  Framed'
<1> SUFFICES ASSUME linked', Fits'
             PROVE  /\ InSequence(plain', FrameLens')
                    /\ \A t \in Threads : InHand(t)'
                    /\ (\A t \in Threads : pc'[t] \notin {"tls", "lock", "ssl"}) => EndsWith(plain', FrameLens', Len(frames'))
  BY DEF Framed
<1>1. Fits /\ FrameLens' = FrameLens /\ Taken(Len(frames))' = Taken(Len(frames)) /\ FrameLen(Len(frames))' = FrameLen(Len(frames))
  BY DEF Fits, FrameLens, FrameLen, Taken
<1>2. /\ InSequence(plain, FrameLens)
      /\ \A t \in Threads : InHand(t)
      /\ (\A t \in Threads : pc[t] \notin {"tls", "lock", "ssl"}) => EndsWith(plain, FrameLens, Len(frames))
  BY <1>1 DEF Framed
<1>3. \A t \in Threads : InHand(t)'
  BY <1>1, <1>2 DEF InHand, Reaches, EndsWith
<1> QED
  BY <1>1, <1>2, <1>3

LensAre ==
  /\ \A f \in 1 .. Len(frames) : FrameLen(f) \in Nat \ {0}
  /\ FrameLens \in Seq(Nat) /\ Len(FrameLens) = Len(frames)
  /\ \A f \in 1 .. Len(frames) : FrameLens[f] = FrameLen(f)

LEMMA LensNow == TypeOK => LensAre
BY FrameLenIs DEF LensAre

LEMMA LensNext == TypeOK' => LensAre'
BY LensNow, PTL

LEMMA SendFrameFramed == ASSUME Base, Framed, NEW t \in Threads, SendFrame(t) PROVE Framed'
<1>0. PICK n \in Nat : n = Len(frames)
  BY DEF Base, TypeOK
<1> SUFFICES ASSUME linked', Fits'
             PROVE  /\ InSequence(plain', FrameLens')
                    /\ \A u \in Threads : InHand(u)'
                    /\ (\A u \in Threads : pc'[u] \notin {"tls", "lock", "ssl"}) => EndsWith(plain', FrameLens', Len(frames'))
  BY DEF Framed
<1>1. /\ TypeOK /\ TypeOK' /\ Holding /\ plain \in Seq(Pairs) /\ Len(frames) \in Nat
      /\ \A u \in Threads : Nobody # u /\ LocksOf(u)
  <2>1. Base'
    BY SendFrameBase
  <2>2. TypeOK'
    BY <2>1 DEF Base
  <2>3. plain \in Seq(Pairs) /\ Len(frames) \in Nat
    BY DEF Base, TypeOK
  <2> QED
    BY <2>2, <2>3, SendAssumption DEF Base, Holding
<1>2. /\ sendMutex = Nobody /\ pc' = [pc EXCEPT ![t] = "tls"] /\ frames' = Append(frames, size[t])
      /\ plain' = plain /\ lib' = lib /\ linked' = linked
  BY DEF SendFrame, Move, linkVars
<1>3. Len(frames') = n + 1 /\ \A f \in 1 .. n : frames'[f] = frames[f]
  BY <1>0, <1>1, <1>2 DEF TypeOK
<1>4. LensAre /\ LensAre'
  BY <1>1, LensNow, LensNext
<1>5. /\ FrameLens \in Seq(Nat) /\ Len(FrameLens) = n /\ FrameLens' \in Seq(Nat) /\ Len(FrameLens') = n + 1
      /\ FrameLen(n + 1)' \in Nat \ {0}
  <2>1. n + 1 \in 1 .. Len(frames')
    BY <1>0, <1>1, <1>3
  <2>2. \A f \in 1 .. Len(frames') : FrameLen(f)' \in Nat \ {0}
    BY <1>4 DEF LensAre
  <2>3. FrameLen(n + 1)' \in Nat \ {0}
    BY <2>1, <2>2 DEF FrameLen
  <2> QED
    BY <1>0, <1>3, <1>4, <2>3 DEF LensAre
<1>6. \A f \in 1 .. n : FrameLen(f)' = FrameLen(f)
  BY <1>3 DEF FrameLen
<1>7. \A f \in 1 .. Len(FrameLens) : FrameLens'[f] = FrameLens[f]
  <2> SUFFICES ASSUME NEW f \in 1 .. n PROVE FrameLens'[f] = FrameLens[f]
    BY <1>5
  <2>1. f \in 1 .. Len(frames')
    BY <1>0, <1>1, <1>3
  <2>2. FrameLens'[f] = FrameLen(f)'
    BY <2>1 DEF FrameLens, FrameLen
  <2> QED
    BY <1>0, <1>6, <2>2 DEF FrameLens
<1>8. Fits
  <2>1. \A f \in 1 .. n : f \in 1 .. Len(frames')
    BY <1>0, <1>1, <1>3
  <2> QED
    BY <1>0, <1>2, <1>6, <2>1 DEF Fits
<1>9. \A u \in Threads : pc[u] \notin {"tls", "lock", "ssl"}
  BY <1>1, <1>2 DEF LocksOf
<1>10. InSequence(plain, FrameLens) /\ EndsWith(plain, FrameLens, n)
  BY <1>0, <1>2, <1>8, <1>9 DEF Framed
<1>11. InSequence(plain, FrameLens') /\ EndsWith(plain, FrameLens', n)
  <2>1. n \in 0 .. Len(FrameLens) /\ Len(FrameLens') >= Len(FrameLens)
    BY <1>1, <1>5
  <2> QED
    BY <1>1, <1>5, <1>7, <1>10, <2>1, InSequenceGrows
<1>12. Taken(n + 1)' = 0
  <2>1. plain # <<>> => plain[Len(plain)][1] # n + 1
    BY <1>0, <1>1, <1>10 DEF EndsWith
  <2> QED
    BY <1>2, <2>1 DEF Taken
<1>13. InHand(t)'
  <2>1. Taken(Len(frames))' = 0 /\ FrameLen(Len(frames))' \in Nat \ {0}
    BY <1>3, <1>5, <1>12 DEF Taken, FrameLen
  <2>2. Reaches(plain, FrameLens', n + 1, 0)
    <3>1. (n + 1) - 1 = n
      BY <1>1
    <3> QED
      BY <1>11, <3>1 DEF Reaches
  <2>3. Reaches(plain, FrameLens, Len(frames), Taken(Len(frames)))'
    BY <1>2, <1>3, <2>1, <2>2 DEF Reaches, EndsWith
  <2>4. Taken(Len(frames))' < FrameLen(Len(frames))'
    BY <2>1
  <2> QED
    BY <2>1, <2>3, <2>4 DEF InHand
<1>14. pc'[t] = "tls" /\ \A u \in Threads : u # t => pc'[u] = pc[u]
  BY <1>1, <1>2 DEF TypeOK
<1>15. \A u \in Threads : u # t => InHand(u)'
  BY <1>9, <1>14 DEF InHand
<1> QED
  BY <1>2, <1>11, <1>13, <1>14, <1>15

LEMMA TlsSendFramed == ASSUME Base, Framed, NEW t \in Threads, TlsSend(t) \/ TlsLock(t) PROVE Framed'
<1> DEFINE f == Len(frames)
<1>1. TypeOK /\ Holding /\ plain \in Seq(Pairs) /\ LensAre /\ \A u \in Threads : LocksOf(u)
  BY LensNow DEF Base, Holding, TypeOK
<1>2. /\ pc[t] \in {"tls", "lock"} /\ mine[t] = f /\ f \in 1 .. Len(frames) /\ sendMutex = t
      /\ lib' = lib /\ frames' = frames /\ linked' = linked
  BY TlsSendDoes DEF linkVars
<1>3. CASE ~linked /\ Gone(t) /\ Unlocked(t) /\ UNCHANGED <<records, plain, bio>>
  BY <1>2, <1>3 DEF Framed
<1>4. ASSUME NEW x \in {"lock", "ssl"}, pc' = [pc EXCEPT ![t] = x], UNCHANGED <<records, plain, mine, bio, sendMutex, size>>
      PROVE  Framed'
  <2>1. \A u \in Threads : (pc'[u] \in {"tls", "lock", "ssl"} <=> pc[u] \in {"tls", "lock", "ssl"}) /\ (pc'[u] \in {"tls", "lock"} => pc[u] \in {"tls", "lock"})
    BY <1>1, <1>2, <1>4 DEF TypeOK
  <2> QED
    BY <1>2, <1>4, <2>1, SameFrames
<1>5. ASSUME lib # "openssl", pc' = [pc EXCEPT ![t] = "write"], NEW p \in Seq(Pairs), Made(t, p),
             p = IF lib = "none" THEN Whole(mine[t]) ELSE Fragment(mine[t])
      PROVE  Framed'
  <2> SUFFICES ASSUME linked', Fits'
               PROVE  /\ InSequence(plain', FrameLens')
                      /\ \A u \in Threads : InHand(u)'
                      /\ EndsWith(plain', FrameLens', Len(frames'))
    BY DEF Framed
  <2>1. Fits /\ FrameLens' = FrameLens
    BY <1>2 DEF Fits, FrameLens, FrameLen
  <2>2. InSequence(plain, FrameLens) /\ Taken(f) = 0 /\ Reaches(plain, FrameLens, f, 0)
    BY <1>2, <2>1 DEF Framed, InHand
  <2>3. FrameLen(f) \in Nat \ {0} /\ FrameLens \in Seq(Nat) /\ f \in 1 .. Len(FrameLens) /\ FrameLens[f] = FrameLen(f)
    BY <1>1, <1>2 DEF LensAre
  <2>4. p = Run(f, 0, FrameLen(f))
    <3>1. Whole(f) = Run(f, 0, FrameLen(f)) /\ Fragment(f) = Run(f, Taken(f), Min2(FrameLen(f) - Taken(f), RecordLen))
      BY <1>1, <1>2, FragmentIs
    <3>2. CASE lib = "none"
      BY <1>2, <1>5, <3>1, <3>2
    <3>3. CASE lib # "none"
      <4>1. FrameLen(f) <= RecordLen /\ RecordLen \in Nat
        BY <1>2, <1>5, <2>1, <3>3, SendAssumption DEF Fits
      <4>2. Min2(FrameLen(f) - Taken(f), RecordLen) = FrameLen(f)
        BY <2>2, <2>3, <4>1 DEF Min2
      <4> QED
        BY <1>2, <1>5, <2>2, <3>1, <3>3, <4>2
    <3> QED
      BY <3>2, <3>3
  <2>5. plain' = plain \o Run(f, 0, FrameLen(f))
    BY <1>5, <2>4 DEF Made
  <2>6. 0 \in Nat /\ FrameLen(f) \in Nat /\ 0 + FrameLen(f) <= FrameLens[f] /\ 0 + FrameLen(f) = FrameLens[f] /\ FrameLen(f) > 0
    BY <2>3
  <2>7. InSequence(plain', FrameLens) /\ EndsWith(plain', FrameLens, f)
    BY <1>1, <2>2, <2>3, <2>5, <2>6, InSequenceExtends
  <2>8. \A u \in Threads : pc'[u] \notin {"tls", "lock", "ssl"}
    BY <1>1, <1>2, <1>5 DEF LocksOf, TypeOK
  <2> QED
    BY <1>2, <2>1, <2>7, <2>8 DEF InHand
<1> QED
  BY <1>3, <1>4, <1>5, TlsSendDoes

LEMMA SslWriteFramed == ASSUME Base, Framed, NEW t \in Threads, SslWrite(t) PROVE Framed'
<1>0. PICK f \in Nat : f = Len(frames)
  BY DEF Base, TypeOK
<1>1. TypeOK /\ Holding /\ plain \in Seq(Pairs) /\ LensAre /\ \A u \in Threads : LocksOf(u)
  BY LensNow DEF Base, Holding, TypeOK
<1>2. /\ pc[t] = "ssl" /\ mine[t] = f /\ f \in 1 .. Len(frames) /\ sendMutex = t
      /\ lib' = lib /\ frames' = frames /\ linked' = linked
      /\ pc' = [pc EXCEPT ![t] = IF Taken(f) + Len(Fragment(f)) = FrameLen(f) THEN "flush" ELSE "ssl"]
  BY <1>0, SslWriteDoes DEF linkVars
<1>3. plain' = plain \o Fragment(f)
  BY <1>2, SslWriteDoes DEF Made
<1>4. FrameLen(f) \in Nat \ {0} /\ FrameLens \in Seq(Nat) /\ f \in 1 .. Len(FrameLens) /\ FrameLens[f] = FrameLen(f)
  BY <1>1, <1>2 DEF LensAre
<1> SUFFICES ASSUME linked', Fits'
             PROVE  /\ InSequence(plain', FrameLens')
                    /\ \A u \in Threads : InHand(u)'
                    /\ (\A u \in Threads : pc'[u] \notin {"tls", "lock", "ssl"}) => EndsWith(plain', FrameLens', Len(frames'))
  BY DEF Framed
<1>5. Fits /\ FrameLens' = FrameLens /\ FrameLen(f)' = FrameLen(f)
  BY <1>2 DEF Fits, FrameLens, FrameLen
<1>6. InSequence(plain, FrameLens) /\ Taken(f) < FrameLen(f) /\ Reaches(plain, FrameLens, f, Taken(f))
  BY <1>0, <1>2, <1>5 DEF Framed, InHand
<1>7. PICK a \in Nat : a = Taken(f)
  BY <1>1, <1>2, FragmentIs
<1>8. PICK m \in Nat : m = Min2(FrameLen(f) - a, RecordLen) /\ m > 0 /\ a + m <= FrameLen(f)
  <2>1. RecordLen \in Nat \ {0} /\ a < FrameLen(f)
    BY <1>6, <1>7, SendAssumption
  <2> QED
    BY <1>4, <2>1 DEF Min2
<1>9. Fragment(f) = Run(f, a, m) /\ Len(Fragment(f)) = m
  <2>1. Fragment(f) = Run(f, a, m)
    BY <1>1, <1>2, <1>7, <1>8, FragmentIs
  <2>2. Len(Run(f, a, m)) = m
    <3>1. m \in Int /\ ~(m < 0)
      OBVIOUS
    <3> QED
      BY <3>1, RunIs
  <2> QED
    BY <2>1, <2>2
<1>10. /\ InSequence(plain', FrameLens) /\ Reaches(plain', FrameLens, f, a + m)
       /\ a + m = FrameLen(f) => EndsWith(plain', FrameLens, f)
  <2>1. plain' = plain \o Run(f, a, m) /\ a + m <= FrameLens[f] /\ Reaches(plain, FrameLens, f, a)
    BY <1>3, <1>4, <1>6, <1>7, <1>8, <1>9
  <2> QED
    BY <1>1, <1>4, <1>6, <1>8, <2>1, InSequenceExtends
<1>11. \A u \in Threads : u # t => pc'[u] \notin {"tls", "lock", "ssl"}
  BY <1>1, <1>2 DEF LocksOf, TypeOK
<1>12. pc'[t] = IF a + m = FrameLen(f) THEN "flush" ELSE "ssl"
  BY <1>1, <1>2, <1>7, <1>9 DEF TypeOK
<1>13. CASE a + m = FrameLen(f)
  BY <1>0, <1>2, <1>5, <1>10, <1>11, <1>12, <1>13 DEF InHand
<1>14. CASE a + m # FrameLen(f)
  <2>1. a + m # 0 /\ a + m < FrameLen(f)
    BY <1>4, <1>8, <1>14, SMTT(40)
  <2>2. plain' # <<>> /\ plain'[Len(plain')] = <<f, a + m>>
    BY <1>10, <2>1 DEF Reaches
  <2>3. Taken(f)' = a + m
    BY <2>2 DEF Taken
  <2>4. Taken(Len(frames))' = a + m /\ FrameLen(Len(frames))' = FrameLen(f)
    BY <1>0, <1>2, <2>3 DEF Taken, FrameLen
  <2>5. Reaches(plain, FrameLens, Len(frames), Taken(Len(frames)))'
    BY <1>0, <1>2, <1>5, <1>10, <2>4 DEF Reaches, EndsWith
  <2>6. pc'[t] = "ssl"
    BY <1>12, <1>14
  <2>7. InHand(t)'
    BY <2>1, <2>4, <2>5, <2>6 DEF InHand
  <2>8. \A u \in Threads : u # t => InHand(u)'
    BY <1>11 DEF InHand
  <2> QED
    BY <1>5, <1>10, <2>6, <2>7, <2>8
<1> QED
  BY <1>13, <1>14

\* Whoever has no frame in hand does not come by one, and the plaintext is as it was.
LEMMA NoFrame ==
  ASSUME Base, Framed, NEW t \in Threads, pc[t] \notin {"tls", "lock", "ssl"}, NEW x, x \notin {"tls", "lock", "ssl"}, pc' = [pc EXCEPT ![t] = x],
         linked' => linked, UNCHANGED <<lib, frames, plain>>
  PROVE  Framed'
<1>1. \A u \in Threads : (pc'[u] \in {"tls", "lock", "ssl"} <=> pc[u] \in {"tls", "lock", "ssl"}) /\ (pc'[u] \in {"tls", "lock"} => pc[u] \in {"tls", "lock"})
  BY DEF Base, TypeOK
<1> QED
  BY <1>1, SameFrames

LEMMA EarlyFramed ==
  ASSUME Base, Framed, NEW t \in Threads, (\E n \in Sizes : Send(t, n)) \/ Outgoing(t) \/ WsSend(t) \/ (t = Worker /\ (Control \/ IdlePing))
  PROVE  Framed'
<1>1. pc[t] \notin {"tls", "lock", "ssl"} /\ UNCHANGED <<lib, frames, plain>> /\ linked' = linked
  BY DEF Send, Outgoing, WsSend, Control, IdlePing, linkVars, tlsVars
<1>2. PICK x \in {"idle", "call", "opened", "use", "frame", "crashed"} : pc' = [pc EXCEPT ![t] = x]
  BY DEF Send, Outgoing, WsSend, Control, IdlePing, Throw, Gone, Move
<1> QED
  BY <1>1, <1>2, NoFrame

LEMMA LateFramed ==
  ASSUME Base, Framed, NEW t \in Threads, Flush(t) \/ WriteCallback(t)
  PROVE  Framed'
<1>1. pc[t] \notin {"tls", "lock", "ssl"} /\ UNCHANGED <<lib, frames, plain>> /\ linked' = linked
  BY DEF Flush, WriteCallback, linkVars
<1>2. pc' = [pc EXCEPT ![t] = "idle"] \/ pc' = pc
  BY DEF Flush, WriteCallback, Return, Throw, Gone, Move
<1>3. pc' = pc => pc' = [pc EXCEPT ![t] = pc[t]]
  BY DEF Base, TypeOK
<1>4. PICK x \in {"idle", pc[t]} : pc' = [pc EXCEPT ![t] = x]
  BY <1>2, <1>3
<1> QED
  BY <1>1, <1>4, NoFrame

LEMMA WorkerFramed == ASSUME Base, Framed, LibrarySends \/ Shutdown PROVE Framed'
<1>1. Worker \in Threads /\ pc[Worker] \notin {"tls", "lock", "ssl"} /\ lib' = lib /\ frames' = frames /\ (linked' => linked)
  BY DEF LibrarySends, Shutdown, Threads, linkVars
<1>2. plain' = plain
  <2>1. plain' = plain \o <<>> /\ plain \in Seq(Pairs)
    BY DEF LibrarySends, Shutdown, Made, Base, TypeOK
  <2> QED
    BY <2>1, ConcatEmptySeq
<1>3. (\E x \in {"flush", "write"} : pc' = [pc EXCEPT ![Worker] = x]) \/ (pc' = pc /\ pc[Worker] = "idle")
  BY DEF LibrarySends, Shutdown, Move
<1>4. pc' = pc /\ pc[Worker] = "idle" => pc' = [pc EXCEPT ![Worker] = "idle"]
  BY <1>1 DEF Base, TypeOK
<1>5. PICK x \in {"flush", "write", "idle"} : pc' = [pc EXCEPT ![Worker] = x]
  BY <1>3, <1>4
<1> QED
  BY <1>1, <1>2, <1>5, NoFrame

LEMMA FramedStep == ASSUME Base, Framed, [Next]_vars PROVE Framed'
<1>1. ASSUME NEW t \in Senders, NEW n \in Sizes, Send(t, n) PROVE Framed'
  <2>1. t \in Threads /\ \E k \in Sizes : Send(t, k)
    BY <1>1 DEF Threads
  <2> QED
    BY <2>1, EarlyFramed
<1>2. ASSUME NEW t \in Threads, Step(t) PROVE Framed'
  BY <1>2, EarlyFramed, SendFrameFramed, TlsSendFramed, SslWriteFramed, LateFramed DEF Step
<1>3. CASE Control \/ IdlePing
  BY <1>3, EarlyFramed DEF Threads
<1>4. CASE LibrarySends \/ Shutdown
  BY <1>4, WorkerFramed
<1>5. CASE Lost \/ CloseTransports \/ UNCHANGED vars
  <2>1. UNCHANGED <<lib, frames, plain, pc>>
    BY <1>5 DEF Lost, CloseTransports, vars, tlsVars
  <2>2. linked' => linked
    BY <1>5 DEF Lost, CloseTransports, vars, linkVars
  <2> QED
    BY <2>1, <2>2, SameFrames
<1>6. CASE Release
  BY <1>6 DEF Release, Framed
<1> QED
  BY <1>1, <1>2, <1>3, <1>4, <1>5, <1>6 DEF Next

-----------------------------------------------------------------------------

Inv == Base /\ Handed /\ Emptied /\ Framed

LEMMA InitInv == Init => Inv
<1> SUFFICES ASSUME Init PROVE Inv
  OBVIOUS
<1>1. plain = <<>> /\ bio = <<>> /\ Len(records) = 0 /\ Len(plain) = 0 /\ Len(frames) = 0
  BY DEF Init
<1>2. InSequence(plain, FrameLens) /\ EndsWith(plain, FrameLens, Len(frames))
  BY <1>1 DEF InSequence, EndsWith
<1>3. \A t \in Threads : pc[t] = "idle"
  BY DEF Init
<1>4. Framed
  BY <1>2, <1>3 DEF Framed, InHand
<1>5. Handed /\ Emptied
  BY <1>1 DEF Handed, Emptied
<1> QED
  BY <1>4, <1>5, InitBase DEF Inv

LEMMA InvStep == Inv /\ [Next]_vars => Inv'
<1> SUFFICES ASSUME Inv, [Next]_vars PROVE Inv'
  OBVIOUS
<1>1. Base /\ Handed /\ Emptied /\ Framed
  BY DEF Inv
<1>2. Base'
  BY <1>1, BaseStep
<1>3. Handed' /\ Emptied'
  BY <1>1, HandedStep
<1>4. Framed'
  BY <1>1, FramedStep
<1> QED
  BY <1>2, <1>3, <1>4 DEF Inv

LEMMA InvAllIsSent == Inv => AllIsSent
<1> SUFFICES ASSUME Inv PROVE AllIsSent
  OBVIOUS
<1>1. frames \in Seq(0 .. MaxMessageSize)
  BY DEF Inv, Base, TypeOK
<1>2. ASSUME AtRest, Fits PROVE Complete
  <2>1. linked /\ up /\ \A t \in Threads : pc[t] \notin {"tls", "lock", "ssl", "flush", "write"}
    BY <1>2 DEF AtRest
  <2>2. bio = <<>>
    BY <1>2, <2>1 DEF Inv, Base, Holding, Emptied
  <2>3. ASSUME NEW n \in 1 .. Len(records), NEW j \in 1 .. records[n] PROVE IsIn(<<n, j>>, wire)
    <3>1. IsIn(<<n, j>>, wire) \/ IsIn(<<n, j>>, bio) \/ \E t \in Threads : pc[t] = "write" /\ mine[t] = n
      BY <1>2, <2>1 DEF Inv, Handed
    <3>2. ~IsIn(<<n, j>>, bio)
      BY <2>2 DEF IsIn
    <3> QED
      BY <2>1, <3>1, <3>2
  <2>4. InSequence(plain, FrameLens) /\ EndsWith(plain, FrameLens, Len(frames))
    BY <1>2, <2>1 DEF Inv, Framed
  <2> QED
    BY <2>2, <2>3, <2>4 DEF IsIn, Complete
<1> QED
  BY <1>1, <1>2 DEF AllIsSent

\* With no thread in send() and the connection standing, TCP has every byte of every
\* record, and the records have all of every frame as long as every frame fits into
\* what one call of the library takes (all do with OpenSSL: SSL_write() takes the
\* message record by record; with GnuTLS and Mbed TLS those of at most RecordLen
\* bytes).  flushOutput() goes on until mOutBio is empty, and nothing that another
\* thread or the worker adds is left behind.
THEOREM EverythingSent == Spec => []AllIsSent
<1> QED
  BY InitInv, InvStep, InvAllIsSent, PTL DEF Spec

=============================================================================
