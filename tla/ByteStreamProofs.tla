-------------------------- MODULE ByteStreamProofs --------------------------
(***************************************************************************)
(* The two directions of a connection, for packets of every length, cut    *)
(* into pieces anywhere. The invariants say of the bytes under way that    *)
(* they are a piece of the stream of packets, and where it starts and      *)
(* ends; a step of a loop then only moves a boundary within that piece.    *)
(***************************************************************************)
EXTENDS ByteStream, FiniteSetTheorems, SequenceTheorems, TLAPS

Byte == [n : Nat \ {0}, at : Nat \ {0}, of : Packet]

\* s is a piece of the stream of the packets P: of each packet what is there
\* is in one piece, and the next packet follows.
Chain(s, P) ==
  /\ s \in Seq(Byte)
  /\ \A j \in DOMAIN s :
       /\ s[j].n \in DOMAIN P /\ s[j].of = P[s[j].n] /\ s[j].at <= Size(s[j].of)
       /\ j + 1 \in DOMAIN s => Follows(s[j + 1], s[j])
       /\ \A i \in DOMAIN s : j <= i /\ s[j].at + (i - j) <= Size(s[j].of) =>
            s[i].n = s[j].n /\ s[i].at = s[j].at + (i - j)

StartsAt(s, k, a) == s[1].n = k /\ s[1].at = a
EndsWith(s, k) == s[Len(s)].n = k /\ s[Len(s)].at = Size(s[Len(s)].of)

-----------------------------------------------------------------------------
\* The packets as they are written, those the write task has received, and the
\* bytes of them that have not been lost.
Written == [k \in DOMAIN queued |-> Outgoing(queued[k])]
Begun == Len(queued) - Len(channel)
OutBytes == (received \o held) \o writing

WriteInv ==
  /\ queued \in Seq(Requests) /\ channel \in Seq(Requests) /\ Len(channel) <= Len(queued)
  /\ writer \in {"recv", "write", "ended"} /\ (writer = "write" <=> writing # <<>>)
  /\ transport \in Transports /\ (held # <<>> => transport = "tls")
  /\ held \in Seq(Byte) /\ writing \in Seq(Byte)
  /\ writer # "ended" => \A j \in DOMAIN channel : channel[j] = queued[Begun + j]
  /\ Chain(received, Written)
  /\ received # <<>> => StartsAt(received, 1, 1)
  /\ open /\ writer # "ended" =>
       /\ Chain(OutBytes, Written)
       /\ OutBytes = <<>> <=> Begun = 0
       /\ OutBytes # <<>> => StartsAt(OutBytes, 1, 1) /\ EndsWith(OutBytes, Begun)

-----------------------------------------------------------------------------
\* How many of the server's packets come before the first that does not decode,
\* and whether the packets handed over are still to be those: a header that does
\* not decode has not been reached.
Leading == Cardinality(InStep)
Promised == Len(delivered) < Leading \/ Leading = Len(sent)

\* The packets of which the header was read, and the bytes still to be read.
Entered == IF reader = "body" THEN Len(delivered) + 1 ELSE Len(delivered)
InBytes == buffer \o wire

\* The read loop is where the server's stream says: before a header, or before
\* the body of the header it has.
Synced ==
  /\ Len(delivered) <= Leading
  /\ reader = "body" => Entered \in DOMAIN sent /\ header = sent[Entered]
  /\ reader # "ended" =>
       /\ Chain(InBytes, sent)
       /\ InBytes # <<>> =>
            /\ reader # "body" \/ header.length = 0 => StartsAt(InBytes, Entered + 1, 1)
            /\ reader = "body" /\ header.length > 0 => StartsAt(InBytes, Entered, HeaderLen + 1)
            /\ open => EndsWith(InBytes, Len(sent))
       /\ InBytes = <<>> /\ open =>
            Entered = Len(sent) /\ (reader = "body" => header.length = 0)

ReadInv ==
  /\ open \in BOOLEAN
  /\ sent \in Seq(Replies) /\ delivered \in Seq(Packet) /\ header \in Packet
  /\ wire \in Seq(Byte) /\ buffer \in Seq(Byte) /\ Len(buffer) <= Wanted
  /\ reader \in {"header", "body", "handing", "ended"} /\ (reader = "handing" => buffer = <<>>)
  /\ Leading \in 0 .. Len(sent) /\ InStep = 1 .. Leading
  /\ Promised => Synced

-----------------------------------------------------------------------------
(***************************************************************************)
(* Cutting and joining pieces of a stream.                                 *)
(***************************************************************************)
LEMMA TakeDrop ==
  ASSUME NEW S, NEW s \in Seq(S), NEW k \in 0 .. Len(s)
  PROVE  /\ Take(s, k) \in Seq(S) /\ Len(Take(s, k)) = k
         /\ \A j \in 1 .. k : Take(s, k)[j] = s[j]
         /\ Drop(s, k) \in Seq(S) /\ Len(Drop(s, k)) = Len(s) - k
         /\ \A j \in 1 .. Len(s) - k : Drop(s, k)[j] = s[j + k]
         /\ Take(s, k) \o Drop(s, k) = s
<1>1. /\ Len(s) \in Nat /\ k \in Int /\ k + 1 \in Int /\ 1 \in Int /\ Len(s) \in Int
      /\ \A j \in 1 .. k : s[j] \in S
      /\ \A j \in k + 1 .. Len(s) : s[j] \in S
  OBVIOUS
<1>2. /\ Take(s, k) \in Seq(S)
      /\ Len(Take(s, k)) = IF 1 <= k THEN k - 1 + 1 ELSE 0
      /\ \A j \in 1 .. k - 1 + 1 : Take(s, k)[j] = s[1 + j - 1]
  BY <1>1, SubSeqProperties DEF Take
<1>3. /\ Drop(s, k) \in Seq(S)
      /\ Len(Drop(s, k)) = IF k + 1 <= Len(s) THEN Len(s) - (k + 1) + 1 ELSE 0
      /\ \A j \in 1 .. Len(s) - (k + 1) + 1 : Drop(s, k)[j] = s[(k + 1) + j - 1]
  BY <1>1, SubSeqProperties DEF Drop
<1>4. Take(s, k) \o Drop(s, k) = s
  <2>1. 1 \in 1 .. Len(s) + 1 /\ k \in 1 - 1 .. Len(s) /\ Len(s) \in k .. Len(s)
    BY <1>1
  <2> QED BY <2>1, ConcatAdjacentSubSeq, SubSeqFull DEF Take, Drop
<1>5. ASSUME NEW j \in 1 .. k PROVE Take(s, k)[j] = s[j]
  <2>1. j \in 1 .. k - 1 + 1 /\ 1 + j - 1 = j
    BY <1>1
  <2> QED BY <1>2, <2>1
<1>6. ASSUME NEW j \in 1 .. Len(s) - k PROVE Drop(s, k)[j] = s[j + k]
  <2>1. j \in 1 .. Len(s) - (k + 1) + 1 /\ (k + 1) + j - 1 = j + k
    BY <1>1
  <2> QED BY <1>3, <2>1
<1>7. Len(Take(s, k)) = k /\ Len(Drop(s, k)) = Len(s) - k
  BY <1>1, <1>2, <1>3
<1> QED BY <1>2, <1>3, <1>4, <1>5, <1>6, <1>7

LEMMA ChainMore ==
  ASSUME NEW s, NEW P, NEW Q, Chain(s, P), \A k \in DOMAIN P : k \in DOMAIN Q /\ Q[k] = P[k]
  PROVE  Chain(s, Q)
BY DEF Chain

LEMMA ChainPiece ==
  ASSUME NEW s, NEW P, Chain(s, P), NEW k \in Nat, NEW t \in Seq(Byte),
         \A j \in DOMAIN t : j + k \in DOMAIN s /\ t[j] = s[j + k]
  PROVE  Chain(t, P)
<1> SUFFICES ASSUME NEW j \in DOMAIN t
             PROVE  /\ t[j].n \in DOMAIN P /\ t[j].of = P[t[j].n] /\ t[j].at <= Size(t[j].of)
                    /\ j + 1 \in DOMAIN t => Follows(t[j + 1], t[j])
                    /\ \A i \in DOMAIN t : j <= i /\ t[j].at + (i - j) <= Size(t[j].of) =>
                         t[i].n = t[j].n /\ t[i].at = t[j].at + (i - j)
  BY DEF Chain
<1>1. PICK m : m = j + k
  OBVIOUS
<1>2. m \in DOMAIN s /\ t[j] = s[m] /\ j \in Nat /\ m \in Nat
  BY <1>1
<1>3. /\ s[m].n \in DOMAIN P /\ s[m].of = P[s[m].n] /\ s[m].at <= Size(s[m].of)
      /\ m + 1 \in DOMAIN s => Follows(s[m + 1], s[m])
      /\ \A i \in DOMAIN s : m <= i /\ s[m].at + (i - m) <= Size(s[m].of) =>
           s[i].n = s[m].n /\ s[i].at = s[m].at + (i - m)
  BY <1>2 DEF Chain
<1>4. j + 1 \in DOMAIN t => Follows(t[j + 1], t[j])
  <2>1. j + 1 \in DOMAIN t => (j + 1) + k \in DOMAIN s /\ t[j + 1] = s[(j + 1) + k]
    OBVIOUS
  <2>2. (j + 1) + k = m + 1
    BY <1>1, <1>2
  <2> QED BY <1>2, <1>3, <2>1, <2>2
<1>5. ASSUME NEW i \in DOMAIN t, j <= i, t[j].at + (i - j) <= Size(t[j].of)
      PROVE  t[i].n = t[j].n /\ t[i].at = t[j].at + (i - j)
  <2>1. PICK l : l = i + k
    OBVIOUS
  <2>2. l \in DOMAIN s /\ t[i] = s[l] /\ l - m = i - j /\ m <= l
    BY <1>1, <1>2, <1>5, <2>1
  <2> QED BY <1>2, <1>3, <1>5, <2>2
<1> QED BY <1>2, <1>3, <1>4, <1>5

LEMMA BytesChain ==
  ASSUME NEW P, NEW k \in Nat \ {0}, k \in DOMAIN P, P[k] \in Packet
  PROVE  /\ Chain(Bytes(P[k], k), P) /\ Bytes(P[k], k) # <<>>
         /\ StartsAt(Bytes(P[k], k), k, 1) /\ EndsWith(Bytes(P[k], k), k)
<1> DEFINE z == Size(P[k])
           s == Bytes(P[k], k)
<1>1. z \in Nat /\ z >= 1
  BY ByteStreamAssumption DEF ByteStreamAssumption, Packet, Size
<1>2. /\ s \in Seq(Byte) /\ Len(s) = z /\ DOMAIN s = 1 .. z
      /\ \A j \in 1 .. z : s[j] = [n |-> k, at |-> j, of |-> P[k]]
  <2>1. s = [j \in 1 .. z |-> [n |-> k, at |-> j, of |-> P[k]]]
    BY DEF Bytes
  <2>2. \A j \in 1 .. z : [n |-> k, at |-> j, of |-> P[k]] \in Byte
    BY <1>1 DEF Byte
  <2> HIDE DEF s, z
  <2> QED BY <1>1, <2>1, <2>2
<1> HIDE DEF s, z
<1>3. \A j \in 1 .. z : s[j].n = k /\ s[j].at = j /\ s[j].of = P[k] /\ Size(s[j].of) = z
  BY <1>2 DEF z
<1>4. ASSUME NEW j \in 1 .. z
      PROVE  j + 1 \in 1 .. z => Follows(s[j + 1], s[j])
  BY <1>1, <1>3 DEF Follows
<1>5. Chain(s, P)
  BY <1>1, <1>2, <1>3, <1>4 DEF Chain
<1>6. s # <<>> /\ 1 \in 1 .. z /\ z \in 1 .. z
  BY <1>1, <1>2
<1> QED BY <1>2, <1>3, <1>5, <1>6 DEF s, StartsAt, EndsWith

LEMMA ChainJoin ==
  ASSUME NEW s, NEW t, NEW P, Chain(s, P), Chain(t, P), s # <<>>, t # <<>>,
         NEW k \in Nat, EndsWith(s, k), StartsAt(t, k + 1, 1)
  PROVE  Chain(s \o t, P)
<1> DEFINE u == s \o t
           n == Len(s)
<1>1. /\ s \in Seq(Byte) /\ t \in Seq(Byte) /\ DOMAIN s = 1 .. n /\ DOMAIN t = 1 .. Len(t)
      /\ n \in Nat /\ n \in DOMAIN s /\ Len(t) \in Nat /\ 1 \in DOMAIN t
  BY DEF Chain
<1>2. /\ u \in Seq(Byte) /\ Len(u) = n + Len(t)
      /\ \A j \in 1 .. n + Len(t) : u[j] = IF j <= n THEN s[j] ELSE t[j - n]
  BY <1>1, ConcatProperties
<1>3. \A j \in DOMAIN s : s[j] \in Byte /\ s[j].at \in Nat /\ Size(s[j].of) \in Nat
  <2>1. \A j \in DOMAIN s : s[j] \in Byte
    BY <1>1
  <2> QED BY <2>1, ByteStreamAssumption DEF Byte, Packet, Size, ByteStreamAssumption
<1> HIDE DEF u
<1>4. DOMAIN u = 1 .. n + Len(t)
  BY <1>2
<1>5. ASSUME NEW j \in DOMAIN u
      PROVE  /\ j <= n => j \in DOMAIN s /\ u[j] = s[j]
             /\ j > n => j - n \in DOMAIN t /\ u[j] = t[j - n]
             /\ j \in Nat
  BY <1>1, <1>2, <1>4
<1> SUFFICES ASSUME NEW j \in DOMAIN u
             PROVE  /\ u[j].n \in DOMAIN P /\ u[j].of = P[u[j].n] /\ u[j].at <= Size(u[j].of)
                    /\ j + 1 \in DOMAIN u => Follows(u[j + 1], u[j])
                    /\ \A i \in DOMAIN u : j <= i /\ u[j].at + (i - j) <= Size(u[j].of) =>
                         u[i].n = u[j].n /\ u[i].at = u[j].at + (i - j)
  BY <1>2 DEF Chain, u
<1>6. CASE j <= n
  <2>1. /\ j \in DOMAIN s /\ u[j] = s[j]
        /\ s[j].n \in DOMAIN P /\ s[j].of = P[s[j].n] /\ s[j].at <= Size(s[j].of)
    BY <1>5, <1>6 DEF Chain
  <2>2. j + 1 \in DOMAIN u => Follows(u[j + 1], u[j])
    <3>1. CASE j < n
      <4>1. j + 1 \in DOMAIN s
        BY <1>1, <2>1, <3>1
      <4>2. Follows(s[j + 1], s[j])
        BY <2>1, <4>1 DEF Chain
      <4> QED BY <1>1, <1>5, <2>1, <4>1, <4>2
    <3>2. CASE j = n /\ j + 1 \in DOMAIN u
      <4>1. u[j + 1] = t[1] /\ s[j].n = k /\ s[j].at = Size(s[j].of)
        <5>1. (j + 1) - n = 1 /\ j + 1 > n
          BY <1>1, <3>2
        <5> QED BY <1>5, <3>2, <5>1 DEF EndsWith
      <4> QED BY <1>3, <2>1, <4>1 DEF Follows, StartsAt
    <3> QED BY <1>1, <1>5, <1>6, <3>1, <3>2
  <2>3. ASSUME NEW i \in DOMAIN u, j <= i, u[j].at + (i - j) <= Size(u[j].of)
        PROVE  u[i].n = u[j].n /\ u[i].at = u[j].at + (i - j)
    <3>1. CASE i <= n
      <4>1. i \in DOMAIN s /\ u[i] = s[i]
        BY <1>5, <3>1
      <4> QED BY <2>1, <2>3, <4>1 DEF Chain
    <3>2. CASE i > n
      <4>1. s[j].at + (n - j) <= Size(s[j].of) /\ s[j].at + (n - j) < Size(s[j].of)
        BY <1>1, <1>3, <1>5, <2>1, <2>3, <3>2
      <4>2. s[n].n = s[j].n /\ s[n].at = s[j].at + (n - j)
        BY <1>1, <1>6, <2>1, <4>1 DEF Chain
      <4>3. s[n].of = s[j].of
        BY <1>1, <2>1, <4>2 DEF Chain
      <4>4. s[n].at = Size(s[j].of)
        BY <4>3 DEF EndsWith
      <4> QED BY <1>1, <1>3, <2>1, <4>1, <4>2, <4>4
    <3> QED BY <1>1, <1>5, <3>1, <3>2
  <2> QED BY <2>1, <2>2, <2>3
<1>7. CASE j > n
  <2>1. PICK m : m = j - n
    OBVIOUS
  <2>2. /\ m \in DOMAIN t /\ u[j] = t[m] /\ m \in Nat /\ j = m + n
        /\ t[m].n \in DOMAIN P /\ t[m].of = P[t[m].n] /\ t[m].at <= Size(t[m].of)
    <3>1. m \in DOMAIN t /\ u[j] = t[m]
      BY <1>5, <1>7, <2>1
    <3>2. m \in Nat /\ j = m + n
      BY <1>1, <1>5, <2>1, <3>1
    <3> QED BY <3>1, <3>2 DEF Chain
  <2>3. j + 1 \in DOMAIN u => Follows(u[j + 1], u[j])
    <3>1. SUFFICES ASSUME j + 1 \in DOMAIN u PROVE Follows(u[j + 1], u[j])
      OBVIOUS
    <3>2. (j + 1) - n = m + 1 /\ j + 1 > n
      BY <1>1, <2>1, <2>2
    <3>3. m + 1 \in DOMAIN t /\ u[j + 1] = t[m + 1]
      BY <1>5, <3>1, <3>2
    <3> QED BY <2>2, <3>3 DEF Chain
  <2>4. ASSUME NEW i \in DOMAIN u, j <= i, u[j].at + (i - j) <= Size(u[j].of)
        PROVE  u[i].n = u[j].n /\ u[i].at = u[j].at + (i - j)
    <3>1. PICK l : l = i - n
      OBVIOUS
    <3>2. l \in DOMAIN t /\ u[i] = t[l] /\ l - m = i - j /\ m <= l
      BY <1>1, <1>5, <1>7, <2>1, <2>2, <2>4, <3>1
    <3> QED BY <2>2, <2>4, <3>2 DEF Chain
  <2> QED BY <2>2, <2>3, <2>4
<1> QED BY <1>1, <1>5, <1>6, <1>7

\* s \o t under a name of its own, for the steps in which only what is joined
\* with what matters.
Joined(s, t) == s \o t

LEMMA JoinedAssociative ==
  ASSUME NEW S, NEW a \in Seq(S), NEW b \in Seq(S), NEW c \in Seq(S)
  PROVE  Joined(a, b) \in Seq(S) /\ Joined(Joined(a, b), c) = Joined(a, Joined(b, c))
BY ConcatAssociative, ConcatProperties DEF Joined

\* Bytes that move on from w to h and from h to r stay in the same order.
LEMMA BytesMoveOn ==
  ASSUME NEW S, NEW r \in Seq(S), NEW h \in Seq(S), NEW w \in Seq(S), NEW k \in 0 .. Len(w),
         NEW u \in Seq(S), u = Joined(h, Take(w, k)), NEW n \in 0 .. Len(u)
  PROVE  Joined(Joined(Joined(r, Take(u, n)), Drop(u, n)), Drop(w, k)) = Joined(Joined(r, h), w)
<1>1. /\ Take(u, n) \in Seq(S) /\ Drop(u, n) \in Seq(S)
      /\ Joined(Take(u, n), Drop(u, n)) = Joined(h, Take(w, k))
  BY TakeDrop DEF Joined
<1>2. /\ Take(w, k) \in Seq(S) /\ Drop(w, k) \in Seq(S)
      /\ Joined(Take(w, k), Drop(w, k)) = w
  BY TakeDrop DEF Joined
<1> QED BY <1>1, <1>2, JoinedAssociative

\* The first part of a joined sequence is a piece of it, with the same start.
LEMMA FirstPart ==
  ASSUME NEW S, NEW s \in Seq(S), NEW t \in Seq(S)
  PROVE  /\ \A j \in DOMAIN s : j + 0 \in DOMAIN (s \o t) /\ s[j] = (s \o t)[j + 0]
         /\ s # <<>> => (s \o t)[1] = s[1] /\ s \o t # <<>>
<1>1. /\ s \o t \in Seq(S) /\ Len(s \o t) = Len(s) + Len(t)
      /\ \A j \in 1 .. Len(s) + Len(t) : (s \o t)[j] = IF j <= Len(s) THEN s[j] ELSE t[j - Len(s)]
  BY ConcatProperties
<1>2. Len(s) \in Nat /\ Len(t) \in Nat /\ DOMAIN s = 1 .. Len(s)
  OBVIOUS
<1>3. DOMAIN (s \o t) = 1 .. Len(s) + Len(t)
  BY <1>1
<1>4. ASSUME NEW j \in DOMAIN s PROVE j + 0 \in DOMAIN (s \o t) /\ s[j] = (s \o t)[j + 0]
  <2>1. j \in 1 .. Len(s) + Len(t) /\ j <= Len(s) /\ j + 0 = j
    BY <1>2
  <2> QED BY <1>1, <1>3, <2>1
<1>5. ASSUME s # <<>> PROVE (s \o t)[1] = s[1] /\ s \o t # <<>>
  <2>1. 1 \in 1 .. Len(s) + Len(t) /\ 1 <= Len(s)
    BY <1>2, <1>5
  <2>2. Len(s \o t) # 0
    BY <1>1, <1>2, <2>1
  <2> QED BY <1>1, <2>1, <2>2
<1> QED BY <1>4, <1>5

\* The last byte of a joined sequence is that of its second part.
LEMMA LastPart ==
  ASSUME NEW S, NEW s \in Seq(S), NEW t \in Seq(S), t # <<>>
  PROVE  (s \o t)[Len(s \o t)] = t[Len(t)] /\ s \o t # <<>>
<1>1. /\ s \o t \in Seq(S) /\ Len(s \o t) = Len(s) + Len(t)
      /\ \A j \in 1 .. Len(s) + Len(t) : (s \o t)[j] = IF j <= Len(s) THEN s[j] ELSE t[j - Len(s)]
  BY ConcatProperties
<1>2. PICK n : n = Len(s) + Len(t)
  OBVIOUS
<1>3. n \in 1 .. Len(s) + Len(t) /\ ~(n <= Len(s)) /\ n - Len(s) = Len(t) /\ n # 0
  BY <1>2
<1>4. (s \o t)[n] = t[Len(t)]
  BY <1>1, <1>3
<1> QED BY <1>1, <1>2, <1>3, <1>4

-----------------------------------------------------------------------------
(***************************************************************************)
(* What the write task sends.                                              *)
(***************************************************************************)
LEMMA OutgoingType == ASSUME NEW p \in Packet PROVE Outgoing(p) \in Packet /\ Incoming(p) \in Packet
BY ByteStreamAssumption DEF Outgoing, Incoming, Packet, ByteStreamAssumption

LEMMA WriteInit == Init => WriteInv
<1> SUFFICES ASSUME Init PROVE WriteInv
  OBVIOUS
<1>1. <<>> \in Seq(Byte) /\ <<>> \in Seq(Requests) /\ Len(<<>>) = 0
  OBVIOUS
<1>2. (<<>> \o <<>>) \o <<>> = <<>>
  BY <1>1, ConcatEmptySeq
<1>3. \A P : Chain(<<>>, P)
  BY <1>1 DEF Chain
<1> QED BY <1>1, <1>2, <1>3 DEF Init, WriteInv, OutBytes, Begun

LEMMA EnqueueKeeps == ASSUME WriteInv, NEW p \in Requests, Enqueue(p) PROVE WriteInv'
<1>1. /\ queued' = Append(queued, p) /\ channel' = Append(channel, p)
      /\ UNCHANGED <<transport, limit, writer, writing, held, received, open>>
  BY DEF Enqueue
<1>2. /\ queued \in Seq(Requests) /\ channel \in Seq(Requests) /\ Len(channel) <= Len(queued)
      /\ Len(queued) \in Nat /\ Len(channel) \in Nat
      /\ DOMAIN queued = 1 .. Len(queued) /\ DOMAIN channel = 1 .. Len(channel)
  BY DEF WriteInv
<1>3. /\ queued' \in Seq(Requests) /\ Len(queued') = Len(queued) + 1
      /\ \A j \in 1 .. Len(queued) : queued'[j] = queued[j]
      /\ queued'[Len(queued) + 1] = p /\ DOMAIN queued' = 1 .. Len(queued) + 1
  BY <1>1, <1>2, AppendProperties
<1>4. /\ channel' \in Seq(Requests) /\ Len(channel') = Len(channel) + 1
      /\ \A j \in 1 .. Len(channel) : channel'[j] = channel[j]
      /\ channel'[Len(channel) + 1] = p /\ DOMAIN channel' = 1 .. Len(channel) + 1
  BY <1>1, <1>2, AppendProperties
<1>5. Begun' = Begun /\ Begun \in Nat /\ OutBytes' = OutBytes
  BY <1>1, <1>2, <1>3, <1>4 DEF Begun, OutBytes
<1>6. ASSUME writer # "ended", NEW j \in DOMAIN channel' PROVE channel'[j] = queued'[Begun + j]
  <2>1. CASE j \in 1 .. Len(channel)
    <3>1. channel[j] = queued[Begun + j]
      BY <1>2, <1>6, <2>1 DEF WriteInv
    <3>2. Begun + j \in 1 .. Len(queued)
      BY <1>2, <2>1 DEF Begun
    <3> QED BY <1>3, <1>4, <2>1, <3>1, <3>2
  <2>2. CASE j = Len(channel) + 1
    <3>1. Begun + j = Len(queued) + 1
      BY <1>2, <2>2 DEF Begun
    <3> QED BY <1>3, <1>4, <2>2, <3>1
  <2> QED BY <1>2, <1>4, <2>1, <2>2
<1>7. \A k \in DOMAIN Written : k \in DOMAIN Written' /\ Written'[k] = Written[k]
  BY <1>2, <1>3 DEF Written
<1>8. \A s : Chain(s, Written) => Chain(s, Written')
  BY <1>7, ChainMore
<1>9. Chain(received, Written)' /\ (open /\ writer # "ended" => Chain(OutBytes, Written)')
  BY <1>1, <1>5, <1>8 DEF WriteInv
<1>10. (writer # "ended" => \A j \in DOMAIN channel : channel[j] = queued[Begun + j])'
  BY <1>1, <1>5, <1>6
<1>11. /\ (received # <<>> => StartsAt(received, 1, 1))'
       /\ (open /\ writer # "ended" =>
            /\ (OutBytes = <<>> <=> Begun = 0)
            /\ (OutBytes # <<>> => StartsAt(OutBytes, 1, 1) /\ EndsWith(OutBytes, Begun)))'
  BY <1>1, <1>5 DEF WriteInv, StartsAt, EndsWith
<1>12. (Len(channel) <= Len(queued))'
  BY <1>2, <1>3, <1>4
<1> QED BY <1>1, <1>3, <1>4, <1>9, <1>10, <1>11, <1>12 DEF WriteInv

LEMMA RecvKeeps == ASSUME WriteInv, WriterRecv PROVE WriteInv'
<1> DEFINE k == Begun + 1
           b == Bytes(Outgoing(Head(channel)), k)
<1>1. /\ channel # <<>> /\ channel' = Tail(channel) /\ writer = "recv" /\ writer' = "write"
      /\ writing' = b /\ writing = <<>>
      /\ UNCHANGED <<transport, limit, queued, held, received, open>>
  BY DEF WriterRecv, WriteInv, Begun
<1>2. /\ queued \in Seq(Requests) /\ channel \in Seq(Requests) /\ Len(channel) <= Len(queued)
      /\ Len(queued) \in Nat /\ Len(channel) \in Nat /\ Len(channel) # 0
      /\ DOMAIN queued = 1 .. Len(queued) /\ DOMAIN channel = 1 .. Len(channel)
      /\ \A j \in DOMAIN channel : channel[j] = queued[Begun + j]
      /\ received \in Seq(Byte) /\ held \in Seq(Byte)
  BY <1>1 DEF WriteInv, Chain
<1>3. Begun \in Nat /\ k \in Nat \ {0} /\ k \in DOMAIN queued
  <2>1. Begun \in Nat /\ Begun + 1 <= Len(queued)
    BY <1>2 DEF Begun
  <2> QED BY <1>2, <2>1
<1>4. /\ Tail(channel) \in Seq(Requests) /\ Len(Tail(channel)) = Len(channel) - 1
      /\ DOMAIN Tail(channel) = 1 .. Len(channel) - 1
      /\ \A j \in 1 .. Len(channel) - 1 : Tail(channel)[j] = channel[j + 1]
  BY <1>1, <1>2
<1>5. Head(channel) = queued[k] /\ Outgoing(Head(channel)) = Written[k] /\ Written[k] \in Packet
  <2>1. 1 \in DOMAIN channel /\ Head(channel) = channel[1]
    BY <1>1, <1>2
  <2>2. queued[k] \in Packet
    BY <1>2, <1>3 DEF Requests
  <2> QED BY <1>2, <1>3, <2>1, <2>2, OutgoingType DEF Written
<1>6. b = Bytes(Written[k], k) /\ k \in DOMAIN Written
  BY <1>3, <1>5 DEF Written
<1>7. /\ Chain(b, Written) /\ b # <<>> /\ StartsAt(b, k, 1) /\ EndsWith(b, k)
  BY <1>3, <1>5, <1>6, BytesChain
<1>8. Begun' = k /\ Written' = Written
  BY <1>1, <1>2, <1>4 DEF Begun, Written
<1>9. ASSUME NEW j \in DOMAIN channel' PROVE channel'[j] = queued[k + j]
  <2>1. PICK i : i = j + 1
    OBVIOUS
  <2>2. i \in DOMAIN channel /\ channel'[j] = channel[i]
    BY <1>1, <1>2, <1>4, <2>1
  <2>3. Begun + i = k + j
    BY <1>1, <1>3, <1>4, <2>1
  <2> QED BY <1>2, <2>2, <2>3
<1> HIDE DEF b
<1>10. PICK o \in Seq(Byte) : o = received \o held /\ OutBytes = o
  <2>1. received \o held \in Seq(Byte)
    BY <1>2, ConcatProperties
  <2> QED BY <1>1, <2>1, ConcatEmptySeq DEF OutBytes
<1>11. OutBytes' = o \o b /\ b \in Seq(Byte)
  BY <1>1, <1>7, <1>10 DEF OutBytes, Chain
<1>12. ASSUME open
       PROVE  /\ Chain(o \o b, Written) /\ o \o b # <<>>
              /\ StartsAt(o \o b, 1, 1) /\ EndsWith(o \o b, k)
  <2>1. CASE o = <<>>
    <3>1. Begun = 0 /\ o \o b = b
      BY <1>1, <1>10, <1>11, <1>12, <2>1, ConcatEmptySeq DEF WriteInv
    <3> QED BY <1>7, <3>1
  <2>2. CASE o # <<>>
    <3>1. Chain(o, Written) /\ StartsAt(o, 1, 1) /\ EndsWith(o, Begun)
      BY <1>1, <1>10, <1>12, <2>2 DEF WriteInv
    <3>2. Chain(o \o b, Written)
      BY <1>3, <1>7, <2>2, <3>1, ChainJoin
    <3>3. StartsAt(o \o b, 1, 1)
      BY <1>10, <1>11, <2>2, <3>1, FirstPart DEF StartsAt
    <3>4. EndsWith(o \o b, k) /\ o \o b # <<>>
      BY <1>7, <1>10, <1>11, LastPart DEF EndsWith
    <3> QED BY <3>2, <3>3, <3>4
  <2> QED BY <2>1, <2>2
<1>13. /\ queued' \in Seq(Requests) /\ channel' \in Seq(Requests) /\ Len(channel') <= Len(queued')
       /\ writing' \in Seq(Byte) /\ held' \in Seq(Byte) /\ writing' # <<>> /\ k # 0
  BY <1>1, <1>2, <1>3, <1>4, <1>7, <1>11
<1>14. /\ (open /\ writer # "ended" =>
            /\ Chain(OutBytes, Written)
            /\ (OutBytes = <<>> <=> Begun = 0)
            /\ (OutBytes # <<>> => StartsAt(OutBytes, 1, 1) /\ EndsWith(OutBytes, Begun)))'
       /\ (writer # "ended" => \A j \in DOMAIN channel : channel[j] = queued[Begun + j])'
  BY <1>1, <1>8, <1>9, <1>11, <1>12, <1>13 DEF StartsAt, EndsWith
<1>15. Chain(received, Written)' /\ (received # <<>> => StartsAt(received, 1, 1))'
       /\ (held # <<>> => transport = "tls")' /\ transport' \in Transports
  BY <1>1, <1>8 DEF WriteInv, StartsAt
<1> QED BY <1>1, <1>13, <1>14, <1>15 DEF WriteInv

LEMMA SomeKeeps == ASSUME WriteInv, WriteSome PROVE WriteInv'
<1>1. PICK k \in 1 .. Len(writing) : Accept(k) /\ writing' = Drop(writing, k)
  BY DEF WriteSome
<1>2. /\ writer = "write" /\ writer' = IF writing' = <<>> THEN "recv" ELSE "write"
      /\ UNCHANGED <<transport, queued, channel, open>>
  BY DEF WriteSome
<1>3. /\ held \in Seq(Byte) /\ writing \in Seq(Byte) /\ received \in Seq(Byte)
      /\ Len(writing) \in Nat /\ k \in 0 .. Len(writing)
  BY <1>1 DEF WriteInv, Chain
<1>4. PICK u \in Seq(Byte) : u = held \o Take(writing, k)
  BY <1>3, TakeDrop, ConcatProperties
<1>5. PICK n \in TakenBySocket(u) :
        held' = Drop(u, n) /\ received' = IF open THEN received \o Take(u, n) ELSE received
  BY <1>1, <1>4 DEF Accept
<1>6. n \in 0 .. Len(u) /\ (transport # "tls" => n = Len(u))
  BY <1>4, <1>5 DEF TakenBySocket
<1>7. /\ held' \in Seq(Byte) /\ writing' \in Seq(Byte) /\ Take(u, n) \in Seq(Byte)
      /\ Len(held') = Len(u) - n
  BY <1>1, <1>3, <1>5, <1>6, TakeDrop
<1>8. (held # <<>> => transport = "tls")'
  BY <1>2, <1>4, <1>6, <1>7, EmptySeq
<1>9. Begun' = Begun /\ Written' = Written
  BY <1>2 DEF Begun, Written
<1>10. open => OutBytes' = OutBytes
  <2> SUFFICES ASSUME open PROVE OutBytes' = OutBytes
    OBVIOUS
  <2>1. OutBytes' = Joined(Joined(Joined(received, Take(u, n)), Drop(u, n)), Drop(writing, k))
    BY <1>1, <1>5 DEF OutBytes, Joined
  <2>2. OutBytes = Joined(Joined(received, held), writing)
    BY DEF OutBytes, Joined
  <2>3. u = Joined(held, Take(writing, k))
    BY <1>4 DEF Joined
  <2> QED BY <1>3, <1>6, <2>1, <2>2, <2>3, BytesMoveOn
<1>11. ASSUME open
       PROVE  Chain(received', Written) /\ (received' # <<>> => StartsAt(received', 1, 1))
  <2>1. received' \in Seq(Byte)
    BY <1>3, <1>5, <1>7, <1>11, ConcatProperties
  <2>2. PICK r \in Seq(Byte), t \in Seq(Byte) : r = received' /\ OutBytes = r \o t
    <3>1. held' \o writing' \in Seq(Byte)
      BY <1>7, ConcatProperties
    <3>2. OutBytes = Joined(Joined(received', held'), writing')
      BY <1>10, <1>11 DEF OutBytes, Joined
    <3>3. OutBytes = Joined(received', Joined(held', writing'))
      BY <1>7, <2>1, <3>2, JoinedAssociative
    <3> QED BY <2>1, <3>1, <3>3 DEF Joined
  <2>3. /\ Chain(OutBytes, Written)
        /\ OutBytes # <<>> => StartsAt(OutBytes, 1, 1)
    BY <1>2, <1>11 DEF WriteInv
  <2>4. /\ \A j \in DOMAIN r : j + 0 \in DOMAIN OutBytes /\ r[j] = OutBytes[j + 0]
        /\ r # <<>> => OutBytes[1] = r[1] /\ OutBytes # <<>>
    BY <2>2, FirstPart
  <2>5. Chain(r, Written)
    BY <2>3, <2>4, ChainPiece
  <2> QED BY <2>2, <2>3, <2>4, <2>5 DEF StartsAt
<1>12. Chain(received, Written)' /\ (received # <<>> => StartsAt(received, 1, 1))'
  BY <1>5, <1>9, <1>11 DEF WriteInv, StartsAt
<1>13. (open /\ writer # "ended" =>
         /\ Chain(OutBytes, Written)
         /\ (OutBytes = <<>> <=> Begun = 0)
         /\ (OutBytes # <<>> => StartsAt(OutBytes, 1, 1) /\ EndsWith(OutBytes, Begun)))'
  BY <1>2, <1>9, <1>10 DEF WriteInv, StartsAt, EndsWith
<1>14. (writer # "ended" => \A j \in DOMAIN channel : channel[j] = queued[Begun + j])'
  BY <1>2, <1>9 DEF WriteInv
<1> QED BY <1>2, <1>7, <1>8, <1>12, <1>13, <1>14 DEF WriteInv

LEMMA WriteStepInv == WriteInv /\ [Next]_vars => WriteInv'
<1> SUFFICES ASSUME WriteInv, [Next]_vars PROVE WriteInv'
  OBVIOUS
<1>1. CASE WriteFailed
  <2>1. /\ writer' = "ended" /\ writing' = <<>> /\ held' = <<>> /\ channel' = <<>>
        /\ UNCHANGED <<transport, queued, received, open>>
    BY <1>1 DEF WriteFailed
  <2>2. <<>> \in Seq(Byte) /\ <<>> \in Seq(Requests) /\ Len(<<>>) = 0 /\ Len(queued) \in Nat
    BY DEF WriteInv
  <2> QED BY <2>1, <2>2 DEF WriteInv, Written, StartsAt
<1>2. CASE UNCHANGED writeVars /\ (UNCHANGED open \/ open' = FALSE)
  <2>1. Written' = Written /\ Begun' = Begun /\ OutBytes' = OutBytes
    BY <1>2 DEF writeVars, Written, Begun, OutBytes
  <2> QED BY <1>2, <2>1 DEF writeVars, WriteInv, StartsAt, EndsWith
<1> QED BY <1>1, <1>2, EnqueueKeeps, RecvKeeps, SomeKeeps
        DEF Next, ServerSend, ServerClose, ReaderStep, ReadSome, ReadFailed, ReadHeader, SkipHeader,
            ReadBody, HandedOver, vars

LEMMA WriteInvariance == Spec => []WriteInv
BY WriteInit, WriteStepInv, PTL DEF Spec

\* The server gets the packets of the connection's channel in their order, in
\* their obfuscated form, whatever pieces the stream takes them in, and never
\* bytes that follow on a part of a packet.
THEOREM ServerGetsPackets == Spec => []ServerSeesPackets
<1>1. WriteInv => ServerSeesPackets
  <2> SUFFICES ASSUME WriteInv PROVE ServerSeesPackets
    OBVIOUS
  <2>1. Chain(received, Written) /\ received \in Seq(Byte)
    BY DEF WriteInv, Chain
  <2>2. \A j \in DOMAIN received : received[j].of = Outgoing(queued[received[j].n])
    BY <2>1 DEF Chain, Written
  <2>3. received # <<>> => received[1].n = 1 /\ received[1].at = 1
    BY DEF WriteInv, StartsAt
  <2>4. ASSUME NEW j \in 1 .. Len(received) - 1 PROVE Follows(received[j + 1], received[j])
    <3>1. j \in DOMAIN received /\ j + 1 \in DOMAIN received
      BY <2>1
    <3> QED BY <2>1, <3>1 DEF Chain
  <2> QED BY <2>2, <2>3, <2>4 DEF ServerSeesPackets
<1> QED BY <1>1, WriteInvariance, PTL

-----------------------------------------------------------------------------
(***************************************************************************)
(* What the read loop gets.                                                *)
(***************************************************************************)

\* A sequence of bytes that starts with byte a of packet k is cut into s and t
\* where it is known that s is within that packet: the bytes of s are the
\* packet's, and t goes on behind them.
CutAt(s, t, P, k, a) ==
  LET u == Joined(s, t)
      e == a + (Len(s) - 1)
  IN  /\ k \in DOMAIN P
      /\ \A j \in DOMAIN s : s[j].n = k /\ s[j].at = a + (j - 1) /\ s[j].of = P[k]
      /\ Chain(t, P)
      /\ t # <<>> /\ e = Size(P[k]) => StartsAt(t, k + 1, 1)
      /\ t # <<>> /\ e < Size(P[k]) => StartsAt(t, k, a + Len(s))
      /\ t # <<>> => \A m : EndsWith(u, m) => EndsWith(t, m)
      /\ t = <<>> => \A m : EndsWith(u, m) => m = k /\ e = Size(P[k])

LEMMA Cut ==
  ASSUME NEW P, NEW s \in Seq(Byte), NEW t \in Seq(Byte), Chain(Joined(s, t), P), s # <<>>,
         NEW k \in Nat, NEW a \in Nat \ {0}, StartsAt(Joined(s, t), k, a),
         a + (Len(s) - 1) <= Size(P[k])
  PROVE  CutAt(s, t, P, k, a)
<1>1. PICK n : n = Len(s)
  OBVIOUS
<1>2. PICK u : u = s \o t
  OBVIOUS
<1>17. u = Joined(s, t)
  BY <1>2 DEF Joined
<1>3. /\ u \in Seq(Byte) /\ Len(u) = n + Len(t)
      /\ \A j \in 1 .. n + Len(t) : u[j] = IF j <= n THEN s[j] ELSE t[j - n]
  BY <1>1, <1>2, ConcatProperties
<1>4. /\ n \in Nat /\ n >= 1 /\ Len(t) \in Nat /\ DOMAIN s = 1 .. n /\ DOMAIN t = 1 .. Len(t)
      /\ DOMAIN u = 1 .. n + Len(t)
  BY <1>1, <1>3
<1>5. /\ \A j \in 1 .. n : j \in DOMAIN u /\ u[j] = s[j]
      /\ \A j \in 1 .. Len(t) : j + n \in DOMAIN u /\ t[j] = u[j + n]
  <2>1. ASSUME NEW j \in 1 .. n PROVE j \in DOMAIN u /\ u[j] = s[j]
    <3>1. j \in 1 .. n + Len(t) /\ j <= n
      BY <1>4
    <3> QED BY <1>3, <1>4, <3>1
  <2>2. ASSUME NEW j \in 1 .. Len(t) PROVE j + n \in DOMAIN u /\ t[j] = u[j + n]
    <3>1. PICK i : i = j + n
      OBVIOUS
    <3>2. i \in 1 .. n + Len(t) /\ ~(i <= n) /\ i - n = j
      BY <1>4, <3>1
    <3> QED BY <1>3, <1>4, <3>1, <3>2
  <2> QED BY <2>1, <2>2
<1>6. Chain(u, P) /\ u[1].n = k /\ u[1].at = a /\ a + (n - 1) <= Size(P[k])
  BY <1>1, <1>17 DEF StartsAt
<1>7. 1 \in DOMAIN u /\ n \in DOMAIN u /\ 1 \in 1 .. n /\ n \in 1 .. n
  BY <1>4
<1>8. k \in DOMAIN P /\ u[1].of = P[k]
  BY <1>6, <1>7 DEF Chain
<1>9. P[k] \in Packet /\ Size(P[k]) \in Nat
  <2>1. u[1] \in Byte
    BY <1>3, <1>7
  <2>2. P[k] \in Packet
    BY <1>8, <2>1 DEF Byte
  <2> QED BY <2>2, ByteStreamAssumption DEF Size, Packet, ByteStreamAssumption
<1>10. ASSUME NEW i \in DOMAIN u, a + (i - 1) <= Size(P[k])
       PROVE  u[i].n = k /\ u[i].at = a + (i - 1) /\ u[i].of = P[k]
  <2>1. 1 <= i /\ u[1].at + (i - 1) <= Size(u[1].of)
    BY <1>4, <1>6, <1>8, <1>10
  <2>2. u[i].n = u[1].n /\ u[i].at = u[1].at + (i - 1)
    BY <1>6, <1>7, <2>1 DEF Chain
  <2>3. u[i].of = P[u[i].n]
    BY <1>6 DEF Chain
  <2> QED BY <1>6, <2>2, <2>3
<1>11. ASSUME NEW j \in DOMAIN s PROVE s[j].n = k /\ s[j].at = a + (j - 1) /\ s[j].of = P[k]
  <2>1. j \in 1 .. n /\ j \in DOMAIN u /\ u[j] = s[j]
    BY <1>4, <1>5
  <2>2. a + (j - 1) <= Size(P[k])
    BY <1>4, <1>6, <1>9, <2>1
  <2> QED BY <1>10, <2>1, <2>2
<1>12. Chain(t, P)
  <2>1. n \in Nat /\ \A j \in DOMAIN t : j + n \in DOMAIN u /\ t[j] = u[j + n]
    BY <1>4, <1>5
  <2> QED BY <1>6, <2>1, ChainPiece
<1>13. /\ u[n].n = k /\ u[n].at = a + (n - 1) /\ u[n].of = P[k]
       /\ t # <<>> => Follows(u[n + 1], u[n])
  <2>1. u[n].n = k /\ u[n].at = a + (n - 1) /\ u[n].of = P[k]
    BY <1>6, <1>7, <1>10
  <2>2. t # <<>> => n + 1 \in DOMAIN u
    BY <1>4, EmptySeq
  <2> QED BY <1>6, <1>7, <2>1, <2>2 DEF Chain
<1>14. ASSUME t # <<>>
       PROVE  /\ a + (n - 1) = Size(P[k]) => StartsAt(t, k + 1, 1)
              /\ a + (n - 1) < Size(P[k]) => StartsAt(t, k, a + n)
  <2>1. t[1] = u[n + 1]
    <3>1. 1 \in 1 .. Len(t)
      BY <1>4, <1>14
    <3>2. t[1] = u[1 + n] /\ 1 + n = n + 1
      BY <1>4, <1>5, <3>1
    <3> QED BY <3>2
  <2>2. a + (n - 1) + 1 = a + n
    BY <1>4
  <2> QED BY <1>4, <1>9, <1>13, <1>14, <2>1, <2>2 DEF Follows, StartsAt
<1>15. t # <<>> => u[Len(u)] = t[Len(t)]
  BY <1>2, LastPart
<1>16. t = <<>> => Len(u) = n /\ u[n].n = k /\ u[n].at = a + (n - 1) /\ u[n].of = P[k]
  <2>1. t = <<>> => Len(u) = n
    BY <1>3, <1>4
  <2> QED BY <1>6, <1>7, <1>10, <2>1
<1> QED BY <1>1, <1>17, <1>8, <1>11, <1>12, <1>14, <1>15, <1>16 DEF EndsWith, CutAt

\* The packets before the first that does not decode are a prefix of those sent,
\* which grows while every packet decodes.
LEMMA LeadingNumber ==
  ASSUME NEW n \in Nat, InStep = 1 .. n
  PROVE  Leading = n
BY FS_Interval DEF Leading

LEMMA NextPacket ==
  ASSUME ReadInv, NEW k \in DOMAIN sent, k <= Leading
  PROVE  sent[k].decodes
<1>1. k \in InStep /\ k \in 1 .. k
  BY DEF ReadInv
<1> QED BY <1>1 DEF InStep

LEMMA InStepGrows ==
  ASSUME ReadInv, NEW p \in Replies, sent' = Append(sent, p)
  PROVE  /\ Leading' = IF Leading = Len(sent) /\ p.decodes THEN Leading + 1 ELSE Leading
         /\ InStep' = 1 .. Leading' /\ Leading' \in 0 .. Len(sent')
<1>1. /\ sent \in Seq(Replies) /\ Len(sent) \in Nat /\ DOMAIN sent = 1 .. Len(sent)
      /\ Leading \in 0 .. Len(sent) /\ InStep = 1 .. Leading
  BY DEF ReadInv
<1>2. /\ sent' \in Seq(Replies) /\ Len(sent') = Len(sent) + 1
      /\ \A j \in 1 .. Len(sent) : sent'[j] = sent[j]
      /\ sent'[Len(sent) + 1] = p /\ DOMAIN sent' = 1 .. Len(sent) + 1
  BY <1>1, AppendProperties
<1>3. PICK g : g = IF Leading = Len(sent) /\ p.decodes THEN Leading + 1 ELSE Leading
  OBVIOUS
<1>11. PICK l : l = Leading
  OBVIOUS
<1>12. PICK m : m = Len(sent)
  OBVIOUS
<1>4. /\ l \in Nat /\ m \in Nat /\ l <= m /\ InStep = 1 .. l
      /\ g = IF l = m /\ p.decodes THEN l + 1 ELSE l
  <2>1. m \in Nat /\ l \in 0 .. m /\ InStep = 1 .. l
    BY <1>1, <1>11, <1>12
  <2>2. g = IF l = m /\ p.decodes THEN l + 1 ELSE l
    BY <1>3, <1>11, <1>12
  <2> QED BY <2>1, <2>2
<1>9. g \in Nat /\ g <= m + 1
  BY <1>4
<1>5. ASSUME NEW k \in 1 .. Len(sent) PROVE (k \in InStep') <=> k \in 1 .. g
  <2>1. \A j \in 1 .. k : sent'[j] = sent[j]
    BY <1>1, <1>2
  <2>2. (k \in InStep') <=> k \in InStep
    BY <1>1, <1>2, <2>1 DEF InStep
  <2>3. k \in Nat /\ 1 <= k /\ k <= m
    BY <1>4, <1>12
  <2> QED BY <1>4, <2>2, <2>3
<1>6. (Len(sent) + 1 \in InStep') <=> Len(sent) + 1 \in 1 .. g
  <2>1. PICK n : n = Len(sent) + 1
    OBVIOUS
  <2>2. n \in DOMAIN sent' /\ n \in Nat /\ n \in 1 .. n /\ sent'[n] = p
    BY <1>1, <1>2, <2>1
  <2>3. (n \in InStep') <=> \A j \in 1 .. n : sent'[j].decodes
    BY <2>2 DEF InStep
  <2>4. CASE Leading = Len(sent) /\ p.decodes
    <3>1. \A j \in 1 .. Len(sent) : sent[j].decodes
      BY <1>1, <2>4, NextPacket
    <3>2. \A j \in 1 .. n : sent'[j].decodes
      <4> SUFFICES ASSUME NEW j \in 1 .. n PROVE sent'[j].decodes
        OBVIOUS
      <4>1. CASE j \in 1 .. Len(sent)
        BY <1>2, <3>1, <4>1
      <4>2. CASE j = n
        BY <2>2, <2>4, <4>2
      <4> QED BY <1>1, <2>1, <4>1, <4>2
    <3> QED BY <1>1, <1>3, <2>1, <2>3, <2>4, <3>2
  <2>5. CASE ~p.decodes
    <3>1. n = m + 1 /\ n \notin InStep'
      BY <2>1, <2>2, <2>3, <2>5, <1>12
    <3> QED BY <1>4, <2>1, <2>5, <3>1
  <2>6. CASE Leading # Len(sent)
    <3>1. l # m /\ n = m + 1 /\ DOMAIN sent = 1 .. m
      BY <1>1, <2>1, <2>6, <1>11, <1>12
    <3>2. m \in DOMAIN sent /\ m \notin InStep
      BY <1>4, <3>1
    <3>3. PICK j \in 1 .. m : ~sent[j].decodes
      BY <3>2 DEF InStep
    <3>4. j \in 1 .. n /\ sent'[j] = sent[j]
      <4>1. j \in 1 .. n
        BY <1>4, <3>1
      <4> QED BY <1>2, <1>12, <4>1
    <3>5. n \notin InStep'
      BY <2>3, <3>3, <3>4
    <3>6. n \notin 1 .. g
      BY <1>4, <3>1
    <3> QED BY <2>1, <3>5, <3>6
  <2> QED BY <2>4, <2>5, <2>6
<1>7. InStep' = 1 .. g
  <2>1. InStep' \subseteq 1 .. Len(sent) + 1
    BY <1>2 DEF InStep
  <2>2. 1 .. g \subseteq 1 .. Len(sent) + 1
    BY <1>4, <1>9, <1>12
  <2>3. \A k \in 1 .. Len(sent) + 1 : k \in 1 .. Len(sent) \/ k = Len(sent) + 1
    BY <1>1
  <2>4. \A k \in 1 .. Len(sent) + 1 : (k \in InStep') <=> k \in 1 .. g
    BY <1>5, <1>6, <2>3
  <2> QED BY <2>1, <2>2, <2>4
<1>8. Leading' = g
  <2>1. Cardinality(1 .. g) = g
    BY <1>9, FS_Interval
  <2> QED BY <1>7, <2>1 DEF Leading
<1> QED BY <1>2, <1>3, <1>7, <1>8, <1>9, <1>12

LEMMA ReadInit == Init => ReadInv
<1> SUFFICES ASSUME Init PROVE ReadInv
  OBVIOUS
<1>1. <<>> \in Seq(Byte) /\ <<>> \in Seq(Replies) /\ <<>> \in Seq(Packet) /\ Len(<<>>) = 0
  OBVIOUS
<1>2. InStep = 1 .. 0 /\ Leading = 0
  <2>1. InStep = 1 .. 0
    BY <1>1 DEF Init, InStep
  <2> QED BY <2>1, LeadingNumber
<1>3. InBytes = <<>>
  BY <1>1, ConcatEmptySeq DEF Init, InBytes
<1>4. Chain(<<>>, sent) /\ NoHeader \in Packet
  <2>1. Chain(<<>>, sent)
    BY <1>1 DEF Chain
  <2> QED BY <2>1, ByteStreamAssumption DEF NoHeader, Packet, ByteStreamAssumption
<1>5. Len(buffer) <= Wanted
  BY <1>1, ByteStreamAssumption DEF Init, Wanted, ByteStreamAssumption
<1>6. Synced
  BY <1>1, <1>2, <1>3, <1>4 DEF Synced, Init, Entered
<1> QED BY <1>1, <1>2, <1>4, <1>5, <1>6 DEF Init, ReadInv

\* Steps that leave the server's packets alone leave the number of them that
\* decode alone.
LEMMA LeadingKept == ASSUME UNCHANGED sent PROVE InStep' = InStep /\ Leading' = Leading
BY DEF InStep, Leading

LEMMA ServerSendKeeps == ASSUME ReadInv, NEW p \in Replies, ServerSend(p) PROVE ReadInv'
<1>1. /\ open /\ sent' = Append(sent, p) /\ wire' = wire \o Bytes(p, Len(sent) + 1)
      /\ UNCHANGED <<open, reader, buffer, header, delivered>>
  BY DEF ServerSend, readVars
<1>2. /\ sent \in Seq(Replies) /\ Len(sent) \in Nat /\ DOMAIN sent = 1 .. Len(sent)
      /\ wire \in Seq(Byte) /\ buffer \in Seq(Byte) /\ delivered \in Seq(Packet)
      /\ Len(delivered) \in Nat /\ p \in Packet
  BY DEF ReadInv, Replies
<1>3. /\ sent' \in Seq(Replies) /\ Len(sent') = Len(sent) + 1
      /\ \A j \in 1 .. Len(sent) : sent'[j] = sent[j]
      /\ sent'[Len(sent) + 1] = p /\ DOMAIN sent' = 1 .. Len(sent) + 1
  BY <1>1, <1>2, AppendProperties
<1>4. PICK n : n = Len(sent)
  OBVIOUS
<1>5. PICK b : b = Bytes(p, n + 1)
  OBVIOUS
<1>6. n \in Nat /\ n + 1 \in Nat \ {0} /\ n + 1 \in DOMAIN sent' /\ sent'[n + 1] = p
  BY <1>2, <1>3, <1>4
<1>7. /\ Chain(b, sent') /\ b # <<>> /\ StartsAt(b, n + 1, 1) /\ EndsWith(b, n + 1)
      /\ b \in Seq(Byte)
  <2>1. Chain(b, sent') /\ b # <<>> /\ StartsAt(b, n + 1, 1) /\ EndsWith(b, n + 1)
    BY <1>2, <1>5, <1>6, BytesChain
  <2> QED BY <2>1 DEF Chain
<1>8. PICK i \in Seq(Byte) : i = InBytes
  BY <1>2, ConcatProperties DEF InBytes
<1>9. wire' \in Seq(Byte) /\ InBytes' = i \o b
  <2>1. wire' = Joined(wire, b)
    BY <1>1, <1>4, <1>5 DEF Joined
  <2>2. InBytes' = Joined(buffer, Joined(wire, b)) /\ i = Joined(buffer, wire)
    BY <1>1, <1>8, <2>1 DEF InBytes, Joined
  <2>3. Joined(wire, b) \in Seq(Byte) /\ InBytes' = Joined(i, b)
    BY <1>2, <1>7, <2>2, JoinedAssociative
  <2> QED BY <2>1, <2>3 DEF Joined
<1>10. /\ Leading \in 0 .. Len(sent) /\ Leading' \in 0 .. Len(sent') /\ InStep' = 1 .. Leading'
       /\ Leading' = IF Leading = Len(sent) /\ p.decodes THEN Leading + 1 ELSE Leading
  BY <1>1, InStepGrows DEF ReadInv
<1>11. PICK l \in Nat, g \in Nat :
         l = Leading /\ g = Leading' /\ l <= n /\ l <= g /\ (g = l \/ (l = n /\ g = n + 1))
  <2>1. Leading \in Nat /\ Leading <= n /\ Leading' \in Nat
    BY <1>3, <1>4, <1>6, <1>10
  <2>2. Leading' = Leading \/ (Leading = n /\ Leading' = n + 1)
    BY <1>4, <1>10
  <2>3. Leading <= Leading'
    BY <1>6, <2>1, <2>2
  <2> QED BY <2>1, <2>2, <2>3
<1>12. Promised' => Promised
  <2>1. Promised' => Len(delivered) < g \/ g = n + 1
    BY <1>1, <1>3, <1>4, <1>11 DEF Promised
  <2>2. Len(delivered) < l \/ l = n => Promised
    BY <1>4, <1>11 DEF Promised
  <2> QED BY <1>2, <1>6, <1>11, <2>1, <2>2
<1>13. ASSUME Synced PROVE Synced'
  <2>1. Len(delivered') <= Leading' /\ Entered' = Entered
    <3>1. Len(delivered) <= Leading
      BY <1>13 DEF Synced
    <3>2. Len(delivered') = Len(delivered) /\ Entered' = Entered
      BY <1>1 DEF Entered
    <3>3. Len(delivered) <= g
      BY <1>2, <1>11, <3>1
    <3> QED BY <1>11, <3>2, <3>3
  <2>2. reader' = "body" => Entered' \in DOMAIN sent' /\ header' = sent'[Entered']
    <3>1. ASSUME reader = "body" PROVE Entered \in DOMAIN sent /\ header = sent[Entered]
      BY <1>13, <3>1 DEF Synced
    <3>2. ASSUME Entered \in DOMAIN sent
          PROVE  Entered \in DOMAIN sent' /\ sent'[Entered] = sent[Entered]
      BY <1>2, <1>3, <3>2
    <3> QED BY <1>1, <2>1, <3>1, <3>2
  <2>3. ASSUME reader # "ended"
        PROVE  /\ Chain(i \o b, sent')
               /\ i \o b # <<>>
               /\ reader # "body" \/ header.length = 0 => StartsAt(i \o b, Entered + 1, 1)
               /\ reader = "body" /\ header.length > 0 => StartsAt(i \o b, Entered, HeaderLen + 1)
               /\ EndsWith(i \o b, Len(sent'))
    <3>1. Chain(i, sent)
      BY <1>8, <1>13, <2>3 DEF Synced
    <3>2. Chain(i, sent')
      <4>1. \A k \in DOMAIN sent : k \in DOMAIN sent' /\ sent'[k] = sent[k]
        BY <1>2, <1>3
      <4> QED BY <3>1, <4>1, ChainMore
    <3>3. EndsWith(i \o b, Len(sent')) /\ i \o b # <<>>
      BY <1>3, <1>4, <1>7, LastPart DEF EndsWith
    <3>4. CASE i = <<>>
      <4>1. Entered = n /\ (reader = "body" => header.length = 0)
        BY <1>1, <1>4, <1>8, <1>13, <2>3, <3>4 DEF Synced
      <4>2. i \o b = b
        BY <1>7, <3>4, ConcatEmptySeq
      <4>3. ~(reader = "body" /\ header.length > 0)
        BY <4>1
      <4> QED BY <1>7, <3>3, <4>1, <4>2, <4>3
    <3>5. CASE i # <<>>
      <4>1. EndsWith(i, n)
        BY <1>1, <1>4, <1>8, <1>13, <2>3, <3>5 DEF Synced
      <4>2. Chain(i \o b, sent')
        BY <1>6, <1>7, <3>2, <3>5, <4>1, ChainJoin
      <4>3. (i \o b)[1] = i[1]
        BY <1>7, <3>5, FirstPart
      <4>4. /\ reader # "body" \/ header.length = 0 => StartsAt(i, Entered + 1, 1)
            /\ reader = "body" /\ header.length > 0 => StartsAt(i, Entered, HeaderLen + 1)
        BY <1>8, <1>13, <2>3, <3>5 DEF Synced
      <4> QED BY <3>3, <4>2, <4>3, <4>4 DEF StartsAt
    <3> QED BY <3>4, <3>5
  <2>4. reader' # "ended" =>
          /\ Chain(InBytes', sent')
          /\ InBytes' # <<>>
          /\ reader' # "body" \/ header'.length = 0 => StartsAt(InBytes', Entered' + 1, 1)
          /\ reader' = "body" /\ header'.length > 0 => StartsAt(InBytes', Entered', HeaderLen + 1)
          /\ EndsWith(InBytes', Len(sent'))
    BY <1>1, <1>9, <2>1, <2>3
  <2> HIDE DEF InBytes, Entered, Leading
  <2> QED BY <2>1, <2>2, <2>4 DEF Synced, Chain, StartsAt, EndsWith
<1>14. (Len(buffer) <= Wanted)'
  BY <1>1 DEF ReadInv, Wanted
<1> QED BY <1>1, <1>3, <1>9, <1>10, <1>12, <1>13, <1>14 DEF ReadInv

LEMMA ServerCloseKeeps == ASSUME ReadInv, ServerClose PROVE ReadInv'
<1>1. PICK k \in 0 .. Len(wire) : wire' = Take(wire, k)
  BY DEF ServerClose
<1>2. open' = FALSE /\ UNCHANGED <<sent, reader, buffer, header, delivered>>
  BY DEF ServerClose, readVars
<1>3. wire \in Seq(Byte) /\ buffer \in Seq(Byte)
  BY DEF ReadInv
<1>4. wire' \in Seq(Byte) /\ Drop(wire, k) \in Seq(Byte) /\ Joined(wire', Drop(wire, k)) = wire
  BY <1>1, <1>3, TakeDrop DEF Joined
<1>5. InStep' = InStep /\ Leading' = Leading /\ Entered' = Entered /\ Promised' = Promised
  BY <1>2, LeadingKept DEF Entered, Promised
<1>6. PICK i \in Seq(Byte), d \in Seq(Byte) : i = InBytes' /\ d = Drop(wire, k) /\ InBytes = i \o d
  <2>1. InBytes' = Joined(buffer, wire') /\ InBytes = Joined(buffer, Joined(wire', Drop(wire, k)))
    BY <1>2, <1>4 DEF InBytes, Joined
  <2>2. InBytes' \in Seq(Byte) /\ InBytes = Joined(InBytes', Drop(wire, k))
    BY <1>3, <1>4, <2>1, JoinedAssociative
  <2> QED BY <1>4, <2>2 DEF Joined
<1>7. /\ \A j \in DOMAIN i : j + 0 \in DOMAIN InBytes /\ i[j] = InBytes[j + 0]
      /\ i # <<>> => InBytes[1] = i[1] /\ InBytes # <<>>
  BY <1>6, FirstPart
<1>8. ASSUME Synced PROVE Synced'
  <2>1. /\ Len(delivered') <= Leading'
        /\ reader' = "body" => Entered' \in DOMAIN sent' /\ header' = sent'[Entered']
    BY <1>2, <1>5, <1>8 DEF Synced
  <2>2. ASSUME reader # "ended"
        PROVE  /\ Chain(i, sent)
               /\ i # <<>> =>
                    /\ reader # "body" \/ header.length = 0 => StartsAt(i, Entered + 1, 1)
                    /\ reader = "body" /\ header.length > 0 => StartsAt(i, Entered, HeaderLen + 1)
    <3>1. Chain(InBytes, sent)
      BY <1>8, <2>2 DEF Synced
    <3>2. Chain(i, sent)
      BY <1>7, <3>1, ChainPiece
    <3> QED BY <1>7, <1>8, <2>2, <3>2 DEF Synced, StartsAt
  <2>3. reader' # "ended" =>
          /\ Chain(InBytes', sent')
          /\ InBytes' # <<>> =>
               /\ reader' # "body" \/ header'.length = 0 => StartsAt(InBytes', Entered' + 1, 1)
               /\ reader' = "body" /\ header'.length > 0 => StartsAt(InBytes', Entered', HeaderLen + 1)
    BY <1>2, <1>5, <1>6, <2>2
  <2> QED BY <1>2, <2>1, <2>3 DEF Synced, Chain, StartsAt, EndsWith
<1>9. (Len(buffer) <= Wanted)'
  BY <1>2 DEF ReadInv, Wanted
<1>10. (Leading \in 0 .. Len(sent) /\ InStep = 1 .. Leading)'
  BY <1>2, <1>5 DEF ReadInv
<1> QED BY <1>2, <1>4, <1>5, <1>8, <1>9, <1>10 DEF ReadInv

LEMMA ReadSomeKeeps == ASSUME ReadInv, ReadSome PROVE ReadInv'
<1>1. PICK k \in 1 .. Len(wire) :
        Len(buffer) + k <= Wanted /\ buffer' = buffer \o Take(wire, k) /\ wire' = Drop(wire, k)
  BY DEF ReadSome
<1>2. UNCHANGED <<open, sent, reader, header, delivered>> /\ reader # "handing"
  BY DEF ReadSome, Reading
<1>3. wire \in Seq(Byte) /\ buffer \in Seq(Byte) /\ k \in 0 .. Len(wire)
  <2>1. wire \in Seq(Byte) /\ buffer \in Seq(Byte)
    BY DEF ReadInv
  <2> QED BY <1>1, <2>1
<1>4. /\ Take(wire, k) \in Seq(Byte) /\ Len(Take(wire, k)) = k
      /\ wire' \in Seq(Byte) /\ Joined(Take(wire, k), wire') = wire
  BY <1>1, <1>3, TakeDrop DEF Joined
<1>5. buffer' \in Seq(Byte) /\ Len(buffer') = Len(buffer) + k
  BY <1>1, <1>3, <1>4, ConcatProperties
<1>6. InBytes' = InBytes
  <2>1. /\ InBytes' = Joined(Joined(buffer, Take(wire, k)), wire')
        /\ InBytes = Joined(buffer, Joined(Take(wire, k), wire'))
    BY <1>1, <1>4 DEF InBytes, Joined
  <2> QED BY <1>3, <1>4, <2>1, JoinedAssociative
<1>7. InStep' = InStep /\ Leading' = Leading /\ Entered' = Entered /\ Promised' = Promised
  BY <1>2, LeadingKept DEF Entered, Promised
<1>8. Synced' = Synced
  BY <1>2, <1>6, <1>7 DEF Synced, Chain, StartsAt, EndsWith
<1>9. (Len(buffer) <= Wanted)'
  BY <1>1, <1>2, <1>5 DEF Wanted
<1>10. (Leading \in 0 .. Len(sent) /\ InStep = 1 .. Leading)'
  BY <1>2, <1>7 DEF ReadInv
<1> QED BY <1>2, <1>4, <1>5, <1>7, <1>8, <1>9, <1>10 DEF ReadInv

LEMMA ReadFailedKeeps == ASSUME ReadInv, ReadFailed PROVE ReadInv'
<1>1. reader' = "ended" /\ buffer' = <<>> /\ UNCHANGED <<open, sent, wire, header, delivered>>
  BY DEF ReadFailed
<1>2. InStep' = InStep /\ Leading' = Leading /\ Promised' = Promised
  BY <1>1, LeadingKept DEF Promised
<1>3. Synced => Synced'
  BY <1>1, <1>2 DEF Synced
<1>4. (Len(buffer) <= Wanted)' /\ buffer' \in Seq(Byte)
  <2>1. header.length \in Nat
    BY ByteStreamAssumption DEF ReadInv, Packet, ByteStreamAssumption
  <2> QED BY <1>1, <2>1 DEF Wanted
<1>5. (Leading \in 0 .. Len(sent) /\ InStep = 1 .. Leading)'
  BY <1>1, <1>2 DEF ReadInv
<1> QED BY <1>1, <1>2, <1>3, <1>4, <1>5 DEF ReadInv

\* A full buffer where a header is read, with the loop in step: it is the header
\* of the next packet, and what follows on the wire is what that packet's header
\* says.
LEMMA NextHeader ==
  ASSUME ReadInv, Synced, HeaderComplete, NEW k \in Nat, k = Len(delivered) + 1
  PROVE  /\ k \in DOMAIN sent /\ Headers(buffer) = {sent[k]} /\ sent[k] \in Packet
         /\ Chain(wire, sent)
         /\ wire # <<>> /\ sent[k].length = 0 => StartsAt(wire, k + 1, 1)
         /\ wire # <<>> /\ sent[k].length > 0 => StartsAt(wire, k, HeaderLen + 1)
         /\ wire # <<>> /\ open => EndsWith(wire, Len(sent))
         /\ wire = <<>> /\ open => Len(sent) = k /\ sent[k].length = 0
<1>1. /\ reader = "header" /\ buffer \in Seq(Byte) /\ wire \in Seq(Byte) /\ Len(buffer) = HeaderLen
      /\ HeaderLen \in Nat /\ HeaderLen >= 1 /\ Entered + 1 = k
  BY ByteStreamAssumption DEF ReadInv, HeaderComplete, Entered, ByteStreamAssumption
<1>2. buffer # <<>> /\ DOMAIN buffer = 1 .. HeaderLen /\ 1 \in DOMAIN buffer
  BY <1>1
<1>3. InBytes # <<>> /\ InBytes = Joined(buffer, wire) /\ InBytes \in Seq(Byte)
  BY <1>1, <1>2, FirstPart, ConcatProperties DEF InBytes, Joined
<1>4. /\ Chain(InBytes, sent) /\ StartsAt(InBytes, k, 1)
      /\ open => EndsWith(InBytes, Len(sent))
  BY <1>1, <1>3 DEF Synced
<1>5. k \in DOMAIN sent
  <2>1. 1 \in DOMAIN InBytes
    BY <1>3, EmptySeq
  <2> QED BY <1>4, <2>1 DEF Chain, StartsAt
<1>6. /\ sent[k] \in Packet /\ sent[k].length \in Nat
      /\ Size(sent[k]) = HeaderLen + sent[k].length
  <2>1. sent[k] \in Packet
    BY <1>5 DEF ReadInv, Replies
  <2> QED BY <2>1, ByteStreamAssumption DEF Packet, Size, ByteStreamAssumption
<1>7. 1 + (Len(buffer) - 1) = HeaderLen /\ 1 + Len(buffer) = HeaderLen + 1
  BY <1>1
<1>8. HeaderLen <= Size(sent[k])
  BY <1>1, <1>6
<1>9. /\ \A j \in DOMAIN buffer :
           buffer[j].n = k /\ buffer[j].at = 1 + (j - 1) /\ buffer[j].of = sent[k]
      /\ Chain(wire, sent)
      /\ wire # <<>> /\ HeaderLen = Size(sent[k]) => StartsAt(wire, k + 1, 1)
      /\ wire # <<>> /\ HeaderLen < Size(sent[k]) => StartsAt(wire, k, HeaderLen + 1)
      /\ wire # <<>> => \A m : EndsWith(InBytes, m) => EndsWith(wire, m)
      /\ wire = <<>> =>
           \A m : EndsWith(InBytes, m) => m = k /\ HeaderLen = Size(sent[k])
  <2>1. PICK a \in Nat \ {0} : a = 1
    OBVIOUS
  <2>2. CutAt(buffer, wire, sent, k, a)
    <3>1. StartsAt(InBytes, k, a) /\ a + (Len(buffer) - 1) <= Size(sent[k])
      BY <1>4, <1>7, <1>8, <2>1
    <3> QED BY <1>1, <1>2, <1>3, <1>4, <3>1, Cut
  <2> QED BY <1>3, <1>7, <2>1, <2>2 DEF CutAt
<1>10. Headers(buffer) = {sent[k]}
  <2>1. \A j \in 1 .. HeaderLen : buffer[j].n = buffer[1].n /\ buffer[j].at = j
    <3>1. \A j \in 1 .. HeaderLen : 1 + (j - 1) = j
      BY <1>1
    <3> QED BY <1>2, <1>9, <3>1
  <2>2. buffer[1].of = sent[k]
    BY <1>2, <1>9
  <2> QED BY <2>1, <2>2 DEF Headers
<1> QED BY <1>1, <1>4, <1>5, <1>6, <1>9, <1>10

LEMMA ReadHeaderKeeps == ASSUME ReadInv, ReadHeader PROVE ReadInv'
<1>1. PICK h \in Headers(buffer) : h.decodes /\ header' = h
  BY DEF ReadHeader
<1>2. /\ HeaderComplete /\ reader = "header" /\ reader' = "body" /\ buffer' = <<>>
      /\ UNCHANGED <<open, sent, wire, delivered>>
  BY DEF ReadHeader, HeaderComplete
<1>3. /\ wire \in Seq(Byte) /\ buffer \in Seq(Byte) /\ delivered \in Seq(Packet)
      /\ Len(delivered) \in Nat
  BY DEF ReadInv
<1>4. header' \in Packet
  <2>1. 1 \in DOMAIN buffer
    BY <1>2, <1>3, ByteStreamAssumption DEF HeaderComplete, ByteStreamAssumption
  <2>2. buffer[1] \in Byte
    BY <1>3, <2>1
  <2>3. buffer[1].of \in Packet
    BY <2>2 DEF Byte
  <2> QED BY <1>1, <2>3 DEF Headers
<1>5. InStep' = InStep /\ Leading' = Leading /\ Promised' = Promised
  BY <1>2, LeadingKept DEF Promised
<1>6. InBytes' = wire
  BY <1>2, <1>3, ConcatEmptySeq DEF InBytes
<1>7. ASSUME Synced PROVE Synced'
  <2>1. PICK k \in Nat : k = Len(delivered) + 1
    BY <1>3
  <2>2. /\ k \in DOMAIN sent /\ Headers(buffer) = {sent[k]} /\ sent[k] \in Packet
        /\ Chain(wire, sent)
        /\ wire # <<>> /\ sent[k].length = 0 => StartsAt(wire, k + 1, 1)
        /\ wire # <<>> /\ sent[k].length > 0 => StartsAt(wire, k, HeaderLen + 1)
        /\ wire # <<>> /\ open => EndsWith(wire, Len(sent))
        /\ wire = <<>> /\ open => Len(sent) = k /\ sent[k].length = 0
    BY <1>2, <1>7, <2>1, NextHeader
  <2>3. header' = sent[k] /\ Entered' = k /\ Entered' \in DOMAIN sent'
    BY <1>1, <1>2, <2>1, <2>2 DEF Entered
  <2>4. Len(delivered') <= Leading'
    BY <1>2, <1>5, <1>7 DEF Synced
  <2>5. /\ Chain(InBytes', sent')
        /\ InBytes' # <<>> =>
             /\ header'.length = 0 => StartsAt(InBytes', Entered' + 1, 1)
             /\ header'.length > 0 => StartsAt(InBytes', Entered', HeaderLen + 1)
             /\ open' => EndsWith(InBytes', Len(sent'))
        /\ InBytes' = <<>> /\ open' => Entered' = Len(sent') /\ header'.length = 0
    BY <1>2, <1>6, <2>2, <2>3
  <2> QED BY <1>2, <2>3, <2>4, <2>5 DEF Synced, Chain, StartsAt, EndsWith
<1>8. (Len(buffer) <= Wanted)' /\ buffer' \in Seq(Byte)
  <2>1. header'.length \in Nat
    BY <1>4, ByteStreamAssumption DEF Packet, ByteStreamAssumption
  <2> QED BY <1>2, <2>1 DEF Wanted
<1>9. (Leading \in 0 .. Len(sent) /\ InStep = 1 .. Leading)'
  BY <1>2, <1>5 DEF ReadInv
<1> QED BY <1>2, <1>4, <1>5, <1>7, <1>8, <1>9 DEF ReadInv

LEMMA SkipHeaderKeeps == ASSUME ReadInv, SkipHeader PROVE ReadInv'
<1>1. PICK h \in Headers(buffer) : ~h.decodes
  BY DEF SkipHeader
<1>2. /\ HeaderComplete /\ buffer' = <<>>
      /\ UNCHANGED <<open, sent, wire, reader, header, delivered>>
  BY DEF SkipHeader
<1>3. InStep' = InStep /\ Leading' = Leading /\ Promised' = Promised
  BY <1>2, LeadingKept DEF Promised
<1>4. ~Promised
  <2> SUFFICES ASSUME Promised PROVE FALSE
    OBVIOUS
  <2>1. PICK k \in Nat : k = Len(delivered) + 1
    BY DEF ReadInv
  <2>2. k \in DOMAIN sent /\ Headers(buffer) = {sent[k]}
    BY <1>2, <2>1, NextHeader DEF ReadInv
  <2>3. k <= Leading
    <3>1. PICK l \in Nat, n \in Nat : l = Leading /\ n = Len(sent)
      BY SMTT(30) DEF ReadInv
    <3>2. k <= n
      BY <2>2, <3>1 DEF ReadInv
    <3>3. Len(delivered) \in Nat /\ (Len(delivered) < l \/ l = n)
      BY <3>1 DEF Promised, ReadInv
    <3>4. k <= l
      BY <2>1, <3>2, <3>3
    <3> QED BY <3>1, <3>4
  <2>4. sent[k].decodes
    BY <2>2, <2>3, NextPacket
  <2> QED BY <1>1, <2>2, <2>4
<1>5. (Len(buffer) <= Wanted)' /\ buffer' \in Seq(Byte)
  <2>1. header.length \in Nat
    BY ByteStreamAssumption DEF ReadInv, Packet, ByteStreamAssumption
  <2> QED BY <1>2, <2>1, ByteStreamAssumption DEF Wanted, ByteStreamAssumption
<1>6. (Leading \in 0 .. Len(sent) /\ InStep = 1 .. Leading)'
  BY <1>2, <1>3 DEF ReadInv
<1> QED BY <1>2, <1>3, <1>4, <1>5, <1>6 DEF ReadInv

\* The read loop has the body of the packet the stream says, whole.
LEMMA BodyRead ==
  ASSUME ReadInv, Promised, ReadBody
  PROVE  /\ Synced /\ Len(delivered) + 1 \in DOMAIN sent /\ header = sent[Len(delivered) + 1]
         /\ Chain(wire, sent)
         /\ wire # <<>> => StartsAt(wire, Len(delivered) + 2, 1)
         /\ wire # <<>> /\ open => EndsWith(wire, Len(sent))
         /\ wire = <<>> /\ open => Len(sent) = Len(delivered) + 1
<1>1. /\ reader = "body" /\ Len(buffer) = header.length /\ Synced
      /\ wire \in Seq(Byte) /\ buffer \in Seq(Byte) /\ Len(delivered) \in Nat
  BY DEF ReadBody, ReadInv
<1>2. PICK k \in Nat \ {0} : k = Len(delivered) + 1 /\ k = Entered /\ k + 1 = Len(delivered) + 2
  BY <1>1 DEF Entered
<1>3. /\ k \in DOMAIN sent /\ header = sent[k] /\ Chain(InBytes, sent)
      /\ InBytes # <<>> =>
           /\ header.length = 0 => StartsAt(InBytes, k + 1, 1)
           /\ header.length > 0 => StartsAt(InBytes, k, HeaderLen + 1)
           /\ open => EndsWith(InBytes, Len(sent))
      /\ InBytes = <<>> /\ open => k = Len(sent)
  BY <1>1, <1>2 DEF Synced
<1>4. CASE buffer = <<>>
  <2>1. InBytes = wire /\ header.length = 0
    BY <1>1, <1>4, ConcatEmptySeq DEF InBytes
  <2> QED BY <1>1, <1>2, <1>3, <2>1
<1>5. CASE buffer # <<>>
  <2>1. Len(buffer) \in Nat /\ Len(buffer) > 0
    BY <1>1, <1>5
  <2>2. InBytes = Joined(buffer, wire) /\ InBytes # <<>>
    BY <1>1, <1>5, FirstPart DEF InBytes, Joined
  <2>3. PICK a \in Nat \ {0} : a = HeaderLen + 1
    BY ByteStreamAssumption DEF ByteStreamAssumption
  <2>4. /\ a + (Len(buffer) - 1) = HeaderLen + Len(buffer) /\ HeaderLen + Len(buffer) \in Nat
        /\ Size(sent[k]) = HeaderLen + Len(buffer)
    <3>1. PICK m \in Nat : m = Len(buffer)
      BY <2>1
    <3>2. a + (m - 1) = HeaderLen + m /\ HeaderLen + m \in Nat
      BY <2>3, ByteStreamAssumption DEF ByteStreamAssumption
    <3>3. Size(sent[k]) = HeaderLen + m
      BY <1>1, <1>3, <3>1 DEF Size
    <3> QED BY <3>1, <3>2, <3>3
  <2>5. CutAt(buffer, wire, sent, k, a)
    <3>1. StartsAt(InBytes, k, a) /\ a + (Len(buffer) - 1) <= Size(sent[k])
      BY <1>1, <1>3, <2>1, <2>2, <2>3, <2>4
    <3> QED BY <1>1, <1>3, <1>5, <2>2, <3>1, Cut
  <2>6. /\ Chain(wire, sent)
        /\ wire # <<>> => StartsAt(wire, k + 1, 1)
        /\ wire # <<>> => \A m : EndsWith(InBytes, m) => EndsWith(wire, m)
        /\ wire = <<>> => \A m : EndsWith(InBytes, m) => m = k
    BY <2>2, <2>4, <2>5 DEF CutAt
  <2> QED BY <1>1, <1>2, <1>3, <2>2, <2>6
<1> QED BY <1>4, <1>5

LEMMA ReadBodyKeeps == ASSUME ReadInv, ReadBody PROVE ReadInv'
<1>1. /\ delivered' = Append(delivered, Incoming(header)) /\ reader' = "handing"
      /\ buffer' = <<>> /\ header' = NoHeader /\ UNCHANGED <<open, sent, wire>>
  BY DEF ReadBody
<1>2. delivered \in Seq(Packet) /\ header \in Packet /\ wire \in Seq(Byte)
  BY DEF ReadInv
<1>3. delivered' \in Seq(Packet) /\ Len(delivered') = Len(delivered) + 1
  BY <1>1, <1>2, OutgoingType, AppendProperties
<1>4. NoHeader \in Packet
  BY ByteStreamAssumption DEF NoHeader, Packet, ByteStreamAssumption
<1>5. InStep' = InStep /\ Leading' = Leading
  BY <1>1, LeadingKept
<1>6. PICK l \in Nat, n \in Nat, d \in Nat :
        l = Leading /\ n = Len(sent) /\ d = Len(delivered) /\ l <= n /\ DOMAIN sent = 1 .. n
  <2>1. Len(sent) \in Nat /\ Len(delivered) \in Nat /\ DOMAIN sent = 1 .. Len(sent)
    BY DEF ReadInv
  <2>2. Leading \in Nat /\ Leading <= Len(sent)
    BY <2>1 DEF ReadInv
  <2> QED BY <2>1, <2>2
<1>7. InBytes' = wire /\ Entered' = d + 1
  BY <1>1, <1>2, <1>3, <1>6, ConcatEmptySeq DEF InBytes, Entered
<1>8. ASSUME Promised' PROVE Synced'
  <2>1. d + 1 < l \/ l = n
    BY <1>1, <1>3, <1>5, <1>6, <1>8 DEF Promised
  <2>2. Promised
    <3>1. d < l \/ l = n
      BY <1>6, <2>1
    <3> QED BY <1>6, <3>1 DEF Promised
  <2>3. /\ d + 1 \in DOMAIN sent /\ Chain(wire, sent)
        /\ wire # <<>> => StartsAt(wire, d + 2, 1)
        /\ wire # <<>> /\ open => EndsWith(wire, n)
        /\ wire = <<>> /\ open => n = d + 1
    BY <1>6, <2>2, BodyRead
  <2>4. Len(delivered') <= Leading'
    <3>1. d + 1 <= l
      BY <1>6, <2>1, <2>3
    <3> QED BY <1>3, <1>5, <1>6, <3>1
  <2>5. d + 2 = Entered' + 1 /\ d + 1 = Entered' /\ n = Len(sent')
    BY <1>1, <1>6, <1>7
  <2>6. /\ Chain(InBytes', sent')
        /\ InBytes' # <<>> =>
             /\ StartsAt(InBytes', Entered' + 1, 1)
             /\ open' => EndsWith(InBytes', Len(sent'))
        /\ InBytes' = <<>> /\ open' => Entered' = Len(sent')
    BY <1>1, <1>7, <2>3, <2>5
  <2> QED BY <1>1, <2>4, <2>6 DEF Synced, Chain, StartsAt, EndsWith
<1>9. (Len(buffer) <= Wanted)' /\ buffer' \in Seq(Byte)
  BY <1>1 DEF Wanted, NoHeader
<1>10. (Leading \in 0 .. Len(sent) /\ InStep = 1 .. Leading)'
  BY <1>1, <1>5 DEF ReadInv
<1> QED BY <1>1, <1>3, <1>4, <1>8, <1>9, <1>10 DEF ReadInv

LEMMA HandedOverKeeps == ASSUME ReadInv, HandedOver PROVE ReadInv'
<1>1. /\ reader = "handing" /\ reader' = "header" /\ buffer = <<>>
      /\ UNCHANGED <<open, sent, wire, buffer, header, delivered>>
  BY DEF HandedOver, ReadInv
<1>2. InStep' = InStep /\ Leading' = Leading /\ Promised' = Promised
  BY <1>1, LeadingKept DEF Promised
<1>3. Entered' = Entered /\ InBytes' = InBytes
  BY <1>1 DEF Entered, InBytes
<1>4. Synced => Synced'
  BY <1>1, <1>2, <1>3 DEF Synced, Chain, StartsAt, EndsWith
<1>5. (Len(buffer) <= Wanted)'
  BY <1>1, ByteStreamAssumption DEF Wanted, ByteStreamAssumption
<1> QED BY <1>1, <1>2, <1>4, <1>5 DEF ReadInv

LEMMA ReadStepInv == ReadInv /\ [Next]_vars => ReadInv'
<1> SUFFICES ASSUME ReadInv, [Next]_vars PROVE ReadInv'
  OBVIOUS
<1>1. CASE UNCHANGED <<open, sent, wire, readVars>>
  <2>1. InStep' = InStep /\ Leading' = Leading /\ Entered' = Entered /\ InBytes' = InBytes
        /\ Promised' = Promised /\ Wanted' = Wanted
    BY <1>1, LeadingKept DEF readVars, Entered, InBytes, Promised, Wanted
  <2>2. Synced' = Synced
    BY <1>1, <2>1 DEF readVars, Synced, Chain, StartsAt, EndsWith
  <2> QED BY <1>1, <2>1, <2>2 DEF readVars, ReadInv
<1>2. CASE \E p \in Replies : ServerSend(p)
  BY <1>2, ServerSendKeeps
<1>3. CASE ServerClose
  BY <1>3, ServerCloseKeeps
<1>4. CASE ReaderStep
  BY <1>4, ReadSomeKeeps, ReadFailedKeeps, ReadHeaderKeeps, SkipHeaderKeeps, ReadBodyKeeps
     DEF ReaderStep
<1>5. CASE HandedOver
  BY <1>5, HandedOverKeeps
<1> QED BY <1>1, <1>2, <1>3, <1>4, <1>5
        DEF Next, Enqueue, WriterRecv, WriteSome, WriteFailed, vars, readVars

LEMMA ReadInvariance == Spec => []ReadInv
BY ReadInit, ReadStepInv, PTL DEF Spec

\* Type correctness of both loops and the socket: only what a session makes is
\* in the channel, only a TLS stream holds bytes back, and read_exact never has
\* more bytes than the buffer it fills, for packets and pieces of every length.
THEOREM LoopsTyped == Spec => []TypeOK
<1>1. Init => limit \in Limits
  BY DEF Init
<1>2. limit \in Limits /\ [Next]_vars => (limit \in Limits)'
  BY DEF Next, Enqueue, WriterRecv, WriteSome, WriteFailed, ServerSend, ServerClose, ReaderStep,
         ReadSome, ReadFailed, ReadHeader, SkipHeader, ReadBody, HandedOver, vars, writeVars
<1>3. Spec => [](limit \in Limits)
  BY <1>1, <1>2, PTL DEF Spec
<1>4. WriteInv /\ ReadInv /\ limit \in Limits => TypeOK
  BY DEF WriteInv, ReadInv, TypeOK
<1> QED BY <1>3, <1>4, WriteInvariance, ReadInvariance, PTL

-----------------------------------------------------------------------------
(***************************************************************************)
(* The read loop implements PacketStream.                                  *)
(***************************************************************************)
Got == SubSeq(delivered, 1, Min({Len(delivered), Cardinality(InStep)}))

LEMMA MinOfTwo ==
  ASSUME NEW a \in Nat, NEW b \in Nat
  PROVE  Min({a, b}) = IF a <= b THEN a ELSE b
<1>1. PICK m : m = IF a <= b THEN a ELSE b
  OBVIOUS
<1>2. m \in {a, b} /\ \A y \in {a, b} : m <= y
  BY <1>1
<1>3. \A x \in {a, b} : (\A y \in {a, b} : x <= y) => x = m
  BY <1>2
<1>4. (CHOOSE x \in {a, b} : \A y \in {a, b} : x <= y) = m
  BY <1>2, <1>3
<1> QED BY <1>1, <1>4 DEF Min

GotCases ==
  /\ Leading \in Nat /\ Len(delivered) \in Nat
  /\ Len(delivered) <= Leading => Got = delivered
  /\ Leading <= Len(delivered) => Got = SubSeq(delivered, 1, Leading)

LEMMA GotIs == ReadInv => GotCases
<1> SUFFICES ASSUME ReadInv PROVE GotCases
  OBVIOUS
<1>1. delivered \in Seq(Packet) /\ Len(delivered) \in Nat /\ Leading \in Nat
  BY DEF ReadInv
<1>2. PICK l \in Nat, d \in Nat : l = Leading /\ d = Len(delivered)
  BY <1>1
<1>3. Got = SubSeq(delivered, 1, IF d <= l THEN d ELSE l)
  BY <1>2, MinOfTwo DEF Got, Leading
<1>4. SubSeq(delivered, 1, d) = delivered
  BY <1>1, <1>2, SubSeqFull
<1>5. /\ d <= l => Got = delivered
      /\ l <= d => Got = SubSeq(delivered, 1, l)
  BY <1>3, <1>4
<1> QED BY <1>1, <1>2, <1>5 DEF GotCases

LEMMA GotIsNext == ReadInv' => GotCases'
BY GotIs, PTL

LEMMA SendIsSend ==
  ASSUME ReadInv, ReadInv', NEW p \in Replies, ServerSend(p)
  PROVE  Inbound!Send(p)
<1>1. sent' = Append(sent, p) /\ delivered' = delivered
  BY DEF ServerSend, readVars
<1>2. PICK l \in Nat, d \in Nat : l = Leading /\ d = Len(delivered)
  BY GotIs DEF GotCases
<1>3. PICK g \in Nat : g = Leading'
  BY DEF ReadInv
<1>4. /\ g = IF l = Len(sent) /\ p.decodes THEN l + 1 ELSE l
      /\ l = Len(sent) => d <= l
  <2>1. l = Len(sent) => Synced
    BY <1>2 DEF ReadInv, Promised
  <2>2. l = Len(sent) => d <= l
    BY <1>2, <2>1 DEF Synced
  <2> QED BY <1>1, <1>2, <1>3, <2>2, InStepGrows
<1>5. /\ d <= l => Got = delivered
      /\ l <= d => Got = SubSeq(delivered, 1, l)
  BY <1>2, GotIs DEF GotCases
<1>6. /\ d <= g => Got' = delivered
      /\ g <= d => Got' = SubSeq(delivered, 1, g)
  <2>1. (/\ Len(delivered) <= Leading => Got = delivered
         /\ Leading <= Len(delivered) => Got = SubSeq(delivered, 1, Leading))'
    BY GotIsNext DEF GotCases
  <2> QED BY <1>1, <1>2, <1>3, <2>1
<1>7. Got' = Got
  BY <1>4, <1>5, <1>6
<1> QED BY <1>1, <1>7 DEF Inbound!Send, Got

LEMMA BodyIsDelivery ==
  ASSUME ReadInv, ReadInv', ReadBody
  PROVE  Inbound!Deliver \/ UNCHANGED <<sent, Got>>
<1>1. sent' = sent /\ delivered' = Append(delivered, Incoming(header)) /\ Leading' = Leading
  BY LeadingKept DEF ReadBody
<1>2. PICK l \in Nat, d \in Nat : l = Leading /\ d = Len(delivered)
  BY GotIs DEF GotCases
<1>3. /\ delivered \in Seq(Packet) /\ delivered' \in Seq(Packet) /\ Len(delivered') = d + 1
      /\ \A j \in 1 .. d : delivered'[j] = delivered[j]
  <2>1. delivered \in Seq(Packet) /\ Incoming(header) \in Packet
    BY OutgoingType DEF ReadInv
  <2> QED BY <1>1, <1>2, <2>1, AppendProperties
<1>4. /\ d <= l => Got = delivered
      /\ l <= d => Got = SubSeq(delivered, 1, l)
  BY <1>2, GotIs DEF GotCases
<1>5. /\ d + 1 <= l => Got' = delivered'
      /\ l <= d + 1 => Got' = SubSeq(delivered', 1, l)
  <2>1. (/\ Len(delivered) <= Leading => Got = delivered
         /\ Leading <= Len(delivered) => Got = SubSeq(delivered, 1, Leading))'
    BY GotIsNext DEF GotCases
  <2> QED BY <1>1, <1>2, <1>3, <2>1
<1>6. CASE d < l
  <2>1. Got = delivered /\ Got' = Append(delivered, Incoming(header)) /\ Len(Got) = d
    BY <1>1, <1>2, <1>4, <1>5, <1>6
  <2>2. d + 1 \in DOMAIN sent /\ header = sent[d + 1]
    BY <1>2, <1>6, BodyRead DEF Promised
  <2>3. Len(Got) < Len(sent)
    BY <1>2, <2>1, <2>2 DEF ReadInv
  <2> QED BY <1>1, <2>1, <2>2, <2>3 DEF Inbound!Deliver, Got
<1>7. CASE l <= d
  <2>1. Got = SubSeq(delivered, 1, l) /\ Got' = SubSeq(delivered', 1, l)
    BY <1>4, <1>5, <1>7
  <2>2. SubSeq(delivered', 1, l) = SubSeq(delivered, 1, l)
    <3>1. PICK s \in Seq(Packet) : s = delivered
      BY <1>3
    <3>2. PICK t \in Seq(Packet) : t = delivered'
      BY <1>3
    <3>3. Len(s) = d /\ Len(t) = d + 1 /\ \A j \in 1 .. l : t[j] = s[j]
      BY <1>2, <1>3, <1>7, <3>1, <3>2
    <3>4. l \in 0 .. Len(s) /\ l \in 0 .. Len(t)
      BY <1>7, <3>3
    <3>5. /\ Take(s, l) \in Seq(Packet) /\ Len(Take(s, l)) = l
          /\ \A j \in 1 .. l : Take(s, l)[j] = s[j]
      BY <3>4, TakeDrop
    <3>6. /\ Take(t, l) \in Seq(Packet) /\ Len(Take(t, l)) = l
          /\ \A j \in 1 .. l : Take(t, l)[j] = t[j]
      BY <3>4, TakeDrop
    <3>7. Take(t, l) = Take(s, l)
      BY <3>3, <3>5, <3>6, SeqEqual
    <3> QED BY <3>1, <3>2, <3>7 DEF Take
  <2> QED BY <1>1, <2>1, <2>2
<1> QED BY <1>6, <1>7

\* What send_message_to_session is given is what the server sent, in the server's
\* order, whole, once and deobfuscated, until a header comes that does not decode:
\* for packets of every length, bodies that are empty included, in whatever pieces
\* the socket has them, and however many bytes are lost when the peer closes.
THEOREM ReadLoopImplementsStream == Spec => InboundStream
<1>1. Init => Inbound!Init
  <2> SUFFICES ASSUME Init PROVE Inbound!Init
    OBVIOUS
  <2>1. ReadInv /\ sent = <<>> /\ delivered = <<>> /\ Len(delivered) = 0
    BY ReadInit DEF Init
  <2>2. Got = <<>>
    BY <2>1, GotIs DEF GotCases
  <2> QED BY <2>1, <2>2 DEF Inbound!Init, Got
<1>2. ReadInv /\ ReadInv' /\ [Next]_vars => [Inbound!Next]_(Inbound!streamVars)
  <2> SUFFICES ASSUME ReadInv, ReadInv', [Next]_vars
               PROVE  Inbound!Next \/ UNCHANGED <<sent, Got>>
    BY DEF Inbound!streamVars, Got
  <2>1. CASE \E p \in Replies : ServerSend(p)
    BY <2>1, SendIsSend DEF Inbound!Next
  <2>2. CASE ReadBody
    BY <2>2, BodyIsDelivery DEF Inbound!Next
  <2>3. CASE UNCHANGED <<sent, delivered>>
    BY <2>3, LeadingKept DEF Got
  <2> QED BY <2>1, <2>2, <2>3
          DEF Next, Enqueue, WriterRecv, WriteSome, WriteFailed, ServerClose, ReaderStep, ReadSome,
              ReadFailed, ReadHeader, SkipHeader, HandedOver, vars, readVars
<1> QED BY <1>1, <1>2, ReadInvariance, PTL DEF Spec, InboundStream, Inbound!Spec
=============================================================================
