---------------------- MODULE AccountingSessionProofs ----------------------
(***************************************************************************)
(* Invariants of a Session for any set of callers, every even modulus and  *)
(* every capacity, with cancelled calls and the end of the connection. The *)
(* three are independent of each other; each comes with the types its      *)
(* induction needs.                                                        *)
(***************************************************************************)
EXTENDS AccountingSession, FiniteSetTheorems, SequenceTheorems, TLAPS

-----------------------------------------------------------------------------
\* Adding one or two to a number wraps at most once.
LEMMA WrapsOnce ==
  ASSUME NEW n \in Numbers, NEW k \in {1, 2}
  PROVE  WrappingAdd(n, k) = IF n + k < SeqMod THEN n + k ELSE n + k - SeqMod
<1>1. n \in Nat /\ k \in Nat /\ n < SeqMod /\ SeqMod \in Nat /\ SeqMod >= 2
  BY AccountingSessionAssumption DEF Numbers
<1>2. CASE n + k < SeqMod
  BY <1>1, <1>2, SMTT(30) DEF WrappingAdd
<1>3. CASE ~(n + k < SeqMod)
  <2>1. n + k - SeqMod \in 0 .. SeqMod - 1
    BY <1>1, <1>3
  <2>2. n + k = SeqMod * 1 + (n + k - SeqMod)
    BY <1>1
  <2> QED
    BY <1>1, <1>3, <2>1, <2>2, SMTT(30) DEF WrappingAdd
<1> QED
  BY <1>2, <1>3

\* The modulus is even, so wrapping keeps the parity of a number.
LEMMA WrappingAddKeepsParity ==
  ASSUME NEW n \in Numbers, NEW k \in {1, 2}
  PROVE  /\ WrappingAdd(n, k) \in Numbers
         /\ WrappingAdd(n, k) % 2 = (n + k) % 2
<1>1. SeqMod \in Nat /\ SeqMod >= 2 /\ SeqMod % 2 = 0 /\ n \in Nat /\ n < SeqMod
  BY AccountingSessionAssumption DEF Numbers
<1>2. CASE n + k < SeqMod
  BY <1>1, <1>2, WrapsOnce DEF Numbers
<1>3. CASE ~(n + k < SeqMod)
  <2>1. WrappingAdd(n, k) = n + k - SeqMod /\ n + k - SeqMod \in 0 .. SeqMod - 1
    BY <1>1, <1>3, WrapsOnce
  <2>2. \A a, m \in Nat : m % 2 = 0 /\ a >= m => (a - m) % 2 = a % 2
    OBVIOUS
  <2> HIDE DEF Numbers
  <2>3. n + k \in Nat /\ n + k >= SeqMod
    BY <1>1, <1>3
  <2>4. (n + k - SeqMod) % 2 = (n + k) % 2
    BY <1>1, <2>2, <2>3
  <2> QED
    BY <2>1, <2>4 DEF Numbers
<1> QED
  BY <1>2, <1>3

-----------------------------------------------------------------------------
\* The members of a bag to which a packet is added, or from which some are taken.
LEMMA BagAdd ==
  ASSUME NEW B, NEW r PROVE BagToSet(B (+) SetToBag({r})) = BagToSet(B) \cup {r}
BY DEF (+), BagToSet, SetToBag

LEMMA BagRemove ==
  ASSUME NEW B, NEW C PROVE BagToSet(B (-) C) \subseteq BagToSet(B)
BY DEF (-), BagToSet

-----------------------------------------------------------------------------
(***************************************************************************)
(* LateCallsRefused. A caller is late only once the session is complete,   *)
(* and from the checks of a complete session there is only one way out.    *)
(***************************************************************************)
LateInv ==
  /\ pc \in [Callers -> Stages]
  /\ late \in [Callers -> BOOLEAN]
  /\ complete \in BOOLEAN
  /\ \A c \in Callers : late[c] => complete /\ pc[c] \in {"idle"} \cup Checking

LEMMA LateInit == Init => LateInv
BY DEF Init, LateInv, Stages

LEMMA LateStep == LateInv /\ [Next]_vars => LateInv'
<1> SUFFICES ASSUME LateInv, [Next]_vars PROVE LateInv'
  OBVIOUS
<1> USE DEF LateInv, Stages, Checking, Waiting, Goto, Return, lockVars, linkVars
<1>1. ASSUME NEW c \in Callers, BeginCall(c) PROVE LateInv'
  BY <1>1 DEF BeginCall
<1>2. ASSUME NEW c \in Callers, CallStep(c) PROVE LateInv'
  <2>1. CASE ReceiverClosed(c)
    BY <2>1 DEF ReceiverClosed
  <2>2. CASE ReadSessionComplete(c)
    BY <2>2 DEF ReadSessionComplete
  <2>3. CASE NextSequenceNumber(c)
    BY <2>3 DEF NextSequenceNumber
  <2>4. CASE Send(c) \/ SendFailed(c)
    BY <2>4 DEF Send, SendFailed
  <2>5. CASE WaitForLock(c) \/ AcquireLock(c)
    BY <2>5 DEF WaitForLock, AcquireLock
  <2>6. CASE Receive(c)
    BY <2>6 DEF Receive, Parsed, NotParsed
  <2>7. CASE ReceiveClosed(c)
    BY <2>7 DEF ReceiveClosed
  <2>8. CASE Complete(c)
    <3>1. /\ complete' = TRUE /\ pc' = [pc EXCEPT ![c] = "idle"]
          /\ late' = [d \in Callers |-> late[d] \/ pc[d] \in {"idle", "receiver_closed"}]
      BY <2>8 DEF Complete
    <3>2. late' \in [Callers -> BOOLEAN] /\ pc' \in [Callers -> Stages] /\ complete' \in BOOLEAN
      BY <3>1
    <3>3. ASSUME NEW d \in Callers, late'[d] PROVE pc'[d] \in {"idle"} \cup Checking
      <4>1. late[d] \/ pc[d] \in {"idle", "receiver_closed"}
        BY <3>1, <3>3
      <4> QED
        BY <3>1, <4>1
    <3> QED
      BY <3>1, <3>2, <3>3
  <2> QED
    BY <1>2, <2>1, <2>2, <2>3, <2>4, <2>5, <2>6, <2>7, <2>8 DEF CallStep
<1>3. ASSUME NEW c \in Callers, Cancel(c) PROVE LateInv'
  BY <1>3 DEF Cancel
<1>4. CASE AnswerSome \/ ServerClose \/ ReadTaskEnds \/ WriteTaskEnds \/ ManagerDropped
  BY <1>4 DEF AnswerSome, Answer, ServerClose, ReadTaskEnds, WriteTaskEnds, ManagerDropped
<1>5. CASE UNCHANGED vars
  BY <1>5 DEF vars
<1> QED
  BY <1>1, <1>2, <1>3, <1>4, <1>5 DEF Next

\* Whatever the number of callers, one whose look at the receiver was still to come
\* when another's reply completed the session sends nothing in it.
THEOREM LateCallsAreRefused == Spec => []LateCallsRefused
<1>1. LateInv => LateCallsRefused
  BY DEF LateInv, LateCallsRefused
<1> QED
  BY <1>1, LateInit, LateStep, PTL DEF Spec

-----------------------------------------------------------------------------
(***************************************************************************)
(* NumbersTellDirection. The number a call has taken and not yet sent is   *)
(* odd like those it has sent.                                             *)
(***************************************************************************)
Reply == [by : Callers, seq : Numbers, ok : BOOLEAN]

NumberInv ==
  /\ pc \in [Callers -> Stages]
  /\ number \in [Callers -> Numbers]
  /\ nextSeq \in Numbers
  /\ BagToSet(requests) \subseteq Request
  /\ inbox \in Seq(Reply)
  /\ \A c \in Callers : pc[c] = "send" => number[c] % 2 = 1
  /\ NumbersTellDirection

LEMMA NumberInit == Init => NumberInv
<1> SUFFICES ASSUME Init PROVE NumberInv
  OBVIOUS
<1>1. BagToSet(requests) = {}
  BY DEF Init, EmptyBag, BagToSet, SetToBag
<1>2. 0 \in Numbers /\ 1 \in Numbers
  BY AccountingSessionAssumption DEF Numbers
<1>3. nextSeq % 2 = 1 /\ inbox \in Seq(Reply) /\ DOMAIN inbox = {}
  BY DEF Init
<1> QED
  BY <1>1, <1>2, <1>3 DEF Init, NumberInv, NumbersTellDirection, Stages

LEMMA NumberStep == NumberInv /\ [Next]_vars => NumberInv'
<1> SUFFICES ASSUME NumberInv, [Next]_vars PROVE NumberInv'
  OBVIOUS
<1> USE DEF NumberInv, NumbersTellDirection
<1>0. 0 \in Numbers
  BY AccountingSessionAssumption DEF Numbers
<1>1. ASSUME NEW c \in Callers, BeginCall(c) PROVE NumberInv'
  BY <1>1 DEF BeginCall, Goto, Stages, Checking, linkVars
<1>2. ASSUME NEW c \in Callers, CallStep(c) PROVE NumberInv'
  <2> USE DEF Goto, Return, Stages, Checking, Waiting, lockVars, linkVars
  <2>1. CASE ReceiverClosed(c)
    BY <1>0, <2>1 DEF ReceiverClosed
  <2>2. CASE ReadSessionComplete(c)
    BY <1>0, <2>2 DEF ReadSessionComplete
  <2>3. CASE NextSequenceNumber(c)
    <3>1. nextSeq' \in Numbers /\ nextSeq' % 2 = (nextSeq + 2) % 2
      BY <2>3, WrappingAddKeepsParity DEF NextSequenceNumber
    <3>2. (nextSeq + 2) % 2 = nextSeq % 2
      BY AccountingSessionAssumption DEF Numbers
    <3>3. number' = [number EXCEPT ![c] = nextSeq] /\ pc' = [pc EXCEPT ![c] = "send"]
      BY <2>3 DEF NextSequenceNumber
    <3>4. UNCHANGED <<requests, inbox>>
      BY <2>3 DEF NextSequenceNumber
    <3> HIDE DEF Numbers
    <3> QED
      BY <3>1, <3>2, <3>3, <3>4
  <2>4. CASE Send(c)
    <3>1. BagToSet(requests') \subseteq BagToSet(requests) \cup {[by |-> c, seq |-> number[c]]}
      BY <2>4, BagAdd DEF Send
    <3>2. number[c] % 2 = 1 /\ [by |-> c, seq |-> number[c]] \in Request
      BY <2>4 DEF Send, Request
    <3>3. pc' = [pc EXCEPT ![c] = "sent"] /\ UNCHANGED <<number, nextSeq, inbox>>
      BY <2>4 DEF Send
    <3> QED
      BY <3>1, <3>2, <3>3
  <2>5. CASE SendFailed(c)
    BY <1>0, <2>5 DEF SendFailed
  <2>6. CASE WaitForLock(c) \/ AcquireLock(c)
    BY <2>6 DEF WaitForLock, AcquireLock
  <2>7. CASE Receive(c)
    <3>1. inbox' \in Seq(Reply) /\ \A k \in DOMAIN inbox' : inbox'[k] = inbox[k + 1] /\ k + 1 \in DOMAIN inbox
      BY <2>7 DEF Receive
    <3>2. /\ pc' \in [Callers -> Stages] /\ number' \in [Callers -> Numbers]
          /\ UNCHANGED <<nextSeq, requests>>
          /\ \A d \in Callers : pc'[d] = "send" => pc[d] = "send" /\ number'[d] = number[d]
      BY <1>0, <2>7 DEF Receive, Parsed, NotParsed
    <3> QED
      BY <3>1, <3>2
  <2>8. CASE ReceiveClosed(c)
    BY <1>0, <2>8 DEF ReceiveClosed
  <2>9. CASE Complete(c)
    BY <1>0, <2>9 DEF Complete
  <2> QED
    BY <1>2, <2>1, <2>2, <2>3, <2>4, <2>5, <2>6, <2>7, <2>8, <2>9 DEF CallStep
<1>3. ASSUME NEW c \in Callers, Cancel(c) PROVE NumberInv'
  BY <1>0, <1>3 DEF Cancel, Return, Stages, linkVars
<1>4. CASE AnswerSome
  <2>1. PICK r \in BagToSet(requests), ok \in BOOLEAN : Answer(r, ok)
    BY <1>4 DEF AnswerSome
  <2>2. r.by \in Callers /\ r.seq \in Numbers /\ r.seq % 2 = 1
    BY <2>1 DEF Request
  <2>3. WrappingAdd(r.seq, 1) \in Numbers /\ WrappingAdd(r.seq, 1) % 2 = (r.seq + 1) % 2
    BY <2>2, WrappingAddKeepsParity
  <2>4. (r.seq + 1) % 2 = 0
    BY <2>2 DEF Numbers
  <2> DEFINE answer == [by |-> r.by, seq |-> WrappingAdd(r.seq, 1), ok |-> ok]
  <2>5. answer \in Reply /\ answer.seq % 2 = 0
    BY <2>2, <2>3, <2>4 DEF Reply
  <2>6. inbox' = Append(inbox, answer) /\ BagToSet(requests') \subseteq BagToSet(requests)
    BY <2>1, BagRemove DEF Answer
  <2>7. UNCHANGED <<pc, number, nextSeq>>
    BY <2>1 DEF Answer
  <2> HIDE DEF answer
  <2>8. inbox' \in Seq(Reply) /\ \A k \in DOMAIN inbox' : inbox'[k].seq % 2 = 0
    BY <2>5, <2>6
  <2> QED
    BY <2>6, <2>7, <2>8
<1>5. CASE ServerClose
  <2>1. BagToSet(requests') \subseteq BagToSet(requests)
    BY <1>5, BagRemove DEF ServerClose
  <2> QED
    BY <1>5, <2>1 DEF ServerClose
<1>6. CASE ReadTaskEnds
  <2>1. BagToSet(requests') = {}
    BY <1>6 DEF ReadTaskEnds, EmptyBag, BagToSet, SetToBag
  <2> QED
    BY <1>6, <2>1 DEF ReadTaskEnds
<1>8. CASE WriteTaskEnds \/ ManagerDropped
  BY <1>8 DEF WriteTaskEnds, ManagerDropped
<1>7. CASE UNCHANGED vars
  BY <1>7 DEF vars, linkVars
<1> QED
  BY <1>1, <1>2, <1>3, <1>4, <1>5, <1>6, <1>7, <1>8 DEF Next

\* For every even modulus and any number of callers, requests carry odd numbers and
\* replies even ones, however often the number wraps.
THEOREM NumbersKeepTheirDirection == Spec => []NumbersTellDirection
<1>1. NumberInv => NumbersTellDirection
  BY DEF NumberInv
<1> QED
  BY <1>1, NumberInit, NumberStep, PTL DEF Spec

-----------------------------------------------------------------------------
(***************************************************************************)
(* GuardFollowsCall. With the types of the lock it is inductive.           *)
(***************************************************************************)
\* Nobody waits twice.
Distinct(q) == \A j, k \in DOMAIN q : q[j] = q[k] => j = k

\* What the three operations on the queue make of it: a caller not in it joins at its
\* end, the first one goes, or one from anywhere in it.
LEMMA QueueAppend ==
  ASSUME NEW q \in Seq(Callers), NEW c \in Callers, Distinct(q), c \notin Range1(q)
  PROVE  /\ Append(q, c) \in Seq(Callers)
         /\ Distinct(Append(q, c))
         /\ Range1(Append(q, c)) = Range1(q) \cup {c}
<1>1. /\ DOMAIN Append(q, c) = 1 .. Len(q) + 1 /\ DOMAIN q = 1 .. Len(q) /\ Len(q) \in Nat
      /\ \A k \in DOMAIN q : Append(q, c)[k] = q[k]
      /\ Append(q, c)[Len(q) + 1] = c
  OBVIOUS
<1>2. \A x : x \in Range1(Append(q, c)) <=> x \in Range1(q) \/ x = c
  BY <1>1 DEF Range1
<1> QED
  BY <1>1, <1>2 DEF Range1, Distinct

LEMMA QueueTail ==
  ASSUME NEW q \in Seq(Callers), q # <<>>, Distinct(q)
  PROVE  /\ Tail(q) \in Seq(Callers)
         /\ Distinct(Tail(q))
         /\ Range1(Tail(q)) = Range1(q) \ {Head(q)}
         /\ Head(q) \in Range1(q)
<1>1. /\ DOMAIN Tail(q) = 1 .. Len(q) - 1 /\ DOMAIN q = 1 .. Len(q) /\ Len(q) \in Nat /\ Len(q) >= 1
      /\ \A k \in DOMAIN Tail(q) : Tail(q)[k] = q[k + 1]
      /\ Head(q) = q[1]
  OBVIOUS
<1>2. \A x : x \in Range1(Tail(q)) <=> x \in Range1(q) /\ x # Head(q)
  <2>1. ASSUME NEW x, x \in Range1(Tail(q)) PROVE x \in Range1(q) /\ x # Head(q)
    BY <1>1, <2>1 DEF Range1, Distinct
  <2>2. ASSUME NEW x, x \in Range1(q), x # Head(q) PROVE x \in Range1(Tail(q))
    <3>1. PICK k \in DOMAIN q : q[k] = x
      BY <2>2 DEF Range1
    <3>2. k - 1 \in DOMAIN Tail(q) /\ Tail(q)[k - 1] = x
      BY <1>1, <2>2, <3>1
    <3> QED
      BY <3>2 DEF Range1
  <2> QED
    BY <2>1, <2>2
<1>3. Distinct(Tail(q))
  <2> SUFFICES ASSUME NEW j \in DOMAIN Tail(q), NEW k \in DOMAIN Tail(q), Tail(q)[j] = Tail(q)[k]
               PROVE  j = k
    BY DEF Distinct
  <2>1. j + 1 \in DOMAIN q /\ k + 1 \in DOMAIN q /\ q[j + 1] = q[k + 1]
    BY <1>1
  <2>2. j + 1 = k + 1
    BY <2>1 DEF Distinct
  <2> QED
    BY <1>1, <2>2
<1>4. Tail(q) \in Seq(Callers) /\ Head(q) \in Range1(q)
  BY <1>1 DEF Range1
<1> QED
  BY <1>2, <1>3, <1>4

LEMMA QueueRemove ==
  ASSUME NEW q \in Seq(Callers), NEW i \in DOMAIN q, Distinct(q),
         NEW r, r = SubSeq(q, 1, i - 1) \o SubSeq(q, i + 1, Len(q))
  PROVE  /\ r \in Seq(Callers)
         /\ Distinct(r)
         /\ Range1(r) = Range1(q) \ {q[i]}
<1>1. i \in 1 .. Len(q) /\ Len(q) \in Nat /\ DOMAIN q = 1 .. Len(q)
  OBVIOUS
<1>2. /\ r \in Seq(Callers) /\ DOMAIN r = 1 .. Len(q) - 1
      /\ \A k \in 1 .. Len(q) - 1 : r[k] = IF k < i THEN q[k] ELSE q[k + 1]
  <2> DEFINE before == SubSeq(q, 1, i - 1)
             after == SubSeq(q, i + 1, Len(q))
  <2>1. /\ before \in Seq(Callers) /\ Len(before) = i - 1
        /\ \A k \in 1 .. i - 1 : before[k] = q[k]
    BY <1>1
  <2>2. /\ after \in Seq(Callers) /\ Len(after) = Len(q) - i
        /\ \A k \in 1 .. Len(q) - i : after[k] = q[k + i]
    <3>0. PICK m, n : m = i + 1 /\ n = Len(q)
      OBVIOUS
    <3>1. m \in Int /\ n \in Int /\ m = i + 1 /\ n = Len(q)
      BY <1>1, <3>0
    <3>2. \A k \in m .. n : q[k] \in Callers
      BY <1>1, <3>1
    <3>3. after = SubSeq(q, m, n)
      BY <3>1
    <3>4. /\ after \in Seq(Callers)
          /\ Len(after) = IF m <= n THEN n - m + 1 ELSE 0
          /\ \A k \in 1 .. n - m + 1 : after[k] = q[m + k - 1]
      BY <3>1, <3>2, <3>3, SubSeqProperties
    <3> HIDE DEF after
    <3>5. Len(after) = Len(q) - i
      BY <1>1, <3>1, <3>4
    <3>6. n - m + 1 = Len(q) - i /\ \A k \in 1 .. Len(q) - i : m + k - 1 = k + i
      BY <1>1, <3>1, SMTT(30)
    <3> QED BY <3>4, <3>5, <3>6
  <2>3. r = before \o after
    OBVIOUS
  <2> HIDE DEF before, after
  <2>4. /\ r \in Seq(Callers) /\ Len(r) = (i - 1) + (Len(q) - i)
        /\ \A k \in 1 .. (i - 1) + (Len(q) - i) :
             r[k] = IF k <= i - 1 THEN before[k] ELSE after[k - (i - 1)]
    <3>1. /\ before \o after \in Seq(Callers)
          /\ Len(before \o after) = Len(before) + Len(after)
          /\ \A k \in 1 .. Len(before) + Len(after) : (before \o after)[k] =
               IF k <= Len(before) THEN before[k] ELSE after[k - Len(before)]
      BY <2>1, <2>2, ConcatProperties, Zenon
    <3>2. Len(before) = i - 1 /\ Len(after) = Len(q) - i
      BY <2>1, <2>2
    <3> QED
      BY <2>3, <3>1, <3>2, Zenon
  <2>5. (i - 1) + (Len(q) - i) = Len(q) - 1
    BY <1>1
  <2>6. DOMAIN r = 1 .. Len(q) - 1
    BY <2>4, <2>5
  <2>7. ASSUME NEW k \in 1 .. Len(q) - 1, k < i PROVE r[k] = q[k]
    <3>1. k \in 1 .. i - 1 /\ k <= i - 1
      BY <1>1, <2>7
    <3> QED
      BY <2>1, <2>4, <2>5, <3>1
  <2>8. ASSUME NEW k \in 1 .. Len(q) - 1, ~(k < i) PROVE r[k] = q[k + 1]
    <3>1. ~(k <= i - 1) /\ k - (i - 1) \in 1 .. Len(q) - i
      BY <1>1, <2>8
    <3>2. r[k] = after[k - (i - 1)]
      BY <2>4, <2>5, <3>1
    <3>3. after[k - (i - 1)] = q[k - (i - 1) + i]
      BY <2>2, <3>1
    <3>4. k - (i - 1) + i = k + 1
      BY <1>1
    <3> QED
      BY <3>2, <3>3, <3>4
  <2> QED
    BY <2>4, <2>6, <2>7, <2>8
<1>3. \A x : x \in Range1(r) <=> x \in Range1(q) /\ x # q[i]
  <2>1. ASSUME NEW x, x \in Range1(r) PROVE x \in Range1(q) /\ x # q[i]
    <3>1. PICK k \in DOMAIN r : r[k] = x
      BY <2>1 DEF Range1
    <3>2. PICK j \in DOMAIN q : q[j] = x /\ j # i
      <4>1. CASE k < i
        BY <1>1, <1>2, <3>1, <4>1
      <4>2. CASE ~(k < i)
        <5>1. k + 1 \in DOMAIN q /\ k + 1 # i
          BY <1>1, <1>2, <3>1, <4>2
        <5>2. x = q[k + 1]
          BY <1>2, <3>1, <4>2
        <5> QED
          BY <5>1, <5>2
      <4> QED
        BY <4>1, <4>2
    <3> QED
      BY <3>2 DEF Range1, Distinct
  <2>2. ASSUME NEW x, x \in Range1(q), x # q[i] PROVE x \in Range1(r)
    <3>1. PICK k \in DOMAIN q : q[k] = x
      BY <2>2 DEF Range1
    <3>2. PICK j \in DOMAIN r : r[j] = x
      <4>1. CASE k < i
        <5>1. k \in 1 .. Len(q) - 1
          BY <1>1, <3>1, <4>1
        <5> QED
          BY <1>2, <3>1, <4>1, <5>1
      <4>2. CASE k > i
        <5>1. k - 1 \in 1 .. Len(q) - 1 /\ ~(k - 1 < i) /\ (k - 1) + 1 = k
          BY <1>1, <3>1, <4>2
        <5> QED
          BY <1>2, <3>1, <5>1
      <4>3. k # i
        BY <2>2, <3>1
      <4>4. k \in Int /\ i \in Int
        BY <1>1, <3>1
      <4>5. k < i \/ k > i
        BY <4>3, <4>4
      <4> QED
        BY <4>1, <4>2, <4>5
    <3> QED
      BY <3>2 DEF Range1
  <2> QED
    BY <2>1, <2>2
<1>4. Distinct(r)
  <2> SUFFICES ASSUME NEW j \in DOMAIN r, NEW k \in DOMAIN r, r[j] = r[k] PROVE j = k
    BY DEF Distinct
  <2> DEFINE At(n) == IF n < i THEN n ELSE n + 1
  <2>1. ASSUME NEW n \in DOMAIN r PROVE At(n) \in DOMAIN q /\ q[At(n)] = r[n]
    <3>1. n \in 1 .. Len(q) - 1 /\ r[n] = IF n < i THEN q[n] ELSE q[n + 1]
      BY <1>2
    <3>2. CASE n < i
      BY <1>1, <3>1, <3>2
    <3>3. CASE ~(n < i)
      <4>1. At(n) = n + 1 /\ r[n] = q[n + 1]
        BY <3>1, <3>3
      <4>2. n + 1 \in 1 .. Len(q)
        BY <1>1, <3>1, SMTT(30)
      <4> QED
        BY <1>1, <4>1, <4>2
    <3> QED
      BY <3>2, <3>3
  <2>2. PICK a, b : a = At(j) /\ b = At(k)
    OBVIOUS
  <2>3. a \in DOMAIN q /\ b \in DOMAIN q /\ q[a] = q[b]
    BY <2>1, <2>2
  <2>4. a = b
    BY <2>3 DEF Distinct
  <2>5. j \in Int /\ k \in Int /\ i \in Int
    BY <1>1, <1>2
  <2> QED
    BY <2>2, <2>4, <2>5
<1> QED
  BY <1>2, <1>3, <1>4

Queued == {c \in Callers : pc[c] \in {"receiver_closed", "write_lock"}}

GuardInv ==
  /\ pc \in [Callers -> Stages]
  /\ holder \in Callers \cup {NoCaller}
  /\ queue \in Seq(Callers)
  /\ \A c \in Callers : holder = c <=> pc[c] \in {"recv", "complete"}
  /\ Range1(queue) = Queued
  /\ Distinct(queue)

LEMMA GuardInit == Init => GuardInv
<1> SUFFICES ASSUME Init PROVE GuardInv
  OBVIOUS
<1>1. queue \in Seq(Callers) /\ Range1(queue) = {} /\ Distinct(queue)
  BY DEF Init, Range1, Distinct
<1> QED
  BY <1>1, AccountingSessionAssumption DEF Init, GuardInv, Stages, Queued

LEMMA GuardStep == GuardInv /\ [Next]_vars => GuardInv'
<1> SUFFICES ASSUME GuardInv, [Next]_vars PROVE GuardInv'
  OBVIOUS
<1> USE AccountingSessionAssumption DEF GuardInv, Goto, Return, Stages, Checking, Waiting, Queued
<1>1. ASSUME NEW c \in Callers, BeginCall(c) PROVE GuardInv'
  <2>1. queue' = Append(queue, c) /\ c \notin Range1(queue)
    BY <1>1 DEF BeginCall
  <2>2. queue' \in Seq(Callers) /\ Distinct(queue') /\ Range1(queue') = Range1(queue) \cup {c}
    BY <2>1, QueueAppend
  <2> QED
    BY <1>1, <2>2 DEF BeginCall
<1>2. ASSUME NEW c \in Callers, CallStep(c) PROVE GuardInv'
  <2>1. ASSUME MyTurn(c), queue' = Tail(queue)
        PROVE  /\ holder = NoCaller
               /\ queue' \in Seq(Callers) /\ Distinct(queue') /\ Range1(queue') = Range1(queue) \ {c}
    BY <2>1, QueueTail DEF MyTurn
  <2>2. CASE ReceiverClosed(c)
    BY <2>1, <2>2 DEF ReceiverClosed
  <2>3. CASE ReadSessionComplete(c)
    BY <2>3 DEF ReadSessionComplete, lockVars, Range1, Distinct
  <2>4. CASE NextSequenceNumber(c)
    BY <2>4 DEF NextSequenceNumber, lockVars, Range1, Distinct
  <2>5. CASE Send(c) \/ SendFailed(c)
    BY <2>5 DEF Send, SendFailed, lockVars, Range1, Distinct
  <2>6. CASE WaitForLock(c)
    <3>1. queue' = Append(queue, c) /\ c \notin Range1(queue)
      BY <2>6 DEF WaitForLock
    <3>2. queue' \in Seq(Callers) /\ Distinct(queue') /\ Range1(queue') = Range1(queue) \cup {c}
      BY <3>1, QueueAppend
    <3> QED
      BY <2>6, <3>2 DEF WaitForLock
  <2>7. CASE AcquireLock(c)
    BY <2>1, <2>7 DEF AcquireLock
  <2>8. CASE Receive(c)
    <3>1. UNCHANGED queue /\ pc[c] = "recv"
      BY <2>8 DEF Receive
    <3>2. \/ pc' = [pc EXCEPT ![c] = "complete"] /\ UNCHANGED holder
          \/ pc' = [pc EXCEPT ![c] = "idle"] /\ holder' = NoCaller
      BY <2>8 DEF Receive, Parsed, NotParsed
    <3> QED
      BY <3>1, <3>2 DEF Range1, Distinct
  <2>9. CASE ReceiveClosed(c) \/ Complete(c)
    BY <2>9 DEF ReceiveClosed, Complete, Range1, Distinct
  <2> QED
    BY <1>2, <2>2, <2>3, <2>4, <2>5, <2>6, <2>7, <2>8, <2>9 DEF CallStep
<1>3. ASSUME NEW c \in Callers, Cancel(c) PROVE GuardInv'
  <2>1. queue' \in Seq(Callers) /\ Distinct(queue') /\ Range1(queue') = Range1(queue) \ {c}
    <3>1. CASE c \notin Range1(queue) /\ UNCHANGED queue
      BY <3>1
    <3>2. ASSUME NEW k \in DOMAIN queue, queue[k] = c,
                 queue' = SubSeq(queue, 1, k - 1) \o SubSeq(queue, k + 1, Len(queue))
          PROVE  queue' \in Seq(Callers) /\ Distinct(queue') /\ Range1(queue') = Range1(queue) \ {c}
      BY <3>2, QueueRemove
    <3> QED
      BY <1>3, <3>1, <3>2 DEF Cancel, LeaveQueue
  <2> QED
    BY <1>3, <2>1 DEF Cancel
<1>4. CASE AnswerSome \/ ServerClose \/ ReadTaskEnds \/ WriteTaskEnds \/ ManagerDropped
  <2>1. UNCHANGED <<pc, holder, queue>>
    BY <1>4 DEF AnswerSome, Answer, ServerClose, ReadTaskEnds, WriteTaskEnds, ManagerDropped, lockVars
  <2> QED
    BY <2>1 DEF Range1, Distinct
<1>5. CASE UNCHANGED vars
  BY <1>5 DEF vars, lockVars, Range1, Distinct
<1> QED
  BY <1>1, <1>2, <1>3, <1>4, <1>5 DEF Next

\* The guard of the receiver, and a place in the queue for it, are held exactly by
\* the calls at the awaits that need them, whatever is cancelled and whatever fails.
THEOREM GuardIsTheCalls == Spec => []GuardFollowsCall
<1>1. GuardInv => GuardFollowsCall
  BY DEF GuardInv, GuardFollowsCall, Queued, Distinct
<1> QED
  BY <1>1, GuardInit, GuardStep, PTL DEF Spec

-----------------------------------------------------------------------------
(***************************************************************************)
(* ReplyForEveryWaiter and TypeOK. What is sent and unanswered is counted  *)
(* as the copies of its bag, so a request adds one and an answer takes one.*)
(***************************************************************************)
LEMMA CopiesMembers ==
  ASSUME NEW B
  PROVE  \A x : x \in Copies(B) <=> \E r \in BagToSet(B) : \E k \in 1 .. B[r] : x = <<r, k>>
BY DEF Copies

LEMMA CopiesAdd ==
  ASSUME NEW B, IsABag(B), NEW r, NEW C, C = B (+) SetToBag({r})
  PROVE  IsABag(C) /\ \E x : x \notin Copies(B) /\ Copies(C) = Copies(B) \cup {x}
<1>1. \A e \in DOMAIN B : B[e] \in Nat \ {0}
  BY DEF IsABag
<1>2. PICK k \in Nat \ {0} : k = IF r \in DOMAIN B THEN B[r] + 1 ELSE 1
  BY <1>1
<1>3. /\ C = [e \in DOMAIN B \cup {r} |-> IF e = r THEN k ELSE B[e]]
      /\ DOMAIN C = DOMAIN B \cup {r}
  <2>1. SetToBag({r}) = [e \in {r} |-> 1]
    BY DEF SetToBag
  <2>2. C = [e \in DOMAIN B \cup {r} |->
               (IF e \in DOMAIN B THEN B[e] ELSE 0) + (IF e \in {r} THEN 1 ELSE 0)]
    BY <2>1 DEF (+)
  <2>3. \A e \in DOMAIN B \cup {r} :
          (IF e \in DOMAIN B THEN B[e] ELSE 0) + (IF e \in {r} THEN 1 ELSE 0) =
          IF e = r THEN k ELSE B[e]
    BY <1>1, <1>2
  <2> QED BY <2>2, <2>3
<1>4. IsABag(C)
  BY <1>1, <1>2, <1>3 DEF IsABag
<1>5. PICK x : x = <<r, k>>
  OBVIOUS
<1>6. x \notin Copies(B)
  <2> SUFFICES ASSUME NEW e \in DOMAIN B, NEW j \in 1 .. B[e], x = <<e, j>> PROVE FALSE
    BY CopiesMembers DEF BagToSet
  <2> QED BY <1>1, <1>2, <1>5
<1>7. ASSUME NEW y PROVE y \in Copies(C) <=> y \in Copies(B) \cup {x}
  <2>1. ASSUME NEW e \in DOMAIN C, NEW j \in 1 .. C[e], y = <<e, j>>
        PROVE  y \in Copies(B) \cup {x}
    <3>1. CASE e # r
      BY <1>3, <2>1, <3>1, CopiesMembers DEF BagToSet
    <3>2. CASE e = r /\ j = k
      BY <1>5, <2>1, <3>2
    <3>3. CASE e = r /\ j # k
      <4>1. j \in 1 .. k
        BY <1>3, <3>3
      <4>2. r \in DOMAIN B /\ j \in 1 .. B[r]
        BY <1>1, <1>2, <3>3, <4>1
      <4> QED BY <2>1, <3>3, <4>2, CopiesMembers DEF BagToSet
    <3> QED BY <3>1, <3>2, <3>3
  <2>2. ASSUME NEW e \in DOMAIN B, NEW j \in 1 .. B[e], y = <<e, j>>
        PROVE  y \in Copies(C)
    <3>1. e \in DOMAIN C /\ j \in 1 .. C[e]
      <4>1. CASE e = r
        BY <1>1, <1>2, <1>3, <4>1
      <4>2. CASE e # r
        BY <1>3, <4>2
      <4> QED BY <4>1, <4>2
    <3> QED BY <2>2, <3>1, CopiesMembers DEF BagToSet
  <2>3. x \in Copies(C)
    <3>1. r \in DOMAIN C /\ k \in 1 .. C[r]
      BY <1>2, <1>3
    <3> QED BY <1>5, <3>1, CopiesMembers DEF BagToSet
  <2>4. ASSUME y \in Copies(C) PROVE y \in Copies(B) \cup {x}
    <3>1. \E e \in DOMAIN C : \E j \in 1 .. C[e] : y = <<e, j>>
      BY <2>4, CopiesMembers DEF BagToSet
    <3> QED BY <2>1, <3>1
  <2>5. ASSUME y \in Copies(B) PROVE y \in Copies(C)
    <3>1. \E e \in DOMAIN B : \E j \in 1 .. B[e] : y = <<e, j>>
      BY <2>5, CopiesMembers DEF BagToSet
    <3> QED BY <2>2, <3>1
  <2> QED BY <2>3, <2>4, <2>5
<1>8. Copies(C) = Copies(B) \cup {x}
  BY <1>7
<1> QED BY <1>4, <1>6, <1>8

\* A bag without a part of it.
LEMMA CopiesLess ==
  ASSUME NEW B, IsABag(B), NEW L, NEW C, C = B (-) L,
         \A e \in DOMAIN L : L[e] \in Nat
  PROVE  /\ IsABag(C) /\ Copies(C) \subseteq Copies(B)
         /\ \A e : e \in DOMAIN C <=>
              e \in DOMAIN B /\ (IF e \in DOMAIN L THEN B[e] - L[e] ELSE B[e]) > 0
         /\ \A e \in DOMAIN C : C[e] = IF e \in DOMAIN L THEN B[e] - L[e] ELSE B[e]
<1>1. \A e \in DOMAIN B : B[e] \in Nat \ {0}
  BY DEF IsABag
<1> DEFINE D == [e \in DOMAIN B |-> IF e \in DOMAIN L THEN B[e] - L[e] ELSE B[e]]
<1>2. C = [e \in {d \in DOMAIN D : D[d] > 0} |-> D[e]]
  BY DEF (-)
<1>3. /\ DOMAIN D = DOMAIN B
      /\ \A e \in DOMAIN B : D[e] = IF e \in DOMAIN L THEN B[e] - L[e] ELSE B[e]
  OBVIOUS
<1> HIDE DEF D
<1>4. /\ \A e : e \in DOMAIN C <=> e \in DOMAIN B /\ D[e] > 0
      /\ \A e \in DOMAIN C : C[e] = D[e]
  BY <1>2, <1>3
<1>5. \A e \in DOMAIN B : D[e] \in Int /\ D[e] <= B[e]
  BY <1>1, <1>3
<1>6. IsABag(C)
  <2>1. \A e \in DOMAIN C : C[e] \in Nat /\ C[e] > 0
    BY <1>4, <1>5
  <2>2. C = [e \in DOMAIN C |-> C[e]]
    BY <1>2
  <2> QED BY <2>1, <2>2 DEF IsABag
<1>7. Copies(C) \subseteq Copies(B)
  <2> SUFFICES ASSUME NEW e \in DOMAIN C, NEW j \in 1 .. C[e] PROVE <<e, j>> \in Copies(B)
    BY CopiesMembers DEF BagToSet
  <2>1. e \in DOMAIN B /\ j \in 1 .. B[e]
    BY <1>1, <1>4, <1>5
  <2> QED BY <2>1, CopiesMembers DEF BagToSet
<1> QED BY <1>3, <1>4, <1>6, <1>7

LEMMA CopiesTake ==
  ASSUME NEW B, IsABag(B), NEW r \in BagToSet(B), NEW C, C = B (-) SetToBag({r})
  PROVE  IsABag(C) /\ \E x \in Copies(B) : Copies(C) = Copies(B) \ {x}
<1>1. /\ \A e \in DOMAIN B : B[e] \in Nat \ {0}
      /\ r \in DOMAIN B
  BY DEF IsABag, BagToSet
<1>2. PICK L : L = SetToBag({r})
  OBVIOUS
<1>3. DOMAIN L = {r} /\ L[r] = 1
  BY <1>2 DEF SetToBag
<1>4. /\ IsABag(C) /\ Copies(C) \subseteq Copies(B)
      /\ \A e : e \in DOMAIN C <=>
           e \in DOMAIN B /\ (IF e \in DOMAIN L THEN B[e] - L[e] ELSE B[e]) > 0
      /\ \A e \in DOMAIN C : C[e] = IF e \in DOMAIN L THEN B[e] - L[e] ELSE B[e]
  <2>1. C = B (-) L /\ \A e \in DOMAIN L : L[e] \in Nat
    BY <1>2, <1>3
  <2> QED BY <2>1, CopiesLess
<1>5. \A e \in DOMAIN B \ {r} : e \in DOMAIN C /\ C[e] = B[e]
  BY <1>1, <1>3, <1>4
<1>6. r \in DOMAIN C <=> B[r] - 1 > 0
  BY <1>1, <1>3, <1>4
<1>7. r \in DOMAIN C => C[r] = B[r] - 1
  BY <1>3, <1>4
<1>8. PICK x : x = <<r, B[r]>>
  OBVIOUS
<1>9. x \in Copies(B)
  <2>1. B[r] \in 1 .. B[r]
    BY <1>1
  <2> QED BY <1>1, <1>8, <2>1, CopiesMembers DEF BagToSet
<1>10. x \notin Copies(C)
  <2> SUFFICES ASSUME x \in Copies(C) PROVE FALSE
    OBVIOUS
  <2>1. PICK e \in DOMAIN C : \E j \in 1 .. C[e] : x = <<e, j>>
    BY CopiesMembers DEF BagToSet
  <2>2. PICK j \in 1 .. C[e] : x = <<e, j>>
    BY <2>1
  <2>3. e = r /\ j = B[r]
    BY <1>8, <2>2
  <2> QED BY <1>1, <1>7, <2>2, <2>3
<1>11. ASSUME NEW y \in Copies(B), y # x PROVE y \in Copies(C)
  <2>1. PICK e \in DOMAIN B : \E j \in 1 .. B[e] : y = <<e, j>>
    BY CopiesMembers DEF BagToSet
  <2>3. PICK j \in 1 .. B[e] : y = <<e, j>>
    BY <2>1
  <2>2. e \in DOMAIN C /\ j \in 1 .. C[e]
    <3>1. CASE e # r
      BY <1>5, <3>1
    <3>2. CASE e = r
      <4>1. j # B[r]
        BY <1>8, <1>11, <2>3, <3>2
      <4>2. B[r] \in Nat /\ j \in 1 .. B[r]
        BY <1>1, <3>2
      <4>3. j \in 1 .. B[r] - 1 /\ B[r] - 1 > 0
        BY <4>1, <4>2
      <4> QED BY <1>6, <1>7, <3>2, <4>3
    <3> QED BY <3>1, <3>2
  <2> QED BY <2>2, <2>3, CopiesMembers DEF BagToSet
<1>12. Copies(C) = Copies(B) \ {x}
  BY <1>4, <1>10, <1>11
<1> QED BY <1>4, <1>9, <1>12

Waiters == {c \in Callers : pc[c] \in Waiting}

FlowInv ==
  /\ IsABag(requests) /\ IsFiniteSet(Copies(requests))
  /\ Len(inbox) <= InCap
  /\ reply \in [Callers -> Request \cup {NoReply}]
  /\ connected \in BOOLEAN /\ reading \in BOOLEAN
  /\ sendOpen \in BOOLEAN /\ fed \in BOOLEAN
  /\ ReplyForEveryWaiter

LEMMA FlowInit == Init => FlowInv
<1> SUFFICES ASSUME Init PROVE FlowInv
  OBVIOUS
<1>1. IsABag(requests) /\ Copies(requests) = {}
  BY DEF Init, EmptyBag, SetToBag, IsABag, Copies, BagToSet
<1>2. Unanswered = 0 /\ IsFiniteSet(Copies(requests))
  BY <1>1, FS_EmptySet DEF Unanswered
<1>3. {c \in Callers : pc[c] \in Waiting} = {}
  BY DEF Init, Waiting
<1>4. Len(inbox) = 0 /\ InCap \in Nat
  BY AccountingSessionAssumption DEF Init
<1>5. ReplyForEveryWaiter
  BY <1>2, <1>3, <1>4, FS_EmptySet DEF ReplyForEveryWaiter
<1> QED BY <1>1, <1>2, <1>4, <1>5 DEF Init, FlowInv

\* How the three numbers of ReplyForEveryWaiter can change.
LEMMA FlowCount ==
  ASSUME FlowInv, NumberInv
  PROVE  /\ IsFiniteSet(Waiters) /\ Cardinality(Waiters) \in Nat
         /\ Unanswered \in Nat /\ Len(inbox) \in Nat
         /\ connected => Cardinality(Waiters) <= Unanswered + Len(inbox)
<1>1. IsFiniteSet(Waiters)
  BY AccountingSessionAssumption, FS_Subset DEF Waiters
<1> QED BY <1>1, FS_CardinalityType DEF FlowInv, NumberInv, Unanswered, ReplyForEveryWaiter, Waiters

LEMMA FewerWaiters ==
  ASSUME FlowInv, NumberInv, Waiters' \subseteq Waiters
  PROVE  Cardinality(Waiters') \in Nat /\ Cardinality(Waiters') <= Cardinality(Waiters)
<1>1. IsFiniteSet(Waiters)
  BY FlowCount
<1> QED BY <1>1, FS_Subset, FS_CardinalityType

\* A step that leaves the requests and the replies alone lets nobody begin to
\* wait.
LEMMA FlowKept ==
  ASSUME FlowInv, NumberInv, UNCHANGED linkVars, Waiters' \subseteq Waiters,
         reply' \in [Callers -> Request \cup {NoReply}]
  PROVE  FlowInv'
<1>1. Copies(requests)' = Copies(requests) /\ Unanswered' = Unanswered
  BY DEF linkVars, Copies, Unanswered, BagToSet
<1>2. ReplyForEveryWaiter'
  <2>1. PICK w \in Nat, v \in Nat : w = Cardinality(Waiters') /\ v = Cardinality(Waiters) /\ w <= v
    BY FewerWaiters, FlowCount
  <2>2. PICK u \in Nat, n \in Nat : u = Unanswered /\ n = Len(inbox) /\ (connected => v <= u + n)
    BY <2>1, FlowCount
  <2>3. connected => w <= u + n
    BY <2>1, <2>2
  <2> QED BY <1>1, <2>1, <2>2, <2>3 DEF ReplyForEveryWaiter, Waiters, linkVars
<1> QED BY <1>1, <1>2 DEF FlowInv, linkVars, IsABag

LEMMA FlowStep == FlowInv /\ NumberInv /\ NumberInv' /\ [Next]_vars => FlowInv'
<1> SUFFICES ASSUME FlowInv, NumberInv, NumberInv', [Next]_vars PROVE FlowInv'
  OBVIOUS
<1>0. /\ pc \in [Callers -> Stages] /\ reply \in [Callers -> Request \cup {NoReply}]
      /\ inbox \in Seq(Reply)
  BY DEF FlowInv, NumberInv
<1>1. ASSUME NEW c \in Callers, BeginCall(c) \/ Cancel(c) PROVE FlowInv'
  <2>1. UNCHANGED linkVars /\ reply' \in [Callers -> Request \cup {NoReply}]
    BY <1>0, <1>1 DEF BeginCall, Cancel, Goto, Return
  <2>2. Waiters' \subseteq Waiters
    BY <1>0, <1>1 DEF BeginCall, Cancel, Goto, Return, Waiters, Waiting
  <2> QED BY <2>1, <2>2, FlowKept
<1>2. ASSUME NEW c \in Callers,
             ReceiverClosed(c) \/ ReadSessionComplete(c) \/ NextSequenceNumber(c) \/ SendFailed(c)
               \/ WaitForLock(c) \/ AcquireLock(c) \/ ReceiveClosed(c) \/ Complete(c)
      PROVE  FlowInv'
  <2>1. UNCHANGED linkVars /\ reply' \in [Callers -> Request \cup {NoReply}]
    BY <1>0, <1>2 DEF ReceiverClosed, ReadSessionComplete, NextSequenceNumber, SendFailed,
       WaitForLock, AcquireLock, ReceiveClosed, Complete, Goto, Return
  <2>2. Waiters' \subseteq Waiters
    <3> USE <1>0 DEF Goto, Return, Waiters, Waiting
    <3>1. CASE ReceiverClosed(c) \/ ReadSessionComplete(c)
      BY <3>1 DEF ReceiverClosed, ReadSessionComplete
    <3>2. CASE NextSequenceNumber(c) \/ SendFailed(c)
      BY <3>2 DEF NextSequenceNumber, SendFailed
    <3>3. CASE WaitForLock(c) \/ AcquireLock(c)
      BY <3>3 DEF WaitForLock, AcquireLock
    <3>4. CASE ReceiveClosed(c) \/ Complete(c)
      BY <3>4 DEF ReceiveClosed, Complete
    <3> QED BY <1>2, <3>1, <3>2, <3>3, <3>4
  <2> QED BY <2>1, <2>2, FlowKept
<1>3. ASSUME NEW c \in Callers, Send(c) PROVE FlowInv'
  <2>1. /\ pc' = [pc EXCEPT ![c] = "sent"] /\ pc[c] = "send"
        /\ UNCHANGED <<inbox, reply, connected, reading, sendOpen, fed>>
        /\ requests' = IF connected THEN requests (+) SetToBag({[by |-> c, seq |-> number[c]]})
                        ELSE requests
    BY <1>3 DEF Send, Goto
  <2>2. CASE ~connected
    <3>1. UNCHANGED requests
      BY <2>1, <2>2
    <3>2. Copies(requests)' = Copies(requests)
      BY <3>1 DEF Copies, BagToSet
    <3> QED BY <2>1, <2>2, <3>1, <3>2 DEF FlowInv, ReplyForEveryWaiter, IsABag
  <2>3. CASE connected
    <3>2. PICK x : x \notin Copies(requests) /\ Copies(requests') = Copies(requests) \cup {x}
      BY <2>1, <2>3, CopiesAdd DEF FlowInv
    <3>3. IsABag(requests')
      BY <2>1, <2>3, CopiesAdd DEF FlowInv
    <3>4. IsFiniteSet(Copies(requests')) /\ Unanswered' = Unanswered + 1
      BY <3>2, FS_AddElement DEF FlowInv, Unanswered
    <3>5. Waiters' = Waiters \cup {c} /\ c \notin Waiters
      BY <1>0, <2>1 DEF Waiters, Waiting
    <3>6. Cardinality(Waiters') = Cardinality(Waiters) + 1
      BY <3>5, FlowCount, FS_AddElement
    <3>7. ReplyForEveryWaiter'
      <4>1. PICK w \in Nat, u \in Nat, n \in Nat :
              /\ w = Cardinality(Waiters) /\ u = Unanswered /\ n = Len(inbox)
              /\ connected => w <= u + n
        BY FlowCount
      <4>2. connected => w + 1 <= (u + 1) + n
        BY <4>1
      <4> QED BY <2>1, <3>4, <3>6, <4>1, <4>2 DEF ReplyForEveryWaiter, Waiters
    <3> QED BY <2>1, <3>3, <3>4, <3>7 DEF FlowInv
  <2> QED BY <2>2, <2>3 DEF FlowInv
<1>4. ASSUME NEW c \in Callers, Receive(c) PROVE FlowInv'
  <2>1. /\ pc[c] = "recv" /\ inbox # <<>> /\ inbox' = Tail(inbox)
        /\ UNCHANGED <<connected, reading, sendOpen, fed, requests>>
    BY <1>4 DEF Receive
  <2>2. \/ Parsed(c)
        \/ Return(c)
    BY <1>4 DEF Receive, NotParsed
  <2>3. Head(inbox) \in Reply /\ Len(Tail(inbox)) = Len(inbox) - 1 /\ Len(inbox) \in Nat
        /\ Len(inbox) >= 1
    BY <1>0, <2>1
  <2>4. reply' \in [Callers -> Request \cup {NoReply}]
    <3>1. [by |-> Head(inbox).by, seq |-> Head(inbox).seq] \in Request
      BY <2>3 DEF Reply, Request
    <3> QED BY <1>0, <2>2, <3>1 DEF Parsed, Return
  <2>5. Waiters' = Waiters \ {c} /\ c \in Waiters
    BY <1>0, <2>1, <2>2 DEF Parsed, Return, Waiters, Waiting
  <2>6. Cardinality(Waiters') = Cardinality(Waiters) - 1
    BY <2>5, FlowCount, FS_RemoveElement
  <2>7. Copies(requests)' = Copies(requests) /\ Unanswered' = Unanswered
    BY <2>1 DEF Copies, Unanswered, BagToSet
  <2>8. ReplyForEveryWaiter' /\ Len(inbox') <= InCap
    <3>1. PICK w \in Nat, u \in Nat, n \in Nat :
            /\ w = Cardinality(Waiters) /\ u = Unanswered /\ n = Len(inbox)
            /\ connected => w <= u + n
      BY FlowCount
    <3>2. (connected => w - 1 <= u + (n - 1)) /\ n - 1 <= n
      BY <3>1
    <3>3. Len(inbox') = n - 1 /\ n <= InCap /\ InCap \in Nat
      BY <2>1, <2>3, <3>1, AccountingSessionAssumption DEF FlowInv
    <3>4. n - 1 <= InCap
      BY <3>1, <3>3
    <3> QED BY <2>1, <2>6, <2>7, <3>1, <3>2, <3>3, <3>4 DEF ReplyForEveryWaiter, Waiters
  <2> QED BY <2>1, <2>4, <2>7, <2>8 DEF FlowInv, IsABag
<1>5. CASE AnswerSome
  <2>1. PICK r \in BagToSet(requests), ok \in BOOLEAN : Answer(r, ok)
    BY <1>5 DEF AnswerSome
  <2>2. /\ requests' = requests (-) SetToBag({r}) /\ Len(inbox) < InCap
        /\ UNCHANGED <<pc, reply, connected, reading, sendOpen, fed>>
        /\ Len(inbox') = Len(inbox) + 1
    BY <1>0, <2>1 DEF Answer
  <2>3. PICK x \in Copies(requests) : Copies(requests') = Copies(requests) \ {x}
    BY <2>2, CopiesTake DEF FlowInv
  <2>4. IsABag(requests')
    BY <2>2, CopiesTake DEF FlowInv
  <2>5. IsFiniteSet(Copies(requests')) /\ Unanswered' = Unanswered - 1
    BY <2>3, FS_RemoveElement DEF FlowInv, Unanswered
  <2>6. ReplyForEveryWaiter' /\ Len(inbox') <= InCap
    <3>1. PICK w \in Nat, u \in Nat, n \in Nat :
            /\ w = Cardinality(Waiters) /\ u = Unanswered /\ n = Len(inbox)
            /\ connected => w <= u + n
      BY FlowCount
    <3>2. (connected => w <= (u - 1) + (n + 1)) /\ n + 1 <= InCap
      BY <2>2, <3>1, AccountingSessionAssumption
    <3>3. Waiters' = Waiters
      BY <2>2 DEF Waiters
    <3> QED BY <2>2, <2>5, <3>1, <3>2, <3>3 DEF ReplyForEveryWaiter, Waiters
  <2> QED BY <2>2, <2>4, <2>5, <2>6 DEF FlowInv
<1>6. CASE ServerClose
  <2>1. PICK lost \in Parts(requests) : requests' = requests (-) lost
    BY <1>6 DEF ServerClose
  <2>2. connected' = FALSE /\ UNCHANGED <<reply, reading, sendOpen, fed, inbox>>
    BY <1>6 DEF ServerClose
  <2>3. \A r \in DOMAIN lost : lost[r] \in Nat
    <3>1. lost \in [BagToSet(requests) -> UNION {0 .. requests[r] : r \in BagToSet(requests)}]
      BY DEF Parts
    <3>2. \A n \in UNION {0 .. requests[r] : r \in BagToSet(requests)} : n \in Nat
      OBVIOUS
    <3> QED BY <3>1, <3>2
  <2>4. IsABag(requests') /\ IsFiniteSet(Copies(requests'))
    BY <2>1, <2>3, CopiesLess, FS_Subset DEF FlowInv
  <2> QED BY <2>2, <2>4 DEF FlowInv, ReplyForEveryWaiter
<1>7. CASE ReadTaskEnds
  <2>1. requests' = EmptyBag /\ ~connected /\ UNCHANGED <<reply, connected, sendOpen, fed, inbox>> /\ reading' = FALSE
    BY <1>7 DEF ReadTaskEnds
  <2>2. IsABag(requests') /\ Copies(requests') = {}
    BY <2>1 DEF EmptyBag, SetToBag, IsABag, Copies, BagToSet
  <2> QED BY <2>1, <2>2, FS_EmptySet DEF FlowInv, ReplyForEveryWaiter
<1>8. CASE WriteTaskEnds \/ ManagerDropped
  <2>1. /\ UNCHANGED <<pc, reply, connected, reading, requests, inbox>>
        /\ sendOpen' \in BOOLEAN /\ fed' \in BOOLEAN
    BY <1>8 DEF FlowInv, WriteTaskEnds, ManagerDropped
  <2>2. Copies(requests)' = Copies(requests) /\ Unanswered' = Unanswered
    BY <2>1 DEF Unanswered, Copies, BagToSet
  <2>3. Waiters' = Waiters
    BY <2>1 DEF Waiters
  <2> QED BY <2>1, <2>2, <2>3 DEF FlowInv, ReplyForEveryWaiter, Waiters, IsABag
<1>9. CASE UNCHANGED vars
  <2>1. UNCHANGED linkVars /\ Waiters' = Waiters /\ reply' \in [Callers -> Request \cup {NoReply}]
    BY <1>0, <1>9 DEF vars, Waiters
  <2> QED BY <2>1, FlowKept
<1> QED BY <1>1, <1>2, <1>3, <1>4, <1>5, <1>6, <1>7, <1>8, <1>9 DEF Next, CallStep

LEMMA FlowInvariance == Spec => [](FlowInv /\ NumberInv)
BY NumberInit, NumberStep, FlowInit, FlowStep, PTL DEF Spec

\* However calls are cancelled, whichever replies do not parse, and with any number
\* of callers and any room for replies: while the connection stands, no call waits
\* for a reply that nobody owes.
THEOREM WaitersAreOwedReplies == Spec => []ReplyForEveryWaiter
<1>1. FlowInv => ReplyForEveryWaiter
  BY DEF FlowInv
<1> QED BY <1>1, FlowInvariance, PTL

\* Type correctness of the Session and its calls: the session's channel never has
\* more replies than its capacity.
THEOREM Typed == Spec => []TypeOK
<1>1. Spec => [](GuardInv /\ LateInv)
  BY GuardInit, GuardStep, LateInit, LateStep, PTL DEF Spec
<1>2. FlowInv /\ NumberInv /\ GuardInv /\ LateInv => TypeOK
  BY DEF FlowInv, NumberInv, GuardInv, LateInv, TypeOK, Reply
<1> QED BY <1>1, <1>2, FlowInvariance, PTL
=============================================================================
