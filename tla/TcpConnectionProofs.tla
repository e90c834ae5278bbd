------------------------- MODULE TcpConnectionProofs -------------------------
(***************************************************************************)
(* Proofs about TcpConnection for every number of tasks, ids and packets,  *)
(* every capacity and every subset of the faults, except where a theorem   *)
(* says otherwise.                                                         *)
(***************************************************************************)
EXTENDS TcpConnection, SessionManagerProofs

-----------------------------------------------------------------------------
\* What the ends of the two tasks leave behind.
Teardown ==
  /\ hand # NoPacket <=> writer = "write"
  /\ writer = "ended" => outbound = <<>>
  /\ reader = "ended" => ~peerOpen /\ toClient = <<>> /\ carried = NoPacket
  /\ ~peerOpen => pending = {}
  /\ supervisor = "new" => canAccept /\ writer = "off"
  /\ supervisor = "done" => writer = "ended" /\ reader = "ended"
  /\ ~canAccept => writer = "ended" /\ reader = "ended"

TypeInv == TypeOK /\ SMInv /\ Teardown

LEMMA RequestIsPacket ==
  ASSUME TypeInv, NEW t \in Tasks, Open(t)
  PROVE  Request(t) \in Packet
<1>1. sid[t] \in Ids
  BY DEF TypeInv, SMInv, SMTypeOK, SessionsIsolated
<1> QED BY <1>1 DEF TypeInv, TypeOK, Packet, Request

LEMMA WrappingIncType ==
  ASSUME NEW n \in 0 .. SeqMod - 1
  PROVE  WrappingInc(n) \in 0 .. SeqMod - 1
BY SessionManagerAssumption DEF SessionManagerAssumption, WrappingInc

LEMMA ReplyIsPacket ==
  ASSUME NEW p \in Packet, NEW ok \in BOOLEAN
  PROVE  Reply(p, ok) \in Packet
BY WrappingIncType DEF Reply, Packet

\* Every step of the connection is a step of its session manager, or leaves
\* the manager alone.
LEMMA ManagerStep == TypeInv /\ [Next]_vars => [SMNext]_smVars
<1> SUFFICES ASSUME TypeInv, [Next]_vars PROVE [SMNext]_smVars
  OBVIOUS
<1>1. ASSUME NEW t \in Tasks, ClientNext(t) PROVE [SMNext]_smVars
  BY <1>1 DEF ClientNext, BeginCreate, CreateSession, BeginRequest, Enqueue,
     EnqueueFailed, Receive, ReceiveClosed, DropSession, Cancel, SMNext
<1>2. CASE Join
  BY <1>2 DEF Join, SMNext
<1>3. CASE ReadPacket
  <2>1. Head(toClient) \in Packet
    BY <1>3 DEF ReadPacket, TypeInv, TypeOK
  <2> QED BY <1>3, <2>1 DEF ReadPacket, SMNext
<1>4. CASE Forward
  BY <1>4 DEF Forward, SMNext
<1>5. CASE Run \/ DropHandle \/ WriterRecv \/ WriteDone \/ WriteFailed
  BY <1>5 DEF Run, DropHandle, WriterRecv, WriteDone, WriteFailed
<1>6. CASE ReadFailed \/ ServerClose \/ ServerStray \/ \E p \in pending : ServerAnswer(p)
  BY <1>6 DEF ReadFailed, ServerClose, ServerStray, ServerAnswer
<1>7. CASE UNCHANGED vars
  BY <1>7 DEF vars
<1> QED BY <1>1, <1>2, <1>3, <1>4, <1>5, <1>6, <1>7 DEF Next

LEMMA ManagerInvStep == TypeInv /\ [Next]_vars => SMInv'
BY ManagerStep, SMStepInv DEF TypeInv

LEMMA InitTypeInv == Init => TypeInv
<1> SUFFICES ASSUME Init PROVE TypeInv
  OBVIOUS
<1>1. SMInv
  BY SMInitInv DEF Init
<1>2. outbound \in Seq(Packet) /\ Len(outbound) <= OutCap
  BY EmptyInbox, TcpConnectionAssumption DEF Init, TcpConnectionAssumption
<1>3. toClient \in Seq(Packet) /\ Len(toClient) <= WireCap
  BY EmptyInbox, TcpConnectionAssumption DEF Init, TcpConnectionAssumption
<1>4. TypeOK
  BY <1>1, <1>2, <1>3, SessionManagerAssumption DEF SMInv, Init, TypeOK, SessionManagerAssumption
<1>5. Teardown
  BY DEF Init, SMInit, Teardown
<1> QED BY <1>1, <1>4, <1>5 DEF TypeInv

LEMMA AppendType ==
  ASSUME NEW q \in Seq(Packet), NEW p \in Packet, NEW cap \in Nat, Len(q) < cap
  PROVE  Append(q, p) \in Seq(Packet) /\ Len(Append(q, p)) <= cap
OBVIOUS

LEMMA TailType ==
  ASSUME NEW q \in Seq(Packet), NEW cap \in Nat, Len(q) <= cap, q # <<>>
  PROVE  /\ Head(q) \in Packet /\ Tail(q) \in Seq(Packet)
         /\ Len(Tail(q)) <= cap
OBVIOUS

LEMMA TypeStep == TypeInv /\ [Next]_vars => TypeInv'
<1> SUFFICES ASSUME TypeInv, [Next]_vars PROVE TypeOK' /\ Teardown'
  BY ManagerInvStep DEF TypeInv
<1>a. SMTypeOK'
  BY ManagerInvStep DEF SMInv
<1>b. OutCap \in Nat /\ WireCap \in Nat /\ SeqMod \in Nat /\ SeqMod >= 2
  BY TcpConnectionAssumption, SessionManagerAssumption
     DEF TcpConnectionAssumption, SessionManagerAssumption
<1>c. NoPacket \notin Packet
  BY SessionManagerAssumption DEF SessionManagerAssumption
<1>d. TypeOK /\ Teardown
  BY DEF TypeInv
<1> USE DEF taskVars, wireVars, callVars, connVars, smVars
<1>1. ASSUME NEW t \in Tasks, BeginCreate(t) PROVE TypeOK' /\ Teardown'
  BY <1>1, <1>a, <1>d DEF BeginCreate, CheckAccepting, RefuseSession, TypeOK, Teardown
<1>2. ASSUME NEW t \in Tasks, CreateSession(t) PROVE TypeOK' /\ Teardown'
  <2>1. UNCHANGED <<canAccept, carried>>
    BY <1>2 DEF CreateSession, CreateChannel, InsertChannel
  <2>2. TypeOK'
    BY <1>2, <1>a, <1>b, <1>d DEF CreateSession, TypeOK
  <2>3. Teardown'
    BY <1>2, <2>1, <1>d DEF CreateSession, Teardown
  <2> QED BY <2>2, <2>3
<1>3. ASSUME NEW t \in Tasks, BeginRequest(t) PROVE TypeOK' /\ Teardown'
  <2>1. nextSeq[t] \in 0 .. SeqMod - 1
    BY <1>d DEF TypeOK
  <2>2. WrappingInc(WrappingInc(nextSeq[t])) \in 0 .. SeqMod - 1
    BY <2>1, WrappingIncType
  <2>3. TypeOK'
    BY <1>3, <2>1, <2>2, <1>a, <1>d DEF BeginRequest, TypeOK
  <2>4. Teardown'
    BY <1>3, <1>d DEF BeginRequest, Teardown
  <2> QED BY <2>3, <2>4
<1>4. ASSUME NEW t \in Tasks, Enqueue(t) PROVE TypeOK' /\ Teardown'
  <2>1. outbound' \in Seq(Packet) /\ Len(outbound') <= OutCap
    BY <1>4, <1>b, <1>d, RequestIsPacket, AppendType DEF Enqueue, TypeOK
  <2>2. TypeOK'
    BY <1>4, <2>1, <1>a, <1>d DEF Enqueue, TypeOK
  <2>3. Teardown'
    BY <1>4, <1>d DEF Enqueue, Teardown
  <2> QED BY <2>2, <2>3
<1>5. ASSUME NEW t \in Tasks, EnqueueFailed(t) \/ ReceiveClosed(t) \/ Cancel(t)
      PROVE  TypeOK' /\ Teardown'
  <2>1. UNCHANGED <<taskVars, outbound, handle, wireVars, canAccept, carried, reqSeq, nextSeq, complete>>
    BY <1>5 DEF EnqueueFailed, ReceiveClosed, Cancel
  <2>2. call' \in [Tasks -> {"ready", "sending", "waiting"}]
    BY <1>5, <1>d DEF EnqueueFailed, ReceiveClosed, Cancel, TypeOK
  <2>3. TypeOK'
    BY <2>1, <2>2, <1>a, <1>d DEF TypeOK
  <2>4. Teardown'
    BY <2>1, <1>d DEF Teardown
  <2> QED BY <2>3, <2>4
<1>6. ASSUME NEW t \in Tasks, Receive(t) PROVE TypeOK' /\ Teardown'
  <2>1. inbox[sid[t]] \in Seq(Packet) /\ inbox[sid[t]] # <<>>
    BY <1>6 DEF Receive, TakeFromInbox, TypeInv, SMInv, SMTypeOK, SessionsIsolated
  <2>2. Head(inbox[sid[t]]).ok \in BOOLEAN
    <3>1. Head(inbox[sid[t]]) \in Packet
      BY <2>1
    <3> QED BY <3>1 DEF Packet
  <2>3. UNCHANGED <<canAccept, carried>>
    BY <1>6 DEF Receive, TakeFromInbox
  <2>4. complete' \in [Tasks -> BOOLEAN]
    BY <1>6, <2>2, <1>d DEF Receive, TypeOK
  <2>5. TypeOK'
    BY <1>6, <2>4, <1>a, <1>d DEF Receive, TypeOK
  <2>6. Teardown'
    BY <1>6, <2>3, <1>d DEF Receive, Teardown
  <2> QED BY <2>5, <2>6
<1>7. ASSUME NEW t \in Tasks, DropSession(t) PROVE TypeOK' /\ Teardown'
  <2>1. UNCHANGED <<canAccept, carried>>
    BY <1>7 DEF DropSession, DropReceiver
  <2> QED BY <1>7, <2>1, <1>a, <1>d DEF DropSession, TypeOK, Teardown
<1>8. ASSUME Run \/ Join \/ DropHandle PROVE TypeOK' /\ Teardown'
  <2>1. CASE Run
    BY <2>1, <1>a, <1>d DEF Run, TypeOK, Teardown
  <2>2. CASE Join
    BY <2>2, <1>a, <1>d DEF Join, DisableNewSessions, TypeOK, Teardown
  <2>3. CASE DropHandle
    BY <2>3, <1>a, <1>d DEF DropHandle, TypeOK, Teardown
  <2> QED BY <1>8, <2>1, <2>2, <2>3
<1>9. ASSUME WriterRecv PROVE TypeOK' /\ Teardown'
  <2>1. Head(outbound) \in Packet /\ Tail(outbound) \in Seq(Packet) /\ Len(Tail(outbound)) <= OutCap
    BY <1>9, <1>b, <1>d, TailType DEF WriterRecv, TypeOK
  <2> QED BY <1>9, <2>1, <1>a, <1>c, <1>d DEF WriterRecv, TypeOK, Teardown
<1>10. ASSUME WriteDone PROVE TypeOK' /\ Teardown'
  BY <1>10, <1>a, <1>d DEF WriteDone, TypeOK, Teardown
<1>11. ASSUME WriteFailed PROVE TypeOK' /\ Teardown'
  <2>1. outbound' \in Seq(Packet) /\ Len(outbound') <= OutCap
    BY <1>11, <1>b, EmptyInbox DEF WriteFailed
  <2> QED BY <1>11, <2>1, <1>a, <1>d DEF WriteFailed, TypeOK, Teardown
<1>12. ASSUME ReadPacket PROVE TypeOK' /\ Teardown'
  <2>1. Head(toClient) \in Packet /\ Tail(toClient) \in Seq(Packet) /\ Len(Tail(toClient)) <= WireCap
    BY <1>12, <1>b, <1>d, TailType DEF ReadPacket, TypeOK
  <2> QED BY <1>12, <2>1, <1>a, <1>d DEF ReadPacket, BeginForward, TypeOK, Teardown
<1>13. ASSUME ReadFailed PROVE TypeOK' /\ Teardown'
  <2>1. toClient' \in Seq(Packet) /\ Len(toClient') <= WireCap
    BY <1>13, <1>b, EmptyInbox DEF ReadFailed
  <2> QED BY <1>13, <2>1, <1>a, <1>d DEF ReadFailed, TypeOK, Teardown
<1>14. ASSUME Forward PROVE TypeOK' /\ Teardown'
  <2>1. UNCHANGED canAccept /\ (carried = NoPacket => carried' = NoPacket)
    BY <1>14, <1>d DEF Forward, LookupUnknown, LookupFound, ForwardSent, ForwardFailed
  <2> QED BY <1>14, <2>1, <1>a, <1>d DEF Forward, TypeOK, Teardown
<1>15. ASSUME NEW p \in pending, ServerAnswer(p) PROVE TypeOK' /\ Teardown'
  <2>1. PICK ok \in BOOLEAN : toClient' = Append(toClient, Reply(p, ok))
    BY <1>15 DEF ServerAnswer
  <2>2. Reply(p, ok) \in Packet
    BY <1>d, ReplyIsPacket DEF TypeOK
  <2>3. toClient' \in Seq(Packet) /\ Len(toClient') <= WireCap
    BY <1>15, <2>1, <2>2, <1>b, <1>d, AppendType DEF ServerAnswer, TypeOK
  <2> QED BY <1>15, <2>3, <1>a, <1>d DEF ServerAnswer, TypeOK, Teardown
<1>16. ASSUME ServerClose PROVE TypeOK' /\ Teardown'
  BY <1>16, <1>a, <1>d DEF ServerClose, TypeOK, Teardown
<1>17. ASSUME ServerStray PROVE TypeOK' /\ Teardown'
  <2>1. PICK i \in Ids, ok \in BOOLEAN :
          toClient' = Append(toClient, [id |-> i, by |-> Server, seq |-> 0, ok |-> ok])
    BY <1>17 DEF ServerStray
  <2>2. [id |-> i, by |-> Server, seq |-> 0, ok |-> ok] \in Packet
    BY <1>b DEF Packet
  <2>3. toClient' \in Seq(Packet) /\ Len(toClient') <= WireCap
    BY <1>17, <2>1, <2>2, <1>b, <1>d, AppendType DEF ServerStray, TypeOK
  <2> QED BY <1>17, <2>3, <1>a, <1>d DEF ServerStray, TypeOK, Teardown
<1>18. ASSUME UNCHANGED vars PROVE TypeOK' /\ Teardown'
  BY <1>18, <1>a, <1>d DEF vars, TypeOK, Teardown
<1> QED
  BY <1>1, <1>2, <1>3, <1>4, <1>5, <1>6, <1>7, <1>8, <1>9, <1>10, <1>11, <1>12,
     <1>13, <1>14, <1>15, <1>16, <1>17, <1>18 DEF Next, ClientNext

LEMMA TypeInvariance == Spec => []TypeInv
BY InitTypeInv, TypeStep, PTL DEF Spec

\* The variables of the connection keep their types and the channels their
\* capacities, with every fault allowed.
THEOREM TypeCorrect == Spec => []TypeOK
<1>1. TypeInv => TypeOK
  BY DEF TypeInv
<1> QED BY <1>1, TypeInvariance, PTL

\* The connection uses its session manager as session_manager.rs allows: what
\* it does to the manager's state is a behaviour of SMSpec.
THEOREM ImplementsManager == Spec => SMSpec
<1>1. Init => SMInit
  BY DEF Init
<1> QED BY <1>1, ManagerStep, TypeInvariance, PTL DEF Spec, SMSpec

\* Sessions stay isolated in every connection.
THEOREM ConnectionIsolatesSessions == Spec => []SessionsIsolated
BY ImplementsManager, SMSessionsIsolated, PTL

-----------------------------------------------------------------------------
(***************************************************************************)
(* Packets move through the connection: a queue that gets one, or loses    *)
(* its first one, as a set of packets.                                     *)
(***************************************************************************)
LEMMA PacketsInAppend ==
  ASSUME NEW q \in Seq(Packet), NEW p \in Packet
  PROVE  PacketsIn(Append(q, p)) = PacketsIn(q) \cup {p}
<1>1. \A x \in PacketsIn(q) \cup {p} : x \in PacketsIn(Append(q, p))
  <2>1. ASSUME NEW x \in PacketsIn(q) PROVE x \in PacketsIn(Append(q, p))
    <3>1. PICK k \in DOMAIN q : x = q[k]
      BY DEF PacketsIn
    <3>2. k \in DOMAIN Append(q, p) /\ Append(q, p)[k] = x
      BY <3>1
    <3> QED BY <3>2 DEF PacketsIn
  <2>2. p \in PacketsIn(Append(q, p))
    <3>1. Len(q) + 1 \in DOMAIN Append(q, p) /\ Append(q, p)[Len(q) + 1] = p
      OBVIOUS
    <3> QED BY <3>1 DEF PacketsIn
  <2> QED BY <2>1, <2>2
<1>2. ASSUME NEW x \in PacketsIn(Append(q, p)) PROVE x \in PacketsIn(q) \cup {p}
  <2>1. PICK k \in DOMAIN Append(q, p) : x = Append(q, p)[k]
    BY DEF PacketsIn
  <2>2. (k \in DOMAIN q /\ x = q[k]) \/ x = p
    BY <2>1
  <2> QED BY <2>2 DEF PacketsIn
<1> QED BY <1>1, <1>2

LEMMA PacketsInTail ==
  ASSUME NEW q \in Seq(Packet), q # <<>>
  PROVE  PacketsIn(q) = PacketsIn(Tail(q)) \cup {Head(q)}
<1>1. ASSUME NEW x \in PacketsIn(Tail(q)) \cup {Head(q)} PROVE x \in PacketsIn(q)
  <2>1. CASE x = Head(q)
    <3>1. 1 \in DOMAIN q /\ q[1] = x
      BY <2>1
    <3> QED BY <3>1 DEF PacketsIn
  <2>2. CASE x \in PacketsIn(Tail(q))
    <3>1. PICK k \in DOMAIN Tail(q) : x = Tail(q)[k]
      BY <2>2 DEF PacketsIn
    <3>2. k + 1 \in DOMAIN q /\ q[k + 1] = x
      BY <3>1
    <3> QED BY <3>2 DEF PacketsIn
  <2> QED BY <2>1, <2>2
<1>2. ASSUME NEW x \in PacketsIn(q) PROVE x \in PacketsIn(Tail(q)) \cup {Head(q)}
  <2>1. PICK k \in DOMAIN q : x = q[k]
    BY DEF PacketsIn
  <2>2. CASE k = 1
    BY <2>1, <2>2
  <2>3. CASE k # 1
    <3>1. k - 1 \in DOMAIN Tail(q) /\ Tail(q)[k - 1] = x
      BY <2>1, <2>3
    <3> QED BY <3>1 DEF PacketsIn
  <2> QED BY <2>2, <2>3
<1> QED BY <1>1, <1>2

LEMMA PacketsInEmpty == PacketsIn(<<>>) = {}
BY DEF PacketsIn

Buffered == UNION {PacketsIn(inbox[i]) : i \in Ids}

LEMMA BufferedMember ==
  ASSUME NEW p
  PROVE  p \in Buffered <=> \E i \in Ids : p \in PacketsIn(inbox[i])
BY DEF Buffered

LEMMA BufferedMemberNext ==
  ASSUME NEW p
  PROVE  p \in Buffered' <=> \E i \in Ids : p \in PacketsIn(inbox'[i])
BY DEF Buffered, PacketsIn

\* What reaches the sessions' buffers comes from the packet carried.
LEMMA BufferedStep ==
  ASSUME TypeInv, [Next]_vars
  PROVE  Buffered' \subseteq Buffered \cup IfPacket(carried)
<1> SUFFICES ASSUME NEW x \in Buffered', x \notin Buffered PROVE x \in IfPacket(carried)
  OBVIOUS
<1>1. PICK i \in Ids : x \in PacketsIn(inbox'[i])
  BY BufferedMemberNext
<1>2. x \notin PacketsIn(inbox[i])
  BY BufferedMember
<1>3. [SMNext]_smVars /\ SMTypeOK
  BY ManagerStep DEF TypeInv, TypeOK
<1>4. inbox[i] \in Seq(Packet)
  BY <1>3 DEF SMTypeOK
<1>5. inbox'[i] # inbox[i]
  BY <1>1, <1>2
<1>6. ASSUME NEW t \in Tasks, NEW j \in Ids, InsertChannel(t, j) PROVE FALSE
  <2>1. inbox'[i] = <<>>
    BY <1>3, <1>5, <1>6 DEF InsertChannel, SMTypeOK
  <2> QED BY <1>1, <2>1, PacketsInEmpty
<1>7. ASSUME NEW t \in Tasks, DropReceiver(t) PROVE FALSE
  <2>1. inbox'[i] = <<>>
    BY <1>3, <1>5, <1>7 DEF DropReceiver, SMTypeOK
  <2> QED BY <1>1, <2>1, PacketsInEmpty
<1>8. ASSUME NEW t \in Tasks, TakeFromInbox(t) PROVE FALSE
  <2>1. inbox[i] # <<>> /\ inbox'[i] = Tail(inbox[i])
    BY <1>3, <1>5, <1>8 DEF TakeFromInbox, SMTypeOK
  <2> QED BY <1>1, <1>2, <1>4, <2>1, PacketsInTail
<1>9. CASE ForwardSent
  <2>1. carried \in Packet /\ carried # NoPacket
    BY <1>3, <1>9, SessionManagerAssumption
       DEF ForwardSent, SMTypeOK, TypeInv, SMInv, LockCoversSend, SessionManagerAssumption
  <2>2. inbox'[i] = Append(inbox[i], carried)
    BY <1>3, <1>5, <1>9 DEF ForwardSent, SMTypeOK
  <2>3. x = carried
    BY <1>1, <1>2, <1>4, <2>1, <2>2, PacketsInAppend
  <2> QED BY <2>1, <2>3 DEF IfPacket
<1>10. UNCHANGED inbox => FALSE
  BY <1>5
<1> QED
  BY <1>3, <1>6, <1>7, <1>8, <1>9, <1>10
     DEF SMNext, CheckAccepting, RefuseSession, CreateChannel, BeginForward,
         LookupUnknown, LookupFound, ForwardFailed, DisableNewSessions, smVars

\* The packets on the way to the server and back change only by the send of a
\* request, an answer to a request the server holds, and a stray packet.
NoNewPacket == Requests' \subseteq Requests /\ Replies' \subseteq Replies

NewRequest(t) ==
  Enqueue(t) /\ Requests' \subseteq Requests \cup {Request(t)} /\ Replies' \subseteq Replies

NewReply(p, ok) ==
  ServerAnswer(p) /\ Requests' \subseteq Requests /\ Replies' \subseteq Replies \cup {Reply(p, ok)}

Stray(i, ok) == [id |-> i, by |-> Server, seq |-> 0, ok |-> ok]

NewStray(i, ok) ==
  ServerStray /\ Requests' \subseteq Requests /\ Replies' \subseteq Replies \cup {Stray(i, ok)}

LEMMA RepliesDef == Replies = PacketsIn(toClient) \cup IfPacket(carried) \cup Buffered
BY DEF Replies, Buffered

LEMMA RepliesDefNext ==
  Replies' = PacketsIn(toClient') \cup IfPacket(carried') \cup Buffered'
BY DEF Replies, Buffered, PacketsIn, IfPacket

LEMMA RequestsDefNext ==
  Requests' = PacketsIn(outbound') \cup IfPacket(hand') \cup pending'
BY DEF Requests, PacketsIn, IfPacket

LEMMA PacketFlow ==
  ASSUME TypeInv, [Next]_vars
  PROVE  \/ NoNewPacket
         \/ \E t \in Tasks : NewRequest(t)
         \/ \E p \in pending, ok \in BOOLEAN : NewReply(p, ok)
         \/ \E i \in Ids, ok \in BOOLEAN : NewStray(i, ok)
<1>a. TypeOK /\ Teardown
  BY DEF TypeInv
<1>b. Buffered' \subseteq Buffered \cup IfPacket(carried)
  BY BufferedStep
<1>c. ASSUME IfPacket(carried') \subseteq IfPacket(carried),
             PacketsIn(toClient') \subseteq PacketsIn(toClient)
      PROVE  Replies' \subseteq Replies
  BY <1>b, <1>c, RepliesDef, RepliesDefNext
<1>d. ASSUME UNCHANGED <<outbound, hand, pending>> PROVE Requests' \subseteq Requests
  BY <1>d, RequestsDefNext DEF Requests
<1> USE DEF taskVars, wireVars, callVars, connVars, smVars
<1>1. ASSUME NEW t \in Tasks, ClientNext(t), ~Enqueue(t) PROVE NoNewPacket
  <2>1. UNCHANGED <<outbound, hand, pending, toClient, carried>>
    BY <1>1 DEF ClientNext, BeginCreate, CheckAccepting, RefuseSession, CreateSession,
       CreateChannel, InsertChannel, BeginRequest, EnqueueFailed, Receive, TakeFromInbox,
       ReceiveClosed, DropSession, DropReceiver, Cancel
  <2> QED BY <2>1, <1>c, <1>d DEF NoNewPacket
<1>2. ASSUME NEW t \in Tasks, Enqueue(t) PROVE NewRequest(t)
  <2>1. UNCHANGED <<hand, pending, toClient, carried>>
    BY <1>2 DEF Enqueue
  <2>2. PacketsIn(outbound') = PacketsIn(outbound) \cup {Request(t)}
    BY <1>2, <1>a, RequestIsPacket, PacketsInAppend DEF Enqueue, TypeOK
  <2>3. Requests' \subseteq Requests \cup {Request(t)}
    BY <2>1, <2>2, RequestsDefNext DEF Requests
  <2> QED BY <1>2, <2>1, <2>3, <1>c DEF NewRequest
<1>3. CASE Run \/ Join \/ DropHandle \/ UNCHANGED vars
  <2>1. UNCHANGED <<outbound, hand, pending, toClient, carried>>
    BY <1>3 DEF Run, Join, DisableNewSessions, DropHandle, vars
  <2> QED BY <2>1, <1>c, <1>d DEF NoNewPacket
<1>4. CASE WriterRecv
  <2>1. UNCHANGED <<pending, toClient, carried>>
    BY <1>4 DEF WriterRecv
  <2>2. PacketsIn(outbound) = PacketsIn(outbound') \cup {hand'}
    BY <1>4, <1>a, PacketsInTail DEF WriterRecv, TypeOK
  <2>3. Requests' \subseteq Requests
    BY <2>1, <2>2, RequestsDefNext DEF Requests, IfPacket
  <2> QED BY <2>1, <2>3, <1>c DEF NoNewPacket
<1>5. CASE WriteDone
  <2>1. UNCHANGED <<outbound, toClient, carried>> /\ hand' = NoPacket
    BY <1>5 DEF WriteDone
  <2>2. hand # NoPacket /\ pending' \subseteq pending \cup {hand}
    BY <1>5, <1>a DEF WriteDone, Teardown
  <2>3. Requests' \subseteq Requests
    BY <2>1, <2>2, RequestsDefNext DEF Requests, IfPacket
  <2> QED BY <2>1, <2>3, <1>c DEF NoNewPacket
<1>6. CASE WriteFailed
  <2>1. UNCHANGED <<pending, toClient, carried>> /\ hand' = NoPacket /\ outbound' = <<>>
    BY <1>6 DEF WriteFailed
  <2>2. Requests' \subseteq Requests
    BY <2>1, PacketsInEmpty, RequestsDefNext DEF Requests, IfPacket
  <2> QED BY <2>1, <2>2, <1>c DEF NoNewPacket
<1>7. CASE ReadPacket
  <2>1. UNCHANGED <<outbound, hand, pending, inbox>>
    BY <1>7 DEF ReadPacket, BeginForward
  <2>2. PacketsIn(toClient) = PacketsIn(toClient') \cup {carried'}
    BY <1>7, <1>a, PacketsInTail DEF ReadPacket, BeginForward, TypeOK
  <2>3. Buffered' = Buffered
    BY <2>1, BufferedMember, BufferedMemberNext
  <2>4. Replies' \subseteq Replies
    BY <2>2, <2>3, RepliesDef, RepliesDefNext DEF IfPacket
  <2> QED BY <2>1, <2>4, <1>d DEF NoNewPacket
<1>8. CASE ReadFailed
  <2>1. UNCHANGED <<outbound, hand, pending, carried>> /\ toClient' = <<>>
    BY <1>8 DEF ReadFailed
  <2> QED BY <2>1, PacketsInEmpty, <1>c, <1>d DEF NoNewPacket
<1>9. CASE Forward
  <2>1. UNCHANGED <<outbound, hand, pending, toClient>>
    BY <1>9 DEF Forward
  <2>2. carried' \in {carried, NoPacket}
    BY <1>9 DEF Forward, LookupUnknown, LookupFound, ForwardSent, ForwardFailed
  <2> QED BY <2>1, <2>2, <1>c, <1>d DEF NoNewPacket, IfPacket
<1>10. ASSUME NEW p \in pending, ServerAnswer(p)
       PROVE  \E ok \in BOOLEAN : NewReply(p, ok)
  <2>1. PICK ok \in BOOLEAN : toClient' = Append(toClient, Reply(p, ok))
    BY <1>10 DEF ServerAnswer
  <2>2. UNCHANGED <<outbound, hand, carried, inbox>> /\ pending' \subseteq pending
    BY <1>10 DEF ServerAnswer
  <2>3. PacketsIn(toClient') = PacketsIn(toClient) \cup {Reply(p, ok)}
    BY <2>1, <1>a, ReplyIsPacket, PacketsInAppend DEF TypeOK
  <2>4. Buffered' = Buffered
    BY <2>2, BufferedMember, BufferedMemberNext
  <2>5. Requests' \subseteq Requests
    BY <2>2, RequestsDefNext DEF Requests
  <2>6. Replies' \subseteq Replies \cup {Reply(p, ok)}
    BY <2>2, <2>3, <2>4, RepliesDef, RepliesDefNext
  <2> QED BY <1>10, <2>5, <2>6 DEF NewReply
<1>11. CASE ServerClose
  <2>1. UNCHANGED <<outbound, hand, toClient, carried>> /\ pending' = {}
    BY <1>11 DEF ServerClose
  <2>2. Requests' \subseteq Requests
    BY <2>1, RequestsDefNext DEF Requests
  <2> QED BY <2>1, <2>2, <1>c DEF NoNewPacket
<1>12. ASSUME ServerStray
       PROVE  \E i \in Ids, ok \in BOOLEAN : NewStray(i, ok)
  <2>1. PICK i \in Ids, ok \in BOOLEAN : toClient' = Append(toClient, Stray(i, ok))
    BY <1>12 DEF ServerStray, Stray
  <2>2. UNCHANGED <<outbound, hand, pending, carried, inbox>>
    BY <1>12 DEF ServerStray
  <2>3. Stray(i, ok) \in Packet
    BY SessionManagerAssumption DEF Stray, Packet, SessionManagerAssumption
  <2>4. PacketsIn(toClient') = PacketsIn(toClient) \cup {Stray(i, ok)}
    BY <2>1, <2>3, <1>a, PacketsInAppend DEF TypeOK
  <2>5. Buffered' = Buffered
    BY <2>2, BufferedMember, BufferedMemberNext
  <2>6. Replies' \subseteq Replies \cup {Stray(i, ok)}
    BY <2>2, <2>4, <2>5, RepliesDef, RepliesDefNext
  <2> QED BY <1>12, <2>2, <2>6, <1>d DEF NewStray
<1> QED
  BY <1>1, <1>2, <1>3, <1>4, <1>5, <1>6, <1>7, <1>8, <1>9, <1>10, <1>11, <1>12
     DEF Next

\* What a step does to the sessions: ids are only added to the map, and a task
\* that has a Session kept it, or got one with an id that was not in the map.
LEMMA SessionStep ==
  ASSUME TypeInv, [Next]_vars
  PROVE  /\ channels \subseteq channels'
         /\ \A t \in Tasks : Open(t)' =>
              \/ Open(t) /\ sid'[t] = sid[t]
              \/ CreateSession(t) /\ sid'[t] \notin channels
<1>a. SMTypeOK
  BY DEF TypeInv, TypeOK
<1>1. ASSUME NEW u \in Tasks, CreateSession(u)
      PROVE  /\ channels \subseteq channels'
             /\ \A t \in Tasks : Open(t)' =>
                  \/ Open(t) /\ sid'[t] = sid[t]
                  \/ CreateSession(t) /\ sid'[t] \notin channels
  BY <1>1, <1>a DEF CreateSession, CreateChannel, InsertChannel, SMTypeOK, Open
<1>2. ASSUME \A u \in Tasks : ~CreateSession(u)
      PROVE  /\ channels \subseteq channels'
             /\ \A t \in Tasks : Open(t)' => Open(t) /\ sid'[t] = sid[t]
  BY <1>2, <1>a DEF Next, ClientNext, BeginCreate, CheckAccepting, RefuseSession,
     BeginRequest, Enqueue, EnqueueFailed, Receive, TakeFromInbox, ReceiveClosed,
     DropSession, DropReceiver, Cancel, Run, Join, DisableNewSessions, DropHandle,
     WriterRecv, WriteDone, WriteFailed, ReadPacket, BeginForward, ReadFailed, Forward,
     LookupUnknown, LookupFound, ForwardSent, ForwardFailed, ServerAnswer, ServerClose,
     ServerStray, smVars, vars, connVars, SMTypeOK, Open
<1> QED BY <1>1, <1>2

\* A packet that some task's request caused, in either direction, has an id of
\* the map, and if a live Session has that id it is that task's.
Authored(p) ==
  p.by # Server =>
    /\ p.id \in channels
    /\ \A t \in Tasks : Open(t) /\ sid[t] = p.id => p.by = t

AuthorInv == \A p \in Requests \cup Replies : Authored(p)

LEMMA AuthorStep == TypeInv /\ AuthorInv /\ [Next]_vars => AuthorInv'
<1> SUFFICES ASSUME TypeInv, AuthorInv, [Next]_vars, NEW p \in (Requests \cup Replies)'
             PROVE  Authored(p)'
  BY DEF AuthorInv
<1>a. ASSUME NEW q, Authored(q) PROVE Authored(q)'
  BY <1>a, SessionStep DEF Authored
<1>1. CASE p \in Requests \cup Replies
  BY <1>1, <1>a DEF AuthorInv
<1>2. ASSUME NEW t \in Tasks, Open(t), p = Request(t) PROVE Authored(p)'
  BY <1>2, <1>a DEF Authored, Request, TypeInv, SMInv, SessionsIsolated
<1>3. ASSUME NEW r \in pending, NEW ok \in BOOLEAN, p = Reply(r, ok) PROVE Authored(p)'
  BY <1>3, <1>a DEF AuthorInv, Requests, Authored, Reply
<1>4. ASSUME NEW i \in Ids, NEW ok \in BOOLEAN, p = Stray(i, ok) PROVE Authored(p)'
  BY <1>4 DEF Authored, Stray
<1> QED
  BY <1>1, <1>2, <1>3, <1>4, PacketFlow
     DEF NoNewPacket, NewRequest, NewReply, NewStray, Enqueue

LEMMA NoPacketsInitially == Init => Requests = {} /\ Replies = {}
BY PacketsInEmpty DEF Init, SMInit, Requests, Replies, IfPacket

LEMMA AuthorInvariance == Spec => []AuthorInv
<1>1. Init => AuthorInv
  BY NoPacketsInitially DEF AuthorInv
<1> QED BY <1>1, AuthorStep, TypeInvariance, PTL DEF Spec

\* No session buffers a reply to a request of a task other than its owner,
\* with every fault allowed.
THEOREM NobodyElsesReply == Spec => []OwnSessionOnly
<1>1. TypeInv /\ AuthorInv => OwnSessionOnly
  <2> SUFFICES ASSUME TypeInv, AuthorInv, NEW t \in Tasks, Open(t),
                      NEW p \in PacketsIn(inbox[sid[t]])
               PROVE  p.by \in {t, Server}
    BY DEF OwnSessionOnly
  <2>1. sid[t] \in Ids
    BY DEF TypeInv, SMInv, SMTypeOK, SessionsIsolated
  <2>2. p \in Replies
    BY <2>1, RepliesDef DEF Buffered
  <2>3. p.id = sid[t]
    BY <2>1 DEF PacketsIn, TypeInv, SMInv, SessionsIsolated
  <2> QED BY <2>2, <2>3 DEF AuthorInv, Authored
<1> QED BY <1>1, AuthorInvariance, TypeInvariance, PTL

-----------------------------------------------------------------------------
(***************************************************************************)
(* One packet per session. Without cancelled calls and stray packets a     *)
(* packet in flight belongs to a session whose owner is waiting for it, so *)
(* the next request of a session finds no packet of it anywhere, and a     *)
(* fresh id none at all. The places a packet can be are kept apart as sets *)
(* of ids.                                                                 *)
(***************************************************************************)
Orderly == Faults \subseteq {"close"}

OutIds == IdsOf(PacketsIn(outbound))
HandIds == IdsOf(IfPacket(hand))
PendingIds == IdsOf(pending)
BackIds == IdsOf(PacketsIn(toClient))
CarriedIds == IdsOf(IfPacket(carried))
BufferedIds == {i \in Ids : inbox[i] # <<>>}

Apart(A, B, C, D, E, F) ==
  /\ A \cap (B \cup C \cup D \cup E \cup F) = {}
  /\ B \cap (C \cup D \cup E \cup F) = {}
  /\ C \cap (D \cup E \cup F) = {}
  /\ D \cap (E \cup F) = {}
  /\ E \cap F = {}

PendingDistinct == \A p, q \in pending : p.id = q.id => p = q
SingleBuffer == \A i \in Ids : Len(inbox[i]) <= 1
StagesApart == Apart(OutIds, HandIds, PendingIds, BackIds, CarriedIds, BufferedIds)

LEMMA OneInFlightParts ==
  OneInFlight <=>
    Distinct(outbound) /\ Distinct(toClient) /\ PendingDistinct /\ SingleBuffer /\ StagesApart
<1> DEFINE f == FlightIds
<1>1. /\ f[1] = OutIds /\ f[2] = HandIds /\ f[3] = PendingIds
      /\ f[4] = BackIds /\ f[5] = CarriedIds /\ f[6] = BufferedIds
  BY DEF FlightIds, OutIds, HandIds, PendingIds, BackIds, CarriedIds, BufferedIds
<1>2. ASSUME \A a, b \in 1 .. 6 : a # b => f[a] \cap f[b] = {}
      PROVE  StagesApart
  <2>1. /\ f[1] \cap f[2] = {} /\ f[1] \cap f[3] = {} /\ f[1] \cap f[4] = {}
        /\ f[1] \cap f[5] = {} /\ f[1] \cap f[6] = {} /\ f[2] \cap f[3] = {}
        /\ f[2] \cap f[4] = {} /\ f[2] \cap f[5] = {} /\ f[2] \cap f[6] = {}
        /\ f[3] \cap f[4] = {} /\ f[3] \cap f[5] = {} /\ f[3] \cap f[6] = {}
        /\ f[4] \cap f[5] = {} /\ f[4] \cap f[6] = {} /\ f[5] \cap f[6] = {}
    BY <1>2
  <2> QED BY <1>1, <2>1 DEF StagesApart, Apart
<1>3. ASSUME StagesApart, NEW a \in 1 .. 6, NEW b \in 1 .. 6, a # b
      PROVE  f[a] \cap f[b] = {}
  <2> HIDE DEF f
  <2>1. a \in {1, 2, 3, 4, 5, 6} /\ b \in {1, 2, 3, 4, 5, 6}
    OBVIOUS
  <2>2. Apart(f[1], f[2], f[3], f[4], f[5], f[6])
    BY <1>1, <1>3 DEF StagesApart
  <2>3. a < b \/ b < a
    BY <1>3
  <2>4. CASE a < b
    BY <2>1, <2>2, <2>4 DEF Apart
  <2>5. CASE b < a
    BY <2>1, <2>2, <2>5 DEF Apart
  <2> QED BY <2>3, <2>4, <2>5
<1> QED BY <1>2, <1>3 DEF OneInFlight, PendingDistinct, SingleBuffer

LEMMA AppendDistinct ==
  ASSUME NEW q \in Seq(Packet), NEW p \in Packet,
         Distinct(q), p.id \notin IdsOf(PacketsIn(q))
  PROVE  Distinct(Append(q, p))
<1>1. \A k \in DOMAIN q : q[k].id # p.id
  BY DEF PacketsIn, IdsOf
<1> QED BY <1>1 DEF Distinct

LEMMA TailDistinct ==
  ASSUME NEW q \in Seq(Packet), q # <<>>, Distinct(q)
  PROVE  /\ Distinct(Tail(q))
         /\ Head(q).id \notin IdsOf(PacketsIn(Tail(q)))
         /\ IdsOf(PacketsIn(q)) = IdsOf(PacketsIn(Tail(q))) \cup {Head(q).id}
<1>1. \A k \in DOMAIN Tail(q) : Tail(q)[k] = q[k + 1] /\ k + 1 \in DOMAIN q /\ k + 1 # 1
  OBVIOUS
<1>2. Distinct(Tail(q))
  <2> SUFFICES ASSUME NEW j \in DOMAIN Tail(q), NEW k \in DOMAIN Tail(q),
                      Tail(q)[j].id = Tail(q)[k].id
               PROVE  j = k
    BY DEF Distinct
  <2>1. j + 1 = k + 1
    BY <1>1 DEF Distinct
  <2> QED BY <2>1
<1>3. Head(q).id \notin IdsOf(PacketsIn(Tail(q)))
  <2>1. 1 \in DOMAIN q /\ Head(q) = q[1]
    OBVIOUS
  <2> QED BY <1>1, <2>1 DEF Distinct, PacketsIn, IdsOf
<1>4. IdsOf(PacketsIn(q)) = IdsOf(PacketsIn(Tail(q))) \cup {Head(q).id}
  BY PacketsInTail DEF IdsOf
<1> QED BY <1>2, <1>3, <1>4

\* A packet on the way to the server: the request its session's owner waits on.
RequestOfWaiter(p) ==
  /\ p.id \in channels
  /\ \A t \in Tasks : Open(t) /\ sid[t] = p.id =>
       p.by = t /\ p.seq = reqSeq[t] /\ call[t] = "waiting"

\* A packet on the way back: the reply to that request.
ReplyToWaiter(p) ==
  /\ p.id \in channels
  /\ \A t \in Tasks : Open(t) /\ sid[t] = p.id =>
       p.by = t /\ p.seq = WrappingInc(reqSeq[t]) /\ call[t] = "waiting"

FlightInv ==
  /\ OneInFlight
  /\ \A p \in Requests : RequestOfWaiter(p)
  /\ \A p \in Replies : ReplyToWaiter(p)

LEMMA StageIdsOfPackets ==
  ASSUME TypeInv
  PROVE  /\ \A i \in OutIds \cup HandIds \cup PendingIds : \E p \in Requests : p.id = i
         /\ \A i \in BackIds \cup CarriedIds \cup BufferedIds : \E p \in Replies : p.id = i
<1>1. \A i \in OutIds \cup HandIds \cup PendingIds : \E p \in Requests : p.id = i
  BY DEF OutIds, HandIds, PendingIds, IdsOf, Requests
<1>2. \A i \in BackIds \cup CarriedIds : \E p \in Replies : p.id = i
  BY DEF BackIds, CarriedIds, IdsOf, Replies
<1>3. ASSUME NEW i \in BufferedIds PROVE \E p \in Replies : p.id = i
  <2>1. i \in Ids /\ inbox[i] \in Seq(Packet) /\ inbox[i] # <<>>
    BY DEF BufferedIds, TypeInv, SMInv, SMTypeOK
  <2>2. 1 \in DOMAIN inbox[i]
    BY <2>1
  <2>3. inbox[i][1].id = i /\ inbox[i][1] \in PacketsIn(inbox[i])
    BY <2>1, <2>2 DEF PacketsIn, TypeInv, SMInv, SessionsIsolated
  <2> QED BY <2>1, <2>3, RepliesDef DEF Buffered
<1> QED BY <1>1, <1>2, <1>3

LEMMA BufferedPacketIds ==
  ASSUME TypeInv, NEW p \in Buffered
  PROVE  p.id \in BufferedIds /\ p \in PacketsIn(inbox[p.id])
<1>1. PICK i \in Ids : p \in PacketsIn(inbox[i])
  BY DEF Buffered
<1>2. p.id = i
  BY <1>1 DEF PacketsIn, TypeInv, SMInv, SessionsIsolated
<1>3. inbox[i] # <<>>
  BY <1>1, PacketsInEmpty
<1> QED BY <1>1, <1>2, <1>3 DEF BufferedIds

\* A session whose owner is not waiting has no packet anywhere.
LEMMA NotWaitingNoPacket ==
  ASSUME TypeInv, FlightInv, NEW t \in Tasks, Open(t), call[t] # "waiting"
  PROVE  /\ sid[t] \notin OutIds \cup HandIds \cup PendingIds
         /\ sid[t] \notin BackIds \cup CarriedIds \cup BufferedIds
BY StageIdsOfPackets DEF FlightInv, RequestOfWaiter, ReplyToWaiter

LEMMA BufferedPacketIdsNext ==
  ASSUME TypeInv, [Next]_vars, NEW p \in Buffered'
  PROVE  p.id \in Ids /\ p \in PacketsIn(inbox'[p.id])
<1>1. PICK i \in Ids : p \in PacketsIn(inbox'[i])
  BY BufferedMemberNext
<1>2. \A k \in DOMAIN inbox'[i] : inbox'[i][k].id = i
  BY ManagerInvStep DEF SMInv, SessionsIsolated
<1>3. p.id = i
  BY <1>1, <1>2 DEF PacketsIn
<1> QED BY <1>1, <1>3

\* The packet a session receives was the last one of that session.
LEMMA ReceiveTakesLast ==
  ASSUME TypeInv, FlightInv, [Next]_vars, NEW t \in Tasks, Receive(t)
  PROVE  \A p \in (Requests \cup Replies)' : p.id # sid[t]
<1> SUFFICES ASSUME NEW p \in (Requests \cup Replies)', p.id = sid[t] PROVE FALSE
  OBVIOUS
<1>1. StagesApart /\ SingleBuffer
  BY OneInFlightParts DEF FlightInv
<1>2. sid[t] \in Ids /\ inbox[sid[t]] # <<>> /\ inbox' = [inbox EXCEPT ![sid[t]] = Tail(@)]
  BY DEF Receive, TakeFromInbox, TypeInv, SMInv, SMTypeOK, SessionsIsolated
<1>3. sid[t] \in BufferedIds
  BY <1>2 DEF BufferedIds
<1>4. UNCHANGED <<outbound, hand, pending, toClient, carried>>
  BY DEF Receive, TakeFromInbox, taskVars, wireVars
<1>5. CASE p \in Requests'
  <2>1. p \in Requests
    BY <1>4, <1>5, RequestsDefNext DEF Requests
  <2>2. sid[t] \in OutIds \cup HandIds \cup PendingIds
    BY <2>1 DEF Requests, OutIds, HandIds, PendingIds, IdsOf
  <2> QED BY <1>1, <1>3, <2>2 DEF StagesApart, Apart
<1>6. CASE p \in PacketsIn(toClient') \cup IfPacket(carried')
  <2>1. sid[t] \in BackIds \cup CarriedIds
    BY <1>4, <1>6 DEF BackIds, CarriedIds, IdsOf
  <2> QED BY <1>1, <1>3, <2>1 DEF StagesApart, Apart
<1>7. CASE p \in Buffered'
  <2>1. inbox[sid[t]] \in Seq(Packet) /\ Len(inbox[sid[t]]) <= 1
    BY <1>1, <1>2 DEF SingleBuffer, TypeInv, SMInv, SMTypeOK
  <2>2. inbox'[sid[t]] = Tail(inbox[sid[t]])
    BY <1>2 DEF TypeInv, SMInv, SMTypeOK
  <2>3. Tail(inbox[sid[t]]) = <<>>
    BY <1>2, <2>1
  <2> QED BY <1>7, <2>2, <2>3, BufferedPacketIdsNext, PacketsInEmpty
<1> QED BY <1>5, <1>6, <1>7, RepliesDefNext

\* A call that finds its session's channel closed has no packet on its way.
LEMMA ClosedMeansNothingFlies ==
  ASSUME TypeInv, [Next]_vars, NEW t \in Tasks, ReceiveClosed(t)
  PROVE  \A p \in (Requests \cup Replies)' : p.id # sid[t]
<1>1. UNCHANGED <<outbound, hand, pending, toClient, carried, inbox>>
  BY DEF ReceiveClosed, taskVars, wireVars, smVars
<1>2. supervisor = "done" /\ inbox[sid[t]] = <<>>
  BY DEF ReceiveClosed, ManagerAlive
<1>3. outbound = <<>> /\ hand = NoPacket /\ pending = {} /\ toClient = <<>> /\ carried = NoPacket
  BY <1>2 DEF TypeInv, Teardown
<1>4. Requests' = {}
  BY <1>1, <1>3, RequestsDefNext, PacketsInEmpty DEF IfPacket
<1>5. Replies' = Buffered'
  BY <1>1, <1>3, RepliesDefNext, PacketsInEmpty DEF IfPacket
<1>6. \A p \in Buffered' : p.id # sid[t]
  BY <1>1, <1>2, BufferedPacketIdsNext, PacketsInEmpty
<1> QED BY <1>4, <1>5, <1>6

\* A task that waits goes on waiting for the same reply until recv returns.
LEMMA WaitStep ==
  ASSUME TypeInv, [Next]_vars, Orderly, NEW t \in Tasks,
         Open(t), Open(t)', call[t] = "waiting"
  PROVE  \/ reqSeq'[t] = reqSeq[t] /\ call'[t] = "waiting"
         \/ Receive(t)
         \/ ReceiveClosed(t)
<1>a. TypeOK
  BY DEF TypeInv
<1>1. ASSUME NEW u \in Tasks, ClientNext(u)
      PROVE  \/ reqSeq'[t] = reqSeq[t] /\ call'[t] = "waiting"
             \/ Receive(t)
             \/ ReceiveClosed(t)
  <2>1. CASE BeginCreate(u)
    BY <2>1 DEF BeginCreate, connVars, callVars
  <2>2. CASE CreateSession(u)
    <3>1. u # t
      BY <2>2 DEF CreateSession, CreateChannel, InsertChannel, Open
    <3> QED BY <2>2, <3>1, <1>a DEF CreateSession, TypeOK
  <2>3. CASE BeginRequest(u)
    BY <2>3, <1>a DEF BeginRequest, TypeOK
  <2>4. CASE Enqueue(u) \/ EnqueueFailed(u)
    BY <2>4, <1>a DEF Enqueue, EnqueueFailed, TypeOK
  <2>5. CASE Receive(u) \/ ReceiveClosed(u)
    BY <2>5, <1>a DEF Receive, ReceiveClosed, TypeOK
  <2>6. CASE DropSession(u)
    <3>1. u # t
      BY <2>6, <1>a DEF DropSession, DropReceiver, Open, TypeOK, SMTypeOK
    <3> QED BY <2>6, <3>1, <1>a DEF DropSession, TypeOK
  <2>7. CASE Cancel(u)
    BY <2>7 DEF Cancel, Orderly
  <2> QED BY <1>1, <2>1, <2>2, <2>3, <2>4, <2>5, <2>6, <2>7 DEF ClientNext
<1>2. CASE UNCHANGED callVars
  BY <1>2 DEF callVars
<1>3. [Next]_vars => UNCHANGED callVars \/ \E u \in Tasks : ClientNext(u)
  BY DEF Next, Run, Join, DropHandle, WriterRecv, WriteDone, WriteFailed, ReadPacket,
     ReadFailed, Forward, ServerAnswer, ServerClose, ServerStray, vars, connVars
<1> QED BY <1>1, <1>2, <1>3

LEMMA WaiterStep ==
  ASSUME TypeInv, FlightInv, Orderly, [Next]_vars
  PROVE  /\ \A p \in Requests' : RequestOfWaiter(p)'
         /\ \A p \in Replies' : ReplyToWaiter(p)'
<1>1. ASSUME NEW p \in (Requests \cup Replies)', NEW t \in Tasks, p.id \in channels,
             Open(t)', sid'[t] = p.id, Open(t) /\ sid[t] = p.id => call[t] = "waiting"
      PROVE  Open(t) /\ sid[t] = p.id /\ reqSeq'[t] = reqSeq[t] /\ call'[t] = "waiting"
  <2>1. Open(t) /\ sid[t] = p.id
    BY <1>1, SessionStep
  <2>2. ~Receive(t) /\ ~ReceiveClosed(t)
    BY <2>1, ReceiveTakesLast, ClosedMeansNothingFlies
  <2> QED BY <1>1, <2>1, <2>2, WaitStep
<1>2. ASSUME NEW p \in Requests', p \in Requests PROVE RequestOfWaiter(p)'
  BY <1>1, <1>2, SessionStep DEF FlightInv, RequestOfWaiter
<1>3. ASSUME NEW p \in Replies', p \in Replies PROVE ReplyToWaiter(p)'
  <2>1. ReplyToWaiter(p)
    BY <1>3 DEF FlightInv
  <2>2. p.id \in channels'
    BY <2>1, SessionStep DEF ReplyToWaiter
  <2>3. ASSUME NEW t \in Tasks, Open(t)', sid'[t] = p.id
        PROVE  p.by = t /\ p.seq = WrappingInc(reqSeq'[t]) /\ call'[t] = "waiting"
    <3>1. Open(t) /\ sid[t] = p.id /\ reqSeq'[t] = reqSeq[t] /\ call'[t] = "waiting"
      BY <1>1, <1>3, <2>1, <2>3 DEF ReplyToWaiter
    <3> QED BY <2>1, <3>1 DEF ReplyToWaiter
  <2> QED BY <2>2, <2>3 DEF ReplyToWaiter, WrappingInc
<1>4. ASSUME NEW t \in Tasks, NewRequest(t), NEW p \in Requests', p = Request(t)
      PROVE  RequestOfWaiter(p)'
  <2>1. Enqueue(t) /\ Open(t) /\ sid[t] \in channels
    BY <1>4 DEF NewRequest, Enqueue, TypeInv, SMInv, SessionsIsolated
  <2>2. UNCHANGED <<channels, stage, sid, reqSeq>> /\ call'[t] = "waiting"
    BY <2>1 DEF Enqueue, smVars, TypeInv, TypeOK
  <2> QED BY <1>4, <2>1, <2>2
          DEF RequestOfWaiter, Request, Open, TypeInv, SMInv, SessionsIsolated
<1>5. ASSUME NEW r \in pending, NEW ok \in BOOLEAN, NewReply(r, ok),
             NEW p \in Replies', p = Reply(r, ok)
      PROVE  ReplyToWaiter(p)'
  <2>1. RequestOfWaiter(r)
    BY DEF FlightInv, Requests
  <2>2. UNCHANGED <<channels, stage, sid, reqSeq, call>>
    BY <1>5 DEF NewReply, ServerAnswer, smVars, callVars
  <2> QED BY <1>5, <2>1, <2>2 DEF RequestOfWaiter, ReplyToWaiter, Reply, Open, WrappingInc
<1>6. ~ServerStray
  BY DEF ServerStray, Orderly
<1> QED
  BY <1>2, <1>3, <1>4, <1>5, <1>6, PacketFlow DEF NoNewPacket, NewRequest, NewReply, NewStray

\* The id of the packet carried comes back empty-handed or goes into the buffer
\* of its session, which was empty.
LEMMA ForwardBuffers ==
  ASSUME TypeInv, FlightInv, Forward
  PROVE  /\ SingleBuffer'
         /\ \/ CarriedIds' \subseteq CarriedIds /\ BufferedIds' \subseteq BufferedIds
            \/ CarriedIds' = {} /\ BufferedIds' \subseteq BufferedIds \cup CarriedIds
<1>a. StagesApart /\ SingleBuffer
  BY OneInFlightParts DEF FlightInv
<1>1. CASE LookupUnknown \/ LookupFound \/ ForwardFailed
  <2>1. UNCHANGED inbox /\ carried' \in {carried, NoPacket}
    BY <1>1 DEF LookupUnknown, LookupFound, ForwardFailed
  <2> QED BY <1>a, <2>1 DEF SingleBuffer, CarriedIds, BufferedIds, IfPacket, IdsOf
<1>2. CASE ForwardSent
  <2>1. carried \in Packet /\ carried # NoPacket /\ carried.id \in Ids
    BY <1>2 DEF ForwardSent, TypeInv, SMInv, SMTypeOK, LockCoversSend, Packet
  <2>2. carried.id \in CarriedIds
    BY <2>1 DEF CarriedIds, IfPacket, IdsOf
  <2>3. inbox[carried.id] = <<>>
    BY <1>a, <2>1, <2>2 DEF StagesApart, Apart, BufferedIds
  <2>4. /\ inbox' = [inbox EXCEPT ![carried.id] = Append(@, carried)]
        /\ carried' = NoPacket
        /\ inbox \in [Ids -> Seq(Packet)]
    BY <1>2 DEF ForwardSent, TypeInv, SMInv, SMTypeOK
  <2>5. Len(Append(<<>>, carried)) = 1
    BY <2>1, EmptyInbox
  <2>6. \A i \in Ids : inbox'[i] = IF i = carried.id THEN Append(<<>>, carried) ELSE inbox[i]
    BY <2>1, <2>3, <2>4
  <2>7. SingleBuffer'
    <3>1. ASSUME NEW i \in Ids PROVE Len(inbox'[i]) <= 1
      <4>1. CASE i = carried.id
        <5>1. inbox'[i] = Append(<<>>, carried)
          BY <2>6, <4>1
        <5> QED BY <2>5, <5>1
      <4>2. CASE i # carried.id
        BY <1>a, <2>6, <4>2 DEF SingleBuffer
      <4> QED BY <4>1, <4>2
    <3> QED BY <3>1 DEF SingleBuffer
  <2>8. CarriedIds' = {}
    BY <2>4 DEF CarriedIds, IfPacket, IdsOf
  <2>9. BufferedIds' \subseteq BufferedIds \cup CarriedIds
    BY <2>2, <2>6 DEF BufferedIds
  <2> QED BY <2>7, <2>8, <2>9
<1> QED BY <1>1, <1>2 DEF Forward

\* The tasks' steps other than the send only empty buffers.
LEMMA ClientBuffers ==
  ASSUME TypeInv, SingleBuffer, NEW t \in Tasks, ClientNext(t)
  PROVE  SingleBuffer' /\ BufferedIds' \subseteq BufferedIds
<1>a. inbox \in [Ids -> Seq(Packet)]
  BY DEF TypeInv, SMInv, SMTypeOK
<1>1. ASSUME UNCHANGED inbox PROVE SingleBuffer' /\ BufferedIds' \subseteq BufferedIds
  BY <1>1 DEF SingleBuffer, BufferedIds
<1>2. ASSUME NEW i \in Ids, inbox' = [inbox EXCEPT ![i] = <<>>]
      PROVE  SingleBuffer' /\ BufferedIds' \subseteq BufferedIds
  <2>1. \A j \in Ids : inbox'[j] = IF j = i THEN <<>> ELSE inbox[j]
    BY <1>a, <1>2
  <2> QED BY <2>1, EmptyInbox DEF SingleBuffer, BufferedIds
<1>3. CASE Receive(t)
  <2>1. /\ inbox[sid[t]] # <<>> /\ sid[t] \in Ids
        /\ inbox' = [inbox EXCEPT ![sid[t]] = Tail(@)]
    BY <1>3 DEF Receive, TakeFromInbox, TypeInv, SMInv, SMTypeOK, SessionsIsolated
  <2>2. inbox[sid[t]] \in Seq(Packet) /\ Len(inbox[sid[t]]) <= 1
    BY <1>a, <2>1 DEF SingleBuffer
  <2>3. Tail(inbox[sid[t]]) = <<>>
    BY <2>1, <2>2
  <2>4. \A j \in Ids : inbox'[j] = IF j = sid[t] THEN <<>> ELSE inbox[j]
    BY <1>a, <2>1, <2>3
  <2> QED BY <2>4, EmptyInbox DEF SingleBuffer, BufferedIds
<1>4. CASE CreateSession(t)
  <2>1. PICK i \in Ids : inbox' = [inbox EXCEPT ![i] = <<>>]
    BY <1>4 DEF CreateSession, CreateChannel, InsertChannel
  <2> QED BY <2>1, <1>2
<1>5. CASE DropSession(t)
  <2>1. sid[t] \in Ids /\ inbox' = [inbox EXCEPT ![sid[t]] = <<>>]
    BY <1>5 DEF DropSession, DropReceiver, TypeInv, SMInv, SMTypeOK, SessionsIsolated
  <2> QED BY <2>1, <1>2
<1>6. CASE BeginCreate(t) \/ BeginRequest(t) \/ Enqueue(t) \/ EnqueueFailed(t)
           \/ ReceiveClosed(t) \/ Cancel(t)
  <2>1. UNCHANGED inbox
    BY <1>6 DEF BeginCreate, CheckAccepting, RefuseSession, BeginRequest, Enqueue,
       EnqueueFailed, ReceiveClosed, Cancel, smVars
  <2> QED BY <2>1, <1>1
<1> QED BY <1>3, <1>4, <1>5, <1>6 DEF ClientNext

LEMMA OneInFlightStep ==
  ASSUME TypeInv, FlightInv, Orderly, [Next]_vars
  PROVE  OneInFlight'
<1>a. Distinct(outbound) /\ Distinct(toClient) /\ PendingDistinct /\ SingleBuffer /\ StagesApart
  BY OneInFlightParts DEF FlightInv
<1>b. TypeOK /\ Teardown
  BY DEF TypeInv
<1>c. OneInFlight' <=> Distinct(outbound') /\ Distinct(toClient') /\ PendingDistinct'
                         /\ SingleBuffer' /\ StagesApart'
  <2>1. OneInFlight' <=> (Distinct(outbound) /\ Distinct(toClient) /\ PendingDistinct
                            /\ SingleBuffer /\ StagesApart)'
    BY OneInFlightParts, PTL
  <2> QED BY <2>1 DEF Distinct
<1> DEFINE Parts == Distinct(outbound') /\ Distinct(toClient') /\ PendingDistinct'
                      /\ SingleBuffer' /\ StagesApart'
<1> SUFFICES Parts
  BY <1>c
<1>d. ASSUME UNCHANGED outbound PROVE Distinct(outbound') /\ OutIds' = OutIds
  BY <1>a, <1>d DEF OutIds
<1>e. ASSUME UNCHANGED hand PROVE HandIds' = HandIds
  BY <1>e DEF HandIds
<1>f. ASSUME UNCHANGED pending PROVE PendingDistinct' /\ PendingIds' = PendingIds
  BY <1>a, <1>f DEF PendingDistinct, PendingIds
<1>g. ASSUME UNCHANGED toClient PROVE Distinct(toClient') /\ BackIds' = BackIds
  BY <1>a, <1>g DEF BackIds
<1>h. ASSUME UNCHANGED carried PROVE CarriedIds' = CarriedIds
  BY <1>h DEF CarriedIds
<1>i. ASSUME UNCHANGED inbox PROVE SingleBuffer' /\ BufferedIds' = BufferedIds
  BY <1>a, <1>i DEF SingleBuffer, BufferedIds
<1>j. ASSUME hand' = NoPacket PROVE HandIds' = {}
  BY <1>j DEF HandIds, IfPacket, IdsOf
<1> USE DEF taskVars, wireVars, callVars, connVars, smVars
<1>1. ASSUME NEW t \in Tasks, ClientNext(t), ~Enqueue(t) PROVE Parts
  <2>1. UNCHANGED <<outbound, hand, pending, toClient, carried>>
    BY <1>1 DEF ClientNext, BeginCreate, CheckAccepting, RefuseSession, CreateSession,
       CreateChannel, InsertChannel, BeginRequest, EnqueueFailed, Receive, TakeFromInbox,
       ReceiveClosed, DropSession, DropReceiver, Cancel
  <2>2. SingleBuffer' /\ BufferedIds' \subseteq BufferedIds
    BY <1>a, <1>1, ClientBuffers
  <2>3. StagesApart'
    BY <2>1, <2>2, <1>a, <1>d, <1>e, <1>f, <1>g, <1>h DEF StagesApart, Apart
  <2> QED BY <2>1, <2>2, <2>3, <1>d, <1>f, <1>g
<1>2. ASSUME NEW t \in Tasks, Enqueue(t) PROVE Parts
  <2>1. UNCHANGED <<hand, pending, toClient, carried, inbox>>
    BY <1>2 DEF Enqueue
  <2>2. /\ sid[t] \notin OutIds \cup HandIds \cup PendingIds
        /\ sid[t] \notin BackIds \cup CarriedIds \cup BufferedIds
    BY <1>2, NotWaitingNoPacket DEF Enqueue
  <2>3. Request(t) \in Packet /\ Request(t).id = sid[t] /\ outbound \in Seq(Packet)
        /\ outbound' = Append(outbound, Request(t))
    BY <1>2, <1>b, RequestIsPacket DEF Enqueue, Request, TypeOK
  <2>4. Distinct(outbound')
    BY <1>a, <2>2, <2>3, AppendDistinct DEF OutIds
  <2>5. OutIds' = OutIds \cup {sid[t]}
    BY <2>3, PacketsInAppend DEF OutIds, IdsOf
  <2>6. StagesApart'
    BY <2>1, <2>2, <2>5, <1>a, <1>e, <1>f, <1>g, <1>h, <1>i DEF StagesApart, Apart
  <2> QED BY <2>1, <2>4, <2>6, <1>f, <1>g, <1>i
<1>3. CASE Run \/ Join \/ DropHandle \/ UNCHANGED vars
  <2>1. UNCHANGED <<outbound, hand, pending, toClient, carried, inbox>>
    BY <1>3 DEF Run, Join, DisableNewSessions, DropHandle, vars
  <2>2. StagesApart'
    BY <2>1, <1>a, <1>d, <1>e, <1>f, <1>g, <1>h, <1>i DEF StagesApart, Apart
  <2> QED BY <2>1, <2>2, <1>d, <1>f, <1>g, <1>i
<1>4. CASE WriterRecv
  <2>1. UNCHANGED <<pending, toClient, carried, inbox>>
    BY <1>4 DEF WriterRecv
  <2>2. outbound \in Seq(Packet) /\ outbound # <<>> /\ outbound' = Tail(outbound)
        /\ hand' = Head(outbound) /\ Head(outbound) \in Packet /\ hand = NoPacket
    BY <1>4, <1>b DEF WriterRecv, TypeOK, Teardown
  <2>3. /\ Distinct(outbound')
        /\ Head(outbound).id \notin OutIds'
        /\ OutIds = OutIds' \cup {Head(outbound).id}
    BY <2>2, <1>a, TailDistinct DEF OutIds
  <2>4. HandIds' = {Head(outbound).id}
    BY <2>2, SessionManagerAssumption DEF HandIds, IfPacket, IdsOf, SessionManagerAssumption
  <2>5. StagesApart'
    BY <2>1, <2>3, <2>4, <1>a, <1>f, <1>g, <1>h, <1>i DEF StagesApart, Apart
  <2> QED BY <2>1, <2>3, <2>5, <1>f, <1>g, <1>i
<1>5. CASE WriteDone
  <2>1. UNCHANGED <<outbound, toClient, carried, inbox>> /\ hand' = NoPacket
    BY <1>5 DEF WriteDone
  <2>2. hand # NoPacket /\ pending' \subseteq pending \cup {hand}
    BY <1>5, <1>b DEF WriteDone, Teardown
  <2>3. hand.id \in HandIds /\ PendingIds' \subseteq PendingIds \cup HandIds
    BY <2>2 DEF HandIds, PendingIds, IfPacket, IdsOf
  <2>4. \A p \in pending : p.id # hand.id
    BY <2>3, <1>a DEF StagesApart, Apart, PendingIds, IdsOf
  <2>5. PendingDistinct'
    BY <2>2, <2>4, <1>a DEF PendingDistinct
  <2>6. StagesApart'
    BY <2>1, <2>3, <1>a, <1>d, <1>g, <1>h, <1>i, <1>j DEF StagesApart, Apart
  <2> QED BY <2>1, <2>5, <2>6, <1>d, <1>g, <1>i
<1>6. CASE WriteFailed
  <2>1. UNCHANGED <<pending, toClient, carried, inbox>> /\ hand' = NoPacket /\ outbound' = <<>>
    BY <1>6 DEF WriteFailed
  <2>2. OutIds' = {} /\ Distinct(outbound')
    BY <2>1, PacketsInEmpty DEF OutIds, IdsOf, Distinct
  <2>3. StagesApart'
    BY <2>1, <2>2, <1>a, <1>f, <1>g, <1>h, <1>i, <1>j DEF StagesApart, Apart
  <2> QED BY <2>1, <2>2, <2>3, <1>f, <1>g, <1>i
<1>7. CASE ReadPacket
  <2>1. UNCHANGED <<outbound, hand, pending, inbox>>
    BY <1>7 DEF ReadPacket, BeginForward
  <2>2. toClient \in Seq(Packet) /\ toClient # <<>> /\ toClient' = Tail(toClient)
        /\ carried' = Head(toClient) /\ Head(toClient) \in Packet /\ carried = NoPacket
    BY <1>7, <1>b DEF ReadPacket, BeginForward, TypeOK
  <2>3. /\ Distinct(toClient')
        /\ Head(toClient).id \notin BackIds'
        /\ BackIds = BackIds' \cup {Head(toClient).id}
    BY <2>2, <1>a, TailDistinct DEF BackIds
  <2>4. CarriedIds' = {Head(toClient).id}
    BY <2>2, SessionManagerAssumption DEF CarriedIds, IfPacket, IdsOf, SessionManagerAssumption
  <2>5. StagesApart'
    BY <2>1, <2>3, <2>4, <1>a, <1>d, <1>e, <1>f, <1>i DEF StagesApart, Apart
  <2> QED BY <2>1, <2>3, <2>5, <1>d, <1>f, <1>i
<1>8. CASE ReadFailed
  <2>1. UNCHANGED <<outbound, hand, pending, carried, inbox>> /\ toClient' = <<>>
    BY <1>8 DEF ReadFailed
  <2>2. BackIds' = {} /\ Distinct(toClient')
    BY <2>1, PacketsInEmpty DEF BackIds, IdsOf, Distinct
  <2>3. StagesApart'
    BY <2>1, <2>2, <1>a, <1>d, <1>e, <1>f, <1>h, <1>i DEF StagesApart, Apart
  <2> QED BY <2>1, <2>2, <2>3, <1>d, <1>f, <1>i
<1>9. CASE Forward
  <2>1. UNCHANGED <<outbound, hand, pending, toClient>>
    BY <1>9 DEF Forward
  <2>2. StagesApart'
    BY <2>1, <1>9, ForwardBuffers, <1>a, <1>d, <1>e, <1>f, <1>g DEF StagesApart, Apart
  <2> QED BY <2>1, <2>2, <1>9, ForwardBuffers, <1>d, <1>f, <1>g
<1>10. ASSUME NEW p \in pending, ServerAnswer(p) PROVE Parts
  <2>1. PICK ok \in BOOLEAN : toClient' = Append(toClient, Reply(p, ok))
    BY <1>10 DEF ServerAnswer
  <2>2. UNCHANGED <<outbound, hand, carried, inbox>> /\ pending' = pending \ {p}
    BY <1>10 DEF ServerAnswer
  <2>3. p \in Packet /\ Reply(p, ok) \in Packet /\ Reply(p, ok).id = p.id /\ toClient \in Seq(Packet)
    BY <1>b, ReplyIsPacket DEF TypeOK, Reply
  <2>4. p.id \in PendingIds
    BY DEF PendingIds, IdsOf
  <2>5. PendingDistinct' /\ PendingIds' = PendingIds \ {p.id}
    BY <2>2, <1>a DEF PendingDistinct, PendingIds, IdsOf
  <2>6. p.id \notin BackIds
    BY <2>4, <1>a DEF StagesApart, Apart
  <2>7. Distinct(toClient') /\ BackIds' = BackIds \cup {p.id}
    BY <2>1, <2>3, <2>6, <1>a, AppendDistinct, PacketsInAppend DEF BackIds, IdsOf
  <2>8. StagesApart'
    BY <2>2, <2>4, <2>5, <2>7, <1>a, <1>d, <1>e, <1>h, <1>i DEF StagesApart, Apart
  <2> QED BY <2>2, <2>5, <2>7, <2>8, <1>d, <1>i
<1>11. CASE ServerClose
  <2>1. UNCHANGED <<outbound, hand, toClient, carried, inbox>> /\ pending' = {}
    BY <1>11 DEF ServerClose
  <2>2. PendingDistinct' /\ PendingIds' = {}
    BY <2>1 DEF PendingDistinct, PendingIds, IdsOf
  <2>3. StagesApart'
    BY <2>1, <2>2, <1>a, <1>d, <1>e, <1>g, <1>h, <1>i DEF StagesApart, Apart
  <2> QED BY <2>1, <2>2, <2>3, <1>d, <1>g, <1>i
<1>12. ~ServerStray
  BY DEF ServerStray, Orderly
<1> QED
  BY <1>1, <1>2, <1>3, <1>4, <1>5, <1>6, <1>7, <1>8, <1>9, <1>10, <1>11, <1>12
     DEF Next

LEMMA FlightInvariance ==
  ASSUME Orderly
  PROVE  Spec => []FlightInv
<1>1. Init => FlightInv
  <2> SUFFICES ASSUME Init PROVE FlightInv
    OBVIOUS
  <2>1. Distinct(outbound) /\ Distinct(toClient) /\ PendingDistinct /\ SingleBuffer
    BY EmptyInbox DEF Init, SMInit, Distinct, PendingDistinct, SingleBuffer
  <2>2. StagesApart
    BY PacketsInEmpty DEF Init, SMInit, StagesApart, Apart, OutIds, HandIds, PendingIds,
       BackIds, CarriedIds, BufferedIds, IfPacket, IdsOf
  <2> QED BY <2>1, <2>2, OneInFlightParts, NoPacketsInitially DEF FlightInv
<1>2. TypeInv /\ FlightInv /\ [Next]_vars => FlightInv'
  BY OneInFlightStep, WaiterStep DEF FlightInv
<1> QED BY <1>1, <1>2, TypeInvariance, PTL DEF Spec

\* Without cancelled calls and stray packets a session has one packet in the
\* whole system, whether or not the peer closes the connection.
THEOREM OnePacketPerSession ==
  ASSUME Faults \subseteq {"close"}
  PROVE  Spec => []OneInFlight
<1>1. FlightInv => OneInFlight
  BY DEF FlightInv
<1>2. Orderly
  BY DEF Orderly
<1> QED BY <1>1, <1>2, FlightInvariance, PTL

\* Under the same condition every reply on its way to a live session answers
\* the request its owner is waiting for.
THEOREM RepliesAreAwaited ==
  ASSUME Faults \subseteq {"close"}
  PROVE  Spec => []RepliesReachTheirRequester
<1>1. FlightInv => RepliesReachTheirRequester
  BY DEF FlightInv, ReplyToWaiter, RepliesReachTheirRequester
<1>2. Orderly
  BY DEF Orderly
<1> QED BY <1>1, <1>2, FlightInvariance, PTL

\* Under the same condition the read task never holds the map's lock while it
\* waits for a live session to make room.
THEOREM ReaderIsNeverBlocked ==
  ASSUME Faults \subseteq {"close"}
  PROVE  Spec => []ReaderNeverBlocks
<1>1. TypeInv /\ FlightInv => ReaderNeverBlocks
  <2> SUFFICES ASSUME TypeInv, FlightInv, readLock
               PROVE  Len(inbox[carried.id]) < InCap
    BY DEF ReaderNeverBlocks
  <2>1. carried \in Packet /\ carried # NoPacket /\ carried.id \in Ids
    BY DEF TypeInv, SMInv, SMTypeOK, LockCoversSend, Packet
  <2>2. carried.id \in CarriedIds
    BY <2>1 DEF CarriedIds, IfPacket, IdsOf
  <2>3. inbox[carried.id] = <<>>
    BY <2>1, <2>2, OneInFlightParts DEF FlightInv, StagesApart, Apart, BufferedIds
  <2> QED BY <2>3, EmptyInbox, SessionManagerAssumption DEF SessionManagerAssumption
<1>2. Orderly
  BY DEF Orderly
<1> QED BY <1>1, <1>2, FlightInvariance, TypeInvariance, PTL
=============================================================================
